---------------------------- MODULE CardPortProofs ----------------------------
(***************************************************************************)
(* Who may have what under way at the port of the SDRAM controller: the    *)
(* arbiter gives the port away only when no read is left that a write of   *)
(* the next user could run into on the data bus, and a line fetch gets     *)
(* exactly the words it asked for.                                         *)
(***************************************************************************)
EXTENDS CardProofs

-----------------------------------------------------------------------------
(* The controller seen from its port.                                      *)

\* Only a reset leads to the startup state, and it finds and leaves nothing.
StartupQuiet == state = "startup" => ~got_transaction /\ ~ready_for_new

\* A single read has its place in the delay line behind its state.
ReadPlaces ==
  /\ state = "read_2" => 3 \in data_ready_delay
  /\ state = "read_3" => 2 \in data_ready_delay
  /\ state = "read_4" => 1 \in data_ready_delay

LEMMA NextState ==
  ASSUME NEW in, ~in.reset, SDRAMClock(in)
  PROVE  /\ state = "startup" => state' = "idle"
         /\ state \in DOMAIN AfterWait => state' = AfterWait[state]
         /\ state = "idle" => state' \in {"idle", "idle_in_2", "open_in_2"}
         /\ state = "open_in_2" => state' = "open_in_1"
         /\ state = "open_in_1" => state' \in {"write_1", "read_1"}
         /\ state = "read_1" => state' \in {"read_2", "burst_read"}
         /\ state = "burst_read" => state' \in {"burst_read", "precharge"}
         /\ state \in DOMAIN AfterRead => state' \in {"read_1", "open_in_2", AfterRead[state]}
         /\ state = "write_1" => state' = "write_2"
         /\ state = "write_2" => state' \in {"write_1", "write_3"}
         /\ state = "write_3" => state' \in {"write_1", "precharge"}
         /\ state = "precharge" => state' = "idle_in_4"
<1>1. ControllerState(in)  BY DEF SDRAMClock
<1>2. CASE Startup(in) \/ LoadMode(in) \/ Activate(in) \/ IdleNop(in) \/ OpenIn2(in) \/ OpenIn1(in)
  BY <1>2 DEF Startup, LoadMode, Activate, IdleNop, OpenIn2, OpenIn1, Keep, Reopen, Goto, AfterWait,
     AfterRead
<1>3. CASE IdleWait(in)
  <2>1. state \in DOMAIN AfterWait /\ state' = AfterWait[state]  BY <1>3 DEF IdleWait, Keep, Goto
  <2> QED  BY <2>1 DEF AfterWait, AfterRead
<1>4. CASE ReadTail(in)
  <2>1. state \in DOMAIN AfterRead /\ state' \in {"read_1", "open_in_2", AfterRead[state]}
    BY <1>4 DEF ReadTail, Keep, Reopen, Goto
  <2> QED  BY <2>1 DEF AfterWait, AfterRead
<1>5. CASE Read1(in) \/ BurstRead(in) \/ BurstTerminate(in)
  BY <1>5 DEF Read1, BurstRead, BurstTerminate, Keep, Reopen, Goto, AfterWait, AfterRead
<1>6. CASE Write1(in) \/ Write2(in) \/ Write3(in) \/ Precharge(in)
  BY <1>6 DEF Write1, Write2, Write3, Precharge, Keep, Reopen, Goto, AfterWait, AfterRead
<1> QED  BY <1>1, <1>2, <1>3, <1>4, <1>5, <1>6 DEF ControllerState

LEMMA StateTable ==
  /\ DOMAIN AfterWait = {"idle_in_4", "idle_in_3", "idle_in_2", "idle_in_1"}
  /\ AfterWait["idle_in_4"] = "idle_in_3" /\ AfterWait["idle_in_3"] = "idle_in_2"
  /\ AfterWait["idle_in_2"] = "idle_in_1" /\ AfterWait["idle_in_1"] = "idle"
  /\ DOMAIN AfterRead = {"read_2", "read_3", "read_4"}
  /\ AfterRead["read_2"] = "read_3" /\ AfterRead["read_3"] = "read_4"
  /\ AfterRead["read_4"] = "precharge"
BY DEF AfterWait, AfterRead

\* What a transaction on offer does to the queue: it is held until the state
\* that puts it on the pins reopens, and cmd_ready is down meanwhile.
LEMMA QueueStep ==
  ASSUME SafeInv, NEW in \in ClientInputs, ~in.reset, SDRAMClock(in)
  PROVE  /\ Accepts(in) => /\ save' = [wr |-> in.wr, bank |-> in.bank, row |-> in.row,
                                       col |-> in.col, lanes |-> in.lanes, data |-> in.data,
                                       next |-> in.next]
                           /\ state \notin {"startup", "burst_read"} => got_transaction'
         /\ ~Accepts(in) => save' = save /\ (got_transaction' => got_transaction)
         /\ state \in {"startup", "open_in_1"} => ~got_transaction'
         /\ Accepts(in) /\ state \notin {"startup", "burst_read"} =>
              ~ready_for_new' \/ (state = "read_1" /\ burst_old > 1)
<1>1. ControllerState(in) /\ Latch(in)  BY DEF SDRAMClock
<1>2. /\ Accepts(in) => save' = [wr |-> in.wr, bank |-> in.bank, row |-> in.row,
                                 col |-> in.col, lanes |-> in.lanes, data |-> in.data,
                                 next |-> in.next]
      /\ ~Accepts(in) => save' = save
  BY <1>1 DEF Latch
<1>3. Accepts(in) => ready_for_new  BY DEF Accepts
<1>4. state # "burst_read" => (got_transaction => ~ready_for_new)
  BY DEF SafeInv, Handshake
<1>5. state = "open_in_1" => got_transaction  BY DEF SafeInv, Handshake
<1>6. CASE Startup(in) \/ LoadMode(in) \/ Activate(in) \/ IdleNop(in) \/ OpenIn2(in)
  BY <1>2, <1>3, <1>4, <1>6 DEF Startup, LoadMode, Activate, IdleNop, OpenIn2, Keep, Reopen, Goto, Accepts
<1>7. CASE OpenIn1(in)
  BY <1>2, <1>3, <1>4, <1>5, <1>7 DEF OpenIn1, Reopen, Goto, Accepts
<1>8. CASE IdleWait(in)
  BY <1>2, <1>3, <1>8, StateTable DEF IdleWait, Keep, Goto, Accepts
<1>9. CASE ReadTail(in)
  BY <1>2, <1>3, <1>4, <1>9, StateTable DEF ReadTail, Keep, Reopen, Goto, Follows, Accepts
<1>10. CASE Read1(in) \/ BurstRead(in) \/ BurstTerminate(in)
  BY <1>2, <1>3, <1>10 DEF Read1, BurstRead, BurstTerminate, Keep, Reopen, Goto, Accepts
<1>11. CASE Write1(in) \/ Write2(in) \/ Write3(in) \/ Precharge(in)
  BY <1>2, <1>3, <1>4, <1>11 DEF Write1, Write2, Write3, Precharge, Keep, Reopen, Goto, Follows, Accepts
<1> QED
  BY <1>1, <1>6, <1>7, <1>8, <1>9, <1>10, <1>11 DEF ControllerState

LEMMA StartupQuietStep ==
  ASSUME SafeInv, NEW in \in ClientInputs, SDRAMClock(in), in.reset => Settled /\ ~Accepts(in)
  PROVE  StartupQuiet'
<1>1. CASE in.reset
  BY <1>1, SettledStays DEF StartupQuiet, Settled
<1>2. CASE ~in.reset
  <2>1. state \in States  BY DEF SafeInv, TypeInv, TypeOK, ControllerTypeOK
  <2>2. state' # "startup"  BY <1>2, <2>1, NextState, StateTable DEF States
  <2> QED  BY <2>2 DEF StartupQuiet
<1> QED  BY <1>1, <1>2

LEMMA DelayStep ==
  ASSUME TypeInv, NEW in, ControllerState(in)
  PROVE  /\ data_out_ready' = (0 \in data_ready_delay)
         /\ 0 \in data_ready_delay' <=> 1 \in data_ready_delay
         /\ 1 \in data_ready_delay' <=> 2 \in data_ready_delay
         /\ 2 \in data_ready_delay' <=> 3 \in data_ready_delay
         /\ 3 \in data_ready_delay' <=> Read1(in) \/ BurstRead(in)
<1>1. data_ready_delay \in SUBSET (0 .. 3)  BY DEF TypeInv, TypeOK, ControllerTypeOK
<1>2. PICK issue \in BOOLEAN : DelayLine(issue) /\ (issue <=> Read1(in) \/ BurstRead(in))
  <2>1. CASE Read1(in) \/ BurstRead(in)
    BY <2>1 DEF Read1, BurstRead
  <2>2. CASE ~Read1(in) /\ ~BurstRead(in)
    BY <2>2 DEF ControllerState, Startup, IdleWait, LoadMode, Activate, IdleNop, OpenIn2, OpenIn1,
       BurstTerminate, ReadTail, Write1, Write2, Write3, Precharge
  <2> QED  BY <2>1, <2>2
<1>3. /\ data_ready_delay' = {i - 1 : i \in data_ready_delay \ {0}} \cup (IF issue THEN {3} ELSE {})
      /\ data_out_ready' = (0 \in data_ready_delay)
  BY <1>2 DEF DelayLine
<1>4. 3 \notin {i - 1 : i \in data_ready_delay \ {0}}  BY <1>1
<1>5. \A j \in 0 .. 2 : j \in data_ready_delay' <=> j + 1 \in data_ready_delay
  BY <1>1, <1>3
<1> QED  BY <1>2, <1>3, <1>4, <1>5

LEMMA ReadPlacesStep ==
  ASSUME SafeInv, ReadPlaces, NEW in \in ClientInputs, ~in.reset, SDRAMClock(in)
  PROVE  ReadPlaces'
<1>1. ControllerState(in) /\ TypeInv  BY DEF SDRAMClock, SafeInv
<1>2. state \in States  BY <1>1 DEF TypeInv, TypeOK, ControllerTypeOK
<1>3. state' = "read_2" => state = "read_1"  BY <1>2, NextState, StateTable DEF States
<1>4. state = "read_1" => Read1(in)
  BY <1>1 DEF ControllerState, Startup, IdleWait, LoadMode, Activate, IdleNop, OpenIn2, OpenIn1,
     BurstRead, BurstTerminate, ReadTail, Write1, Write2, Write3, Precharge, AfterWait, AfterRead
<1>5. state' = "read_3" => state = "read_2"  BY <1>2, NextState, StateTable DEF States
<1>6. state' = "read_4" => state = "read_3"  BY <1>2, NextState, StateTable DEF States
<1> QED  BY <1>1, <1>3, <1>4, <1>5, <1>6, DelayStep DEF ReadPlaces

-----------------------------------------------------------------------------
(* The data bus.  A word the chip sends is on the bus two and three edges  *)
(* after its command, by when the controller may be several states on; the *)
(* cycles of closing a row are what drains the chip's pipeline.            *)

\* No word of a read in the first n stages of the chip's pipeline or before it.
ClearTo(n) == ~ReadsNow /\ \A i \in 1 .. n : dq[i] = NoData

BusQuiet ==
  /\ state \in ReadStates => dq_hiz
  /\ ~dq_hiz => ClearTo(3)
  /\ state = "idle_in_4" => iob.cmd = "PRECHARGE"
  /\ state = "idle_in_3" => ClearTo(1)
  /\ state = "idle_in_2" => ClearTo(2)
  /\ state \in {"startup", "idle_in_1", "idle", "open_in_2", "open_in_1"} => ClearTo(3)

\* Without a new READ the pipeline drains, an edge a stage.
LEMMA PipelineDrains ==
  ASSUME TypeInv, Chip, iob'.cmd # "READ",
         ~ReadsNow \/ iob.cmd \in {"PRECHARGE", "TERMINATE", "WRITE"}
  PROVE  /\ ~ReadsNow' /\ (~ReadsNow => dq'[1] = NoData)
         /\ dq'[2] = dq[1] /\ dq'[3] = dq[2]
<1>1. chip_stream' = ChipStream /\ dq' = [i \in 1 .. 3 |-> IF i = 1 THEN ChipOut ELSE dq[i - 1]]
  BY DEF Chip
<1>2. dq'[1] = ChipOut /\ dq'[2] = dq[1] /\ dq'[3] = dq[2]  BY <1>1
<1>3. chip_stream \in Streams /\ iob.cmd \in Commands
  BY DEF TypeInv, TypeOK, ChipTypeOK, ControllerTypeOK, Pins
<1>4. chip_stream'.kind # "read"
  <2>1. CASE iob.cmd = "WRITE"
    BY <1>1, <2>1 DEF ChipStream, StartStream, Idle
  <2>2. CASE iob.cmd \in {"TERMINATE", "PRECHARGE"}
    BY <1>1, <2>2 DEF ChipStream, Idle
  <2>3. CASE iob.cmd \notin {"WRITE", "TERMINATE", "PRECHARGE"}
    <3>1. iob.cmd \in {"NOP", "ACTIVE", "LOAD_MODE"} /\ chip_stream.kind # "read"
      BY <1>3, <2>3 DEF ReadsNow, Commands
    <3>2. chip_stream' = StreamNext  BY <1>1, <3>1 DEF ChipStream
    <3> QED  BY <1>3, <3>1, <3>2 DEF StreamNext, Idle, Streams
  <2> QED  BY <2>1, <2>2, <2>3
<1>5. ~ReadsNow'  BY <1>4 DEF ReadsNow
<1> QED  BY <1>2, <1>5 DEF ChipOut

LEMMA StaysClear ==
  ASSUME TypeInv, Chip, iob'.cmd # "READ", ClearTo(3)
  PROVE  ClearTo(3)'
<1>1. ~ReadsNow /\ dq[1] = NoData /\ dq[2] = NoData  BY DEF ClearTo
<1>2. /\ ~ReadsNow' /\ dq'[1] = NoData /\ dq'[2] = NoData /\ dq'[3] = NoData
  BY <1>1, PipelineDrains
<1>3. \A i \in 1 .. 3 : i = 1 \/ i = 2 \/ i = 3  OBVIOUS
<1> QED  BY <1>2, <1>3 DEF ClearTo

\* A read that a write follows in the row without closing it would meet the
\* write on the bus.
WriteOverRead == state = "read_4" /\ Follows(TRUE)

LEMMA BusQuietStep ==
  ASSUME SafeInv, BusTurned, BusQuiet, NEW in \in ClientInputs, SDRAMClock(in),
         in.reset => Settled /\ ~dq_hiz, ~WriteOverRead
  PROVE  BusQuiet'
<1>1. TypeInv /\ PinsFit /\ ControllerState(in) /\ Chip  BY DEF SafeInv, SDRAMClock
<1>2. iob \in Pins  BY <1>1 DEF TypeInv, TypeOK, ControllerTypeOK
<1>3. ClearTo(3)' => ClearTo(1)' /\ ClearTo(2)'
  <2>1. 1 .. 1 \subseteq 1 .. 3 /\ 1 .. 2 \subseteq 1 .. 3  OBVIOUS
  <2> QED  BY <2>1 DEF ClearTo
<1>4. CASE Startup(in) \/ LoadMode(in) \/ IdleNop(in) \/ Activate(in)
  <2>1. state \in {"startup", "idle"} /\ ClearTo(3)
    BY <1>4 DEF Startup, LoadMode, IdleNop, Activate, BusQuiet
  <2>2. iob'.cmd # "READ"
    <3>1. CASE Startup(in)
      BY <1>1, <3>1 DEF Startup, PinsFit
    <3>2. CASE ~Startup(in)
      BY <1>2, <1>4, <3>2 DEF LoadMode, IdleNop, Activate, Pins
    <3> QED  BY <3>1, <3>2
  <2>3. ClearTo(3)'  BY <1>1, <2>1, <2>2, StaysClear
  <2>4. state' \in {"startup", "idle", "idle_in_2", "open_in_2"}
    BY <1>4 DEF Startup, LoadMode, IdleNop, Activate, Keep, Reopen, Goto
  <2> QED  BY <1>3, <2>3, <2>4 DEF BusQuiet, ReadStates
<1>5. CASE IdleWait(in)
  <2>1. /\ state \in {"idle_in_4", "idle_in_3", "idle_in_2", "idle_in_1"}
        /\ state' = IF in.reset THEN "startup" ELSE AfterWait[state]
        /\ dq_hiz' = dq_hiz
    BY <1>5, StateTable DEF IdleWait, Keep, Goto
  <2>2. iob'.cmd = "NOP"
    BY <1>1, <1>2, <1>5, <2>1 DEF IdleWait, PinsFit, Pins
  <2>3. ClearTo(3) => ClearTo(3)'  BY <1>1, <2>2, StaysClear
  <2>4. state = "idle_in_4" => iob.cmd = "PRECHARGE"  BY DEF BusQuiet
  <2>5. state \in {"idle_in_3", "idle_in_2", "idle_in_1"} => ~ReadsNow
    BY DEF BusQuiet, ClearTo
  <2>6. /\ ~ReadsNow' /\ (~ReadsNow => dq'[1] = NoData) /\ dq'[2] = dq[1] /\ dq'[3] = dq[2]
    BY <1>1, <2>1, <2>2, <2>4, <2>5, PipelineDrains
  <2>7. state = "idle_in_4" => ClearTo(1)'
    BY <2>4, <2>6 DEF ClearTo, ReadsNow
  <2>8. state = "idle_in_3" => ClearTo(2)'
    <3>1. \A i \in 1 .. 2 : i = 1 \/ i = 2  OBVIOUS
    <3>2. state = "idle_in_3" => dq[1] = NoData  BY DEF BusQuiet, ClearTo
    <3> QED  BY <2>5, <2>6, <3>1, <3>2 DEF ClearTo
  <2>9. state = "idle_in_2" => ClearTo(3)'
    <3>1. \A i \in 1 .. 3 : i = 1 \/ i = 2 \/ i = 3  OBVIOUS
    <3>2. state = "idle_in_2" => dq[1] = NoData /\ dq[2] = NoData  BY DEF BusQuiet, ClearTo
    <3> QED  BY <2>5, <2>6, <3>1, <3>2 DEF ClearTo
  <2>10. state = "idle_in_1" => ClearTo(3)'  BY <2>3 DEF BusQuiet
  <2>11. ~dq_hiz => ClearTo(3)'  BY <2>3 DEF BusQuiet
  <2>12. CASE in.reset
    BY <1>3, <2>1, <2>11, <2>12 DEF BusQuiet, ReadStates
  <2>13. CASE ~in.reset
    BY <2>1, <2>7, <2>8, <2>9, <2>10, <2>11, <2>13, StateTable DEF BusQuiet, ReadStates
  <2> QED  BY <2>12, <2>13
<1>6. CASE OpenIn2(in) \/ OpenIn1(in)
  <2>1. state \in {"open_in_2", "open_in_1"} /\ ClearTo(3) /\ ~in.reset
    BY <1>6 DEF OpenIn2, OpenIn1, BusQuiet, Settled, ClosedStates
  <2>2. iob'.cmd # "READ"
    <3>1. CASE OpenIn2(in)
      BY <1>2, <3>1 DEF OpenIn2, Pins
    <3>2. CASE OpenIn1(in)
      BY <1>1, <1>2, <3>2 DEF OpenIn1, PinsFit, Pins
    <3> QED  BY <1>6, <3>1, <3>2
  <2>3. ClearTo(3)'  BY <1>1, <2>1, <2>2, StaysClear
  <2>4. \/ state' = "open_in_1"
        \/ state' = "write_1"
        \/ state' = "read_1" /\ dq_hiz'
    <3>1. CASE OpenIn2(in)
      BY <2>1, <3>1 DEF OpenIn2, Keep, Goto
    <3>2. CASE OpenIn1(in)
      <4>1. state' = (IF save.wr THEN "write_1" ELSE "read_1") /\ dq_hiz' = dq_hiz
        BY <2>1, <3>2 DEF OpenIn1, Reopen, Goto
      <4>2. dq_hiz = ~save.wr  BY <3>2 DEF OpenIn1, BusTurned
      <4> QED  BY <4>1, <4>2
    <3> QED  BY <1>6, <3>1, <3>2
  <2> QED  BY <2>3, <2>4 DEF BusQuiet, ReadStates
<1>7. CASE Read1(in) \/ BurstRead(in) \/ BurstTerminate(in) \/ ReadTail(in)
  <2>1. state \in ReadStates /\ dq_hiz' = dq_hiz /\ ~in.reset
    BY <1>7, StateTable DEF Read1, BurstRead, BurstTerminate, ReadTail, ReadStates, Settled,
       ClosedStates
  <2>2. dq_hiz'  BY <2>1 DEF BusQuiet
  <2>3. state' \in ReadStates \cup {"precharge"}
    <3>1. CASE ReadTail(in)
      BY <2>1, <3>1, StateTable DEF ReadTail, WriteOverRead, Keep, Reopen, Goto, ReadStates
    <3>2. CASE ~ReadTail(in)
      BY <1>7, <2>1, <3>2 DEF Read1, BurstRead, BurstTerminate, Keep, Reopen, Goto, ReadStates
    <3> QED  BY <3>1, <3>2
  <2> QED  BY <2>2, <2>3 DEF BusQuiet, ReadStates
<1>8. CASE Write1(in) \/ Write2(in) \/ Write3(in)
  <2>1. state \in WriteStates /\ dq_hiz' = dq_hiz /\ ~in.reset
    BY <1>8 DEF Write1, Write2, Write3, WriteStates, Settled, ClosedStates
  <2>2. ClearTo(3)  BY <2>1 DEF BusQuiet, BusTurned
  <2>3. iob'.cmd # "READ"
    <3>1. iob.cmd # "READ"  BY <2>2 DEF ClearTo, ReadsNow
    <3>2. CASE Write1(in)
      BY <3>2 DEF Write1
    <3>3. CASE Write2(in)
      BY <1>2, <3>1, <3>3 DEF Write2, Pins
    <3>4. CASE Write3(in)
      BY <1>2, <3>1, <3>4 DEF Write3, Pins
    <3> QED  BY <1>8, <3>2, <3>3, <3>4
  <2>4. ClearTo(3)'  BY <1>1, <2>2, <2>3, StaysClear
  <2>5. state' \in WriteStates \cup {"precharge"}
    BY <1>8, <2>1 DEF Write1, Write2, Write3, Keep, Reopen, Goto, WriteStates
  <2> QED  BY <2>4, <2>5 DEF BusQuiet, ReadStates, WriteStates
<1>9. CASE Precharge(in)
  <2>1. state = "precharge" /\ ~in.reset  BY <1>9 DEF Precharge, Settled, ClosedStates
  <2>2. state' = "idle_in_4" /\ dq_hiz' /\ iob'.cmd = "PRECHARGE"
    BY <1>2, <1>9, <2>1 DEF Precharge, Keep, Goto, Pins
  <2> QED  BY <2>2 DEF BusQuiet, ReadStates
<1> QED  BY <1>1, <1>4, <1>5, <1>6, <1>7, <1>8, <1>9 DEF ControllerState

-----------------------------------------------------------------------------
(* The arbiter: from where it comes to each of its states.                 *)

FetchStates == {"READY", "READY2", "BURST_ON", "FETCHING_ROW"}

LEMMA ArrivesFetching ==
  ASSUME NEW p, ArbiterStep(p)
  PROVE  /\ arb' = "READY" => GrantFetch \/ FetchingRow
         /\ arb' = "READY2" => Ready \/ FetchNext \/ FetchDone
         /\ arb' = "BURST_ON" => FetchNext \/ BurstOn
         /\ arb' = "FETCHING_ROW" => BurstOn \/ FetchingRow
         /\ arb' = "BURST_OFF" => FetchDone
<1>1. CASE Ready \/ FetchNext \/ FetchDone \/ BurstOn \/ FetchingRow \/ BurstOff
  BY <1>1 DEF At, To, Ready, FetchNext, FetchDone, BurstOn, FetchingRow, BurstOff
<1>2. CASE NobodyServed \/ GrantFetch \/ GrantWrite \/ GrantRead \/ FillPixel \/ FillRow \/ FillEnd
           \/ GrantCopyRead \/ GrantCopyWrite \/ CaptureWord \/ CaptureEnd \/ GrantRefresh
  BY <1>2 DEF At, To, Grants, FillGranted, NobodyServed, GrantFetch, GrantWrite, GrantRead, FillPixel,
     FillRow, FillEnd, GrantCopyRead, GrantCopyWrite, CaptureWord, CaptureEnd, GrantRefresh
<1>3. CASE RefreshPre \/ Refresh \/ RefreshEnd \/ WriteEnd1 \/ WriteEnd \/ CopyRead1 \/ CopyRead
           \/ CopyWrite \/ CopyWriteWaits
  BY <1>3 DEF At, To, RefreshPre, Refresh, RefreshEnd, WriteEnd1, WriteEnd, CopyRead1,
     CopyRead, CopyWrite, CopyWriteWaits
<1>4. CASE ReadingZorroPre \/ ReadingZorro \/ WritingZorroPre \/ WritingZorro
  BY <1>4 DEF At, To, ReadingZorroPre, ReadingZorro, WritingZorroPre, WritingZorro
<1> QED  BY <1>1, <1>2, <1>3, <1>4 DEF ArbiterStep

LEMMA ArrivesServing ==
  ASSUME NEW p, ArbiterStep(p)
  PROVE  /\ arb' = "REFRESH_PRE" => GrantRefresh \/ RefreshPre
         /\ arb' = "REFRESH" => RefreshPre
         /\ arb' = "REFRESH_END" => Refresh \/ RefreshEnd
         /\ arb' = "WRITE_END1" => WriteEnd1 \/ CopyRead \/ CopyWrite
         /\ arb' = "WRITE_END" => WriteEnd1 \/ WriteEnd
         /\ arb' = "BLIT_COPY_READ1" => GrantCopyRead \/ CopyRead1
         /\ arb' = "BLIT_COPY_READ" => CopyRead1 \/ CopyRead
         /\ arb' = "BLIT_COPY_WRITE" => GrantCopyWrite \/ CopyWrite \/ CopyWriteWaits
         /\ arb' = "READING_ZORRO_PRE" => GrantRead \/ ReadingZorroPre
         /\ arb' = "READING_ZORRO" => ReadingZorroPre \/ ReadingZorro
         /\ arb' = "WRITING_ZORRO_PRE" => GrantWrite \/ WritingZorroPre
         /\ arb' = "WRITING_ZORRO" => WritingZorroPre \/ WritingZorro
<1>1. CASE Ready \/ FetchNext \/ FetchDone \/ BurstOn \/ FetchingRow \/ BurstOff
  BY <1>1 DEF At, To, Ready, FetchNext, FetchDone, BurstOn, FetchingRow, BurstOff
<1>2. CASE NobodyServed \/ GrantFetch \/ GrantWrite \/ GrantRead \/ FillPixel \/ FillRow \/ FillEnd
           \/ GrantCopyRead \/ GrantCopyWrite \/ CaptureWord \/ CaptureEnd \/ GrantRefresh
  BY <1>2 DEF At, To, Grants, FillGranted, NobodyServed, GrantFetch, GrantWrite, GrantRead, FillPixel,
     FillRow, FillEnd, GrantCopyRead, GrantCopyWrite, CaptureWord, CaptureEnd, GrantRefresh
<1>3. CASE RefreshPre \/ Refresh \/ RefreshEnd \/ WriteEnd1 \/ WriteEnd \/ CopyRead1 \/ CopyRead
           \/ CopyWrite \/ CopyWriteWaits
  BY <1>3 DEF At, To, RefreshPre, Refresh, RefreshEnd, WriteEnd1, WriteEnd, CopyRead1,
     CopyRead, CopyWrite, CopyWriteWaits
<1>4. CASE ReadingZorroPre \/ ReadingZorro \/ WritingZorroPre \/ WritingZorro
  BY <1>4 DEF At, To, ReadingZorroPre, ReadingZorro, WritingZorroPre, WritingZorro
<1> QED  BY <1>1, <1>2, <1>3, <1>4 DEF ArbiterStep

LEMMA ArrivesFree ==
  ASSUME NEW p, ArbiterStep(p), arb' = "ROW_FETCHED"
  PROVE  \/ arb = "ROW_FETCHED" /\ \/ NobodyServed \/ FillPixel \/ FillRow \/ FillEnd
                                   \/ GrantCopyRead \/ CaptureWord \/ CaptureEnd \/ GrantRefresh
         \/ BurstOff \/ RefreshEnd \/ WriteEnd \/ ReadingZorro \/ WritingZorro
<1>1. CASE Ready \/ FetchNext \/ FetchDone \/ BurstOn \/ FetchingRow
  BY <1>1 DEF At, To, Ready, FetchNext, FetchDone, BurstOn, FetchingRow
<1>2. CASE NobodyServed \/ GrantFetch \/ GrantWrite \/ GrantRead \/ FillPixel \/ FillRow \/ FillEnd
           \/ GrantCopyRead \/ GrantCopyWrite \/ CaptureWord \/ CaptureEnd \/ GrantRefresh
  BY <1>2 DEF At, To, Grants, FillGranted, NobodyServed, GrantFetch, GrantWrite, GrantRead, FillPixel,
     FillRow, FillEnd, GrantCopyRead, GrantCopyWrite, CaptureWord, CaptureEnd, GrantRefresh
<1>3. CASE RefreshPre \/ Refresh \/ WriteEnd1 \/ CopyRead1 \/ CopyRead \/ CopyWrite
           \/ CopyWriteWaits
  BY <1>3 DEF At, To, RefreshPre, Refresh, WriteEnd1, CopyRead1, CopyRead, CopyWrite, CopyWriteWaits
<1>4. CASE ReadingZorroPre \/ WritingZorroPre
  BY <1>4 DEF At, To, ReadingZorroPre, WritingZorroPre
<1> QED  BY <1>1, <1>2, <1>3, <1>4 DEF ArbiterStep

\* The counters of the arbiter's jobs are back at zero outside of them.
JobsAtZero ==
  /\ arb \notin {"WRITE_END1", "BLIT_COPY_READ", "BLIT_COPY_WRITE"} => copy.counter = 0
  /\ arb # "REFRESH_PRE" => refresh.warm = 0
  /\ arb # "REFRESH_END" => refresh.cool = 0

\* The burst length is the fetch's only while it fetches.
BurstRules ==
  /\ arb \notin FetchStates => ram_burst_size # 7
  /\ arb \in {"BURST_ON", "FETCHING_ROW"} => ram_burst_size = 7 /\ ~row_fetched

LEMMA BurstRulesStep ==
  ASSUME arb \in ArbiterStates, BurstRules, NEW p, ArbiterStep(p)
  PROVE  BurstRules'
<1>0. CASE FetchingRow
  <2>1. ram_burst_size' = ram_burst_size /\ arb = "FETCHING_ROW" /\ arb' \in {"READY", arb}
    BY <1>0 DEF FetchingRow, At, SetPort, portVars
  <2>2. row_fetched' => row_fetched \/ arb' = "READY"
    <3>1. CASE data_out_ready
      BY <1>0, <3>1 DEF FetchingRow
    <3>2. CASE ~data_out_ready
      BY <1>0, <3>2 DEF FetchingRow
    <3> QED  BY <3>1, <3>2
  <2> QED  BY <2>1, <2>2 DEF BurstRules, FetchStates
<1>1. CASE Ready \/ FetchNext \/ FetchDone \/ BurstOn \/ BurstOff
  <2>1. Ready \/ FetchDone => BurstRules'
    BY DEF BurstRules, FetchStates, At, To, Ready, FetchDone, EnableBurst, Enable, SetPort
  <2>2. FetchNext => BurstRules'
    BY DEF BurstRules, FetchStates, At, FetchNext, SetPort
  <2>3. BurstOn => BurstRules'
    BY DEF BurstRules, FetchStates, At, To, BurstOn, ReadAt, SetPort, portVars, fetchVars
  <2>4. BurstOff => BurstRules'
    BY DEF BurstRules, FetchStates, At, To, BurstOff, Enable, SetPort
  <2> QED  BY <1>1, <2>1, <2>2, <2>3, <2>4
<1>2. CASE NobodyServed \/ GrantFetch \/ GrantWrite \/ GrantRead \/ FillPixel \/ FillRow \/ FillEnd
           \/ GrantCopyRead \/ GrantCopyWrite \/ CaptureWord \/ CaptureEnd \/ GrantRefresh
  BY <1>2 DEF BurstRules, FetchStates, At, To, Grants, FillGranted, NobodyServed, GrantFetch,
     GrantWrite, GrantRead, FillPixel, FillRow, FillEnd, GrantCopyRead, GrantCopyWrite, CaptureWord,
     CaptureEnd, GrantRefresh, Enable, EnableBurst, WriteAt, SetPort, portVars
<1>3. CASE RefreshPre \/ Refresh \/ RefreshEnd \/ WriteEnd1 \/ WriteEnd \/ CopyRead1 \/ CopyRead
           \/ CopyWrite \/ CopyWriteWaits
  BY <1>3 DEF BurstRules, FetchStates, At, To, RefreshPre, Refresh, RefreshEnd, WriteEnd1, WriteEnd,
     CopyRead1, CopyRead, CopyWrite, CopyWriteWaits, Enable, ReadAt, WriteAt, SetPort, portVars
<1>4. CASE ReadingZorroPre \/ ReadingZorro \/ WritingZorroPre \/ WritingZorro
  BY <1>4 DEF BurstRules, FetchStates, At, To, ReadingZorroPre, ReadingZorro, WritingZorroPre,
     WritingZorro, Enable, ReadAt, SetPort
<1> QED  BY <1>0, <1>1, <1>2, <1>3, <1>4 DEF ArbiterStep

LEMMA JobsAtZeroStep ==
  ASSUME CardTyped, CountersTyped, JobsAtZero, NEW p, ArbiterStep(p)
  PROVE  JobsAtZero'
<1>0. refresh \in RefreshRecords /\ copy \in CopyRecords  BY DEF CardTyped, JobsTyped
<1>1. CASE Ready \/ FetchNext \/ FetchDone \/ BurstOn \/ FetchingRow \/ BurstOff
  BY <1>1 DEF JobsAtZero, At, To, Ready, FetchNext, FetchDone, BurstOn, FetchingRow, BurstOff
<1>2. CASE NobodyServed \/ GrantFetch \/ GrantWrite \/ GrantRead \/ FillPixel \/ FillRow \/ FillEnd
           \/ GrantCopyRead \/ CaptureWord \/ CaptureEnd
  BY <1>2 DEF JobsAtZero, At, To, Grants, FillGranted, NobodyServed, GrantFetch, GrantWrite,
     GrantRead, FillPixel, FillRow, FillEnd, GrantCopyRead, CaptureWord, CaptureEnd
<1>3. CASE GrantRefresh
  <2>1. refresh' \in {[refresh EXCEPT !.counter = refresh.counter + 1], [refresh EXCEPT !.counter = 0]}
    BY <1>3 DEF GrantRefresh
  <2>2. refresh'.warm = refresh.warm /\ refresh'.cool = refresh.cool
    BY <1>0, <2>1 DEF RefreshRecords
  <2> QED  BY <1>3, <2>2 DEF GrantRefresh, JobsAtZero, Grants, At, To
<1>4. CASE RefreshPre
  <2>1. refresh' \in {[refresh EXCEPT !.warm = 0, !.addr = Addr(refresh.addr + NCols)],
                      [refresh EXCEPT !.warm = refresh.warm + 1]}
    BY <1>4 DEF RefreshPre
  <2>2. refresh'.cool = refresh.cool  BY <1>0, <2>1 DEF RefreshRecords
  <2>3. arb' # arb => refresh' = [refresh EXCEPT !.warm = 0, !.addr = Addr(refresh.addr + NCols)]
    BY <1>4 DEF RefreshPre, At, To
  <2>4. arb' # arb => refresh'.warm = 0  BY <1>0, <2>3 DEF RefreshRecords
  <2> QED  BY <1>4, <2>2, <2>4 DEF RefreshPre, JobsAtZero, At, To
<1>5. CASE RefreshEnd
  <2>1. refresh' \in {[refresh EXCEPT !.cool = 0], [refresh EXCEPT !.cool = refresh.cool + 1]}
    BY <1>5 DEF RefreshEnd
  <2>2. refresh'.warm = refresh.warm  BY <1>0, <2>1 DEF RefreshRecords
  <2>3. arb' # arb => refresh' = [refresh EXCEPT !.cool = 0]
    BY <1>5 DEF RefreshEnd, At, To
  <2>4. arb' # arb => refresh'.cool = 0  BY <1>0, <2>3 DEF RefreshRecords
  <2> QED  BY <1>5, <2>2, <2>4 DEF RefreshEnd, JobsAtZero, At, To
<1>6. CASE GrantCopyWrite \/ WriteEnd1 \/ CopyRead1
  <2>1. GrantCopyWrite => copy'.counter = copy.counter  BY <1>0 DEF GrantCopyWrite, CopyRecords
  <2>2. WriteEnd1 => copy'.counter = 0  BY <1>0 DEF WriteEnd1, CopyRecords
  <2>3. CopyRead1 => copy'.counter = copy.counter  BY <1>0 DEF CopyRead1, CopyRecords
  <2> QED
    BY <1>6, <2>1, <2>2, <2>3 DEF JobsAtZero, GrantCopyWrite, WriteEnd1, CopyRead1, Grants, At, To
<1>7. CASE Refresh \/ WriteEnd \/ CopyRead \/ CopyWrite \/ CopyWriteWaits \/ ReadingZorroPre
           \/ ReadingZorro \/ WritingZorroPre \/ WritingZorro
  BY <1>7 DEF JobsAtZero, At, To, Refresh, WriteEnd, CopyRead, CopyWrite, CopyWriteWaits,
     ReadingZorroPre, ReadingZorro, WritingZorroPre, WritingZorro
<1> QED  BY <1>1, <1>2, <1>3, <1>4, <1>5, <1>6, <1>7 DEF ArbiterStep

-----------------------------------------------------------------------------
(* Counting the reads.  A read that was accepted is held, put on the pins  *)
(* and then has a place in the delay line until its answer; outside the    *)
(* full-page burst none is made or lost on the way.                        *)

One(b) == IF b THEN 1 ELSE 0
HoldsRead == got_transaction /\ ~save.wr
InDelayLine ==
  One(data_out_ready) + One(0 \in data_ready_delay) + One(1 \in data_ready_delay)
  + One(2 \in data_ready_delay) + One(3 \in data_ready_delay)
Outstanding == One(HoldsRead) + One(state = "read_1") + InDelayLine

\* The controller is not about to start a full-page burst, nor in one.
SingleAccess == state # "burst_read" /\ ~(state = "read_1" /\ burst_old = 7)

LEMMA ReadStarts ==
  ASSUME SafeInv, StartupQuiet, NEW in \in ClientInputs, ~in.reset, SDRAMClock(in), SingleAccess
  PROVE  /\ state' = "read_1" => HoldsRead /\ ~got_transaction'
         /\ HoldsRead /\ ~got_transaction' => state' = "read_1"
<1>1. ControllerState(in) /\ TypeInv  BY DEF SDRAMClock, SafeInv
<1>2. burst_old \in Modes  BY <1>1 DEF TypeInv, TypeOK, ControllerTypeOK
<1>3. state = "open_in_1" => got_transaction  BY DEF SafeInv, Handshake
<1>4. CASE Startup(in) \/ LoadMode(in) \/ Activate(in) \/ IdleNop(in) \/ OpenIn2(in)
  BY <1>4 DEF StartupQuiet, HoldsRead, Startup, LoadMode, Activate, IdleNop, OpenIn2, Keep, Reopen,
     Goto
<1>5. CASE OpenIn1(in)
  BY <1>3, <1>5 DEF OpenIn1, Reopen, Goto, HoldsRead
<1>6. CASE IdleWait(in)
  BY <1>6, StateTable DEF IdleWait, Keep, Goto, HoldsRead
<1>7. CASE ReadTail(in)
  BY <1>7, StateTable DEF ReadTail, Keep, Reopen, Goto, Follows, HoldsRead
<1>8. CASE Read1(in) \/ BurstRead(in) \/ BurstTerminate(in)
  BY <1>2, <1>8 DEF Read1, BurstRead, BurstTerminate, Keep, Goto, HoldsRead, SingleAccess, Modes
<1>9. CASE Write1(in) \/ Write2(in) \/ Write3(in) \/ Precharge(in)
  BY <1>9 DEF Write1, Write2, Write3, Precharge, Keep, Reopen, Goto, Follows, HoldsRead
<1> QED  BY <1>1, <1>4, <1>5, <1>6, <1>7, <1>8, <1>9 DEF ControllerState

LEMMA OutstandingStep ==
  ASSUME SafeInv, StartupQuiet, NEW in \in ClientInputs, ~in.reset, SDRAMClock(in), SingleAccess
  PROVE  Outstanding' = Outstanding + One(Accepts(in) /\ ~in.wr) - One(data_out_ready)
<1>1. ControllerState(in) /\ TypeInv  BY DEF SDRAMClock, SafeInv
<1>2. state \in States /\ save.wr \in BOOLEAN /\ in.wr \in BOOLEAN
  BY <1>1 DEF TypeInv, TypeOK, ControllerTypeOK, Transactions, ClientInputs
<1>3. InDelayLine' = InDelayLine + One(state = "read_1") - One(data_out_ready)
  <2>1. Read1(in) \/ BurstRead(in) <=> state = "read_1"
    BY <1>1 DEF SingleAccess, ControllerState, Startup, IdleWait, LoadMode, Activate, IdleNop,
       OpenIn2, OpenIn1, Read1, BurstRead, BurstTerminate, ReadTail, Write1, Write2, Write3,
       Precharge, AfterWait, AfterRead
  <2>2. /\ data_out_ready' <=> 0 \in data_ready_delay
        /\ 0 \in data_ready_delay' <=> 1 \in data_ready_delay
        /\ 1 \in data_ready_delay' <=> 2 \in data_ready_delay
        /\ 2 \in data_ready_delay' <=> 3 \in data_ready_delay
        /\ 3 \in data_ready_delay' <=> state = "read_1"
    BY <1>1, <2>1, DelayStep
  <2>3. /\ One(data_out_ready)' = One(0 \in data_ready_delay)
        /\ One(0 \in data_ready_delay)' = One(1 \in data_ready_delay)
        /\ One(1 \in data_ready_delay)' = One(2 \in data_ready_delay)
        /\ One(2 \in data_ready_delay)' = One(3 \in data_ready_delay)
        /\ One(3 \in data_ready_delay)' = One(state = "read_1")
    BY <2>2 DEF One
  <2>4. /\ One(data_out_ready) \in Int /\ One(0 \in data_ready_delay) \in Int
        /\ One(1 \in data_ready_delay) \in Int /\ One(2 \in data_ready_delay) \in Int
        /\ One(3 \in data_ready_delay) \in Int /\ One(state = "read_1") \in Int
    BY DEF One
  <2> QED  BY <2>3, <2>4 DEF InDelayLine
<1>4. One(HoldsRead') + One(state' = "read_1") = One(HoldsRead) + One(Accepts(in) /\ ~in.wr)
  <2>1. CASE Accepts(in)
    <3>1. ready_for_new /\ ~got_transaction /\ state # "startup"
      BY <2>1 DEF Accepts, SafeInv, Handshake, SingleAccess, StartupQuiet
    <3>2. save'.wr = in.wr /\ got_transaction'
      BY <2>1, <3>1, QueueStep DEF SingleAccess
    <3>3. ~HoldsRead /\ state' # "read_1"  BY <3>1, ReadStarts DEF HoldsRead
    <3> QED  BY <1>2, <2>1, <3>2, <3>3 DEF One, HoldsRead
  <2>2. CASE ~Accepts(in)
    <3>1. save' = save /\ (got_transaction' => got_transaction)  BY <2>2, QueueStep
    <3>2. HoldsRead' => HoldsRead /\ state' # "read_1"  BY <3>1, ReadStarts DEF HoldsRead
    <3>3. HoldsRead => HoldsRead' \/ state' = "read_1"  BY <3>1, ReadStarts DEF HoldsRead
    <3>4. state' = "read_1" => HoldsRead  BY ReadStarts
    <3> QED  BY <2>2, <3>2, <3>3, <3>4 DEF One
  <2> QED  BY <2>1, <2>2
<1>5. /\ InDelayLine \in Int /\ One(HoldsRead) \in Int /\ One(state = "read_1") \in Int
      /\ One(data_out_ready) \in Int /\ One(Accepts(in) /\ ~in.wr) \in Int
      /\ One(HoldsRead') \in Int /\ One(state' = "read_1") \in Int
  BY DEF One, InDelayLine
<1> QED  BY <1>3, <1>4, <1>5 DEF Outstanding

LEMMA NoneOutstanding ==
  ASSUME TypeInv, Handshake, ReadPlaces
  PROVE  /\ Outstanding \in Nat
         /\ NoReadsOut => Outstanding = 0
         /\ Outstanding = 0 /\ state # "burst_read" => NoReadsOut
<1>1. /\ data_ready_delay \in SUBSET (0 .. 3) /\ data_out_ready \in BOOLEAN
      /\ save.wr \in BOOLEAN /\ got_transaction \in BOOLEAN
  BY DEF TypeInv, TypeOK, ControllerTypeOK, Transactions
<1>2. Outstanding \in Nat  BY DEF Outstanding, InDelayLine, One
<1>3. NoReadsOut => Outstanding = 0
  BY DEF Outstanding, InDelayLine, One, NoReadsOut, HoldsRead, ReadStates
<1>4. ASSUME Outstanding = 0, state # "burst_read"  PROVE NoReadsOut
  <2>1. /\ ~HoldsRead /\ state # "read_1" /\ ~data_out_ready
        /\ 0 \notin data_ready_delay /\ 1 \notin data_ready_delay
        /\ 2 \notin data_ready_delay /\ 3 \notin data_ready_delay
    BY <1>4 DEF Outstanding, InDelayLine, One
  <2>2. \A i \in 0 .. 3 : i = 0 \/ i = 1 \/ i = 2 \/ i = 3  OBVIOUS
  <2>3. data_ready_delay = {}  BY <1>1, <2>1, <2>2
  <2>4. state \notin ReadStates  BY <1>4, <2>1 DEF ReadPlaces, ReadStates
  <2> QED  BY <2>1, <2>3, <2>4 DEF NoReadsOut, HoldsRead, Handshake
<1> QED  BY <1>2, <1>3, <1>4

-----------------------------------------------------------------------------
(* Who works the blitter.  The driver starts it when it is idle, so the    *)
(* write of blitter_enable never meets one of the arbiter's: a copy keeps  *)
(* its direction as long as the arbiter is at it.                          *)

BlitOwned ==
  /\ dtack => zorro = "Z3_ENDCYCLE"
  /\ zorro \in {"Z3_REGWRITE", "REGWRITE"} => bus.active
  /\ bus.active /\ bus.op.reg = "blitter_enable" /\ zorro # "Z3_ENDCYCLE" => blitter_enable = 0
  /\ arb \in {"BLIT_COPY_READ1", "BLIT_COPY_READ"} => blitter_enable = 2
  /\ arb = "BLIT_COPY_WRITE" => blitter_enable = 4

LEMMA EdgeFacts ==
  ASSUME CardInv, Clock
  PROVE  /\ SDRAMClock(Port(sdram_reset)) /\ Port(sdram_reset) \in ClientInputs
         /\ Port(sdram_reset).reset <=> sdram_reset
         /\ Accepts(Port(sdram_reset)) <=> ready_for_new /\ ram_enable
         /\ Port(sdram_reset).wr = ram_write
         /\ Port(sdram_reset).enable = ram_enable
         /\ Port(sdram_reset).burst = ram_burst_size
         /\ <<Port(sdram_reset).bank, Port(sdram_reset).row, Port(sdram_reset).col>> = CellAt(ram_addr)
<1>1. SDRAMClock(Port(sdram_reset))  BY DEF Clock
<1>2. Port(sdram_reset) \in ClientInputs  BY PortIsClientInput DEF CardInv
<1>3. /\ Port(sdram_reset).reset = sdram_reset /\ Port(sdram_reset).wr = ram_write
      /\ Port(sdram_reset).enable = ram_enable /\ Port(sdram_reset).burst = ram_burst_size
  BY DEF Port
<1>4. <<Port(sdram_reset).bank, Port(sdram_reset).row, Port(sdram_reset).col>> = CellAt(ram_addr)
  BY DEF Port, CellAt
<1>5. Accepts(Port(sdram_reset)) <=> ready_for_new /\ ram_enable  BY <1>3 DEF Accepts
<1> QED  BY <1>1, <1>2, <1>3, <1>4, <1>5

LEMMA BusKept ==
  ASSUME ~ResetAllowed, CardInv, RangeInv, BlitOwned, Clock
  PROVE  /\ dtack' => zorro' = "Z3_ENDCYCLE"
         /\ zorro' \in {"Z3_REGWRITE", "REGWRITE"} => bus'.active
<1>1. ~znrst /\ ~znrst' /\ ZorroStep /\ Host  BY PowerUpStep DEF CardInv, PowerUp, Clock
<1>2. /\ bus \in [active : BOOLEAN, op : HostRecords] /\ dtack \in BOOLEAN
  BY DEF CardInv, CardTyped, RequestsTyped, RangeInv, HostTyped
<1>3. bus.op.kind \in {"read", "write", "reg"}  BY <1>2 DEF HostRecords
<1>4. dtack' => zorro' = "Z3_ENDCYCLE"
  <2>1. CASE Z3Idle \/ EndCycle \/ WriteFinalize
    BY <1>2, <2>1 DEF Z3Idle, EndCycle, WriteFinalize, BlitOwned, ZAt, ZTo
  <2>2. CASE ~(Z3Idle \/ EndCycle \/ WriteFinalize)
    <3>1. UNCHANGED dtack /\ zorro # "Z3_ENDCYCLE"
      BY <1>1, <2>2 DEF ZorroStep, Forced, ZAt, Cold, EnterReset, InReset, Configuring, Configured,
         ConfiguredClear, EnterResetDvid, ResetDvid, ReadUpper, ReadLower, ReadDelay1, ReadDelay2,
         WritePre, WriteUpper, WriteLower, RegWrite
    <3> QED  BY <3>1 DEF BlitOwned
  <2> QED  BY <2>1, <2>2
<1>5. zorro' \in {"Z3_REGWRITE", "REGWRITE"} => bus.active /\ ~dtack
  <2>1. CASE Z3Idle
    BY <1>3, <2>1 DEF Z3Idle, FirstState, BlitOwned, ZAt, ZTo
  <2>2. CASE RegWrite
    BY <2>2 DEF RegWrite, BlitOwned, ZAt
  <2>3. CASE ~Z3Idle /\ ~RegWrite
    BY <1>1, <2>3 DEF ZorroStep, Forced, ZAt, ZTo, Cold, EnterReset, InReset, Configuring,
       Configured, ConfiguredClear, EnterResetDvid, ResetDvid, ReadUpper, ReadLower, ReadDelay1,
       ReadDelay2, WritePre, WriteUpper, WriteLower, WriteFinalize, EndCycle
  <2> QED  BY <2>1, <2>2, <2>3
<1>6. bus.active /\ ~dtack => bus' = bus  BY <1>1 DEF Host
<1> QED  BY <1>4, <1>5, <1>6

LEMMA BlitterKept ==
  ASSUME CardInv, RangeInv, BlitOwned, Clock
  PROVE  /\ blitter_enable # 0 => ~StartsBlitter
         /\ arb \notin {"ROW_FETCHED", "BLIT_COPY_READ", "BLIT_COPY_WRITE", "READY2"}
              /\ ~StartsBlitter => blitter_enable' = blitter_enable
         /\ blitter_enable = 0 /\ ~StartsBlitter => blitter_enable' = 0
         /\ arb = "ROW_FETCHED" /\ ~StartsBlitter /\ (blitter_enable = 1 => ~FillEnd) =>
              blitter_enable' = blitter_enable
<1>1. Blitter  BY DEF Clock
<1>2. blitter_enable # 0 => ~StartsBlitter
  BY DEF StartsBlitter, ZAt, BlitOwned
<1>3. ZAt("RESET") => arb = "READY2"  BY DEF ZAt, CardInv, PowerUp
<1>4. CopyBufferFilled => arb = "BLIT_COPY_READ"  BY DEF CopyBufferFilled, At
<1>5. FillGranted => arb = "ROW_FETCHED" /\ blitter_enable = 1  BY DEF FillGranted, Grants, At
<1>6. ASSUME arb \notin {"ROW_FETCHED", "BLIT_COPY_READ", "BLIT_COPY_WRITE", "READY2"}, ~StartsBlitter
      PROVE blitter_enable' = blitter_enable
  BY <1>1, <1>3, <1>4, <1>5, <1>6 DEF Blitter, BlitterNext, At
<1>7. ASSUME blitter_enable = 0, ~StartsBlitter  PROVE blitter_enable' = 0
  <2>1. arb \notin {"BLIT_COPY_READ", "BLIT_COPY_WRITE"}  BY <1>7 DEF BlitOwned
  <2> QED  BY <1>1, <1>4, <1>5, <1>7, <2>1 DEF Blitter, BlitterNext, At
<1>8. ASSUME arb = "ROW_FETCHED", ~StartsBlitter, blitter_enable = 1 => ~FillEnd
      PROVE blitter_enable' = blitter_enable
  <2>1. PICK p \in {BlitterStarted, blit} : ArbiterStep(p)  BY DEF Clock
  <2>2. ASSUME FillGranted, ~FillLineLeft, ~FillRowsLeft  PROVE FillEnd
    <3>1. arb = "ROW_FETCHED" /\ cmd_ready /\ Claimant = "blitter" /\ blitter_enable = 1
      BY <2>2 DEF FillGranted, Grants, At
    <3>2. ~(Ready \/ FetchNext \/ FetchDone \/ BurstOn \/ FetchingRow \/ BurstOff \/ RefreshPre
            \/ Refresh \/ RefreshEnd \/ WriteEnd1 \/ WriteEnd \/ CopyRead1 \/ CopyRead \/ CopyWrite
            \/ CopyWriteWaits \/ ReadingZorroPre \/ ReadingZorro \/ WritingZorroPre \/ WritingZorro)
      BY <3>1 DEF At, Ready, FetchNext, FetchDone, BurstOn, FetchingRow, BurstOff, RefreshPre, Refresh,
         RefreshEnd, WriteEnd1, WriteEnd, CopyRead1, CopyRead, CopyWrite, CopyWriteWaits,
         ReadingZorroPre, ReadingZorro, WritingZorroPre, WritingZorro
    <3>3. ~(NobodyServed \/ GrantFetch \/ GrantWrite \/ GrantRead \/ CaptureWord \/ CaptureEnd
            \/ GrantRefresh)
      BY <3>1 DEF Grants, NobodyServed, GrantFetch, GrantWrite, GrantRead, CaptureWord, CaptureEnd,
         GrantRefresh
    <3>4. ~(FillPixel \/ FillRow \/ GrantCopyRead \/ GrantCopyWrite)
      <4>1. ~FillPixel /\ ~FillRow  BY <2>2 DEF FillPixel, FillRow
      <4>2. ~GrantCopyRead  BY <3>1 DEF GrantCopyRead
      <4>3. ~GrantCopyWrite  BY <3>1 DEF GrantCopyWrite
      <4> QED  BY <4>1, <4>2, <4>3
    <3> QED  BY <2>1, <3>2, <3>3, <3>4 DEF ArbiterStep
  <2> QED  BY <1>1, <1>3, <1>4, <1>5, <1>8, <2>2 DEF Blitter, BlitterNext, At
<1> QED  BY <1>2, <1>6, <1>7, <1>8

LEMMA BlitOwnedStep ==
  ASSUME ~ResetAllowed, CardInv, RangeInv, BlitOwned, Clock
  PROVE  BlitOwned'
<1>1. ~znrst /\ ~znrst' /\ ZorroStep /\ Host /\ Blitter
  BY PowerUpStep DEF CardInv, PowerUp, Clock
<1>2. PICK p \in {BlitterStarted, blit} : ArbiterStep(p)  BY DEF Clock
<1>3. bus \in [active : BOOLEAN, op : HostRecords]
  BY DEF CardInv, CardTyped, RequestsTyped
<1>4. (zorro = "REGWRITE" \/ (zorro = "Z3_ENDCYCLE" /\ bus.active)) => zorro' = "Z3_ENDCYCLE"
  BY <1>1 DEF ZorroStep, Forced, ZAt, ZTo, Cold, EnterReset, InReset, Configuring, Configured,
     ConfiguredClear, EnterResetDvid, ResetDvid, Z3Idle, ReadUpper, ReadLower, ReadDelay1,
     ReadDelay2, WritePre, WriteUpper, WriteLower, WriteFinalize, EndCycle, RegWrite
<1>5. ASSUME bus'.active, bus'.op.reg = "blitter_enable", zorro' # "Z3_ENDCYCLE"
      PROVE blitter_enable' = 0
  <2>1. ~StartsBlitter  BY <1>4, <1>5 DEF StartsBlitter, ZAt
  <2>2. CASE bus' = bus
    <3>1. zorro # "Z3_ENDCYCLE"  BY <1>4, <1>5, <2>2
    <3> QED  BY <1>5, <2>1, <2>2, <3>1, BlitterKept DEF BlitOwned
  <2>3. CASE \E o \in HostOps : Possible(o) /\ bus' = [active |-> TRUE, op |-> o]
    BY <1>5, <2>1, <2>3, BlitterKept DEF Possible
  <2>4. CASE bus' = [bus EXCEPT !.active = FALSE]
    BY <1>3, <1>5, <2>4
  <2> QED  BY <1>1, <2>2, <2>3, <2>4 DEF Host
<1>6. ASSUME arb' \in {"BLIT_COPY_READ1", "BLIT_COPY_READ"}  PROVE blitter_enable' = 2
  <2>1. GrantCopyRead \/ CopyRead1 \/ CopyRead  BY <1>2, <1>6, ArrivesServing
  <2>2. blitter_enable = 2  BY <2>1 DEF GrantCopyRead, CopyRead1, CopyRead, At, BlitOwned
  <2>3. CASE GrantCopyRead \/ CopyRead1
    <3>1. arb \in {"ROW_FETCHED", "BLIT_COPY_READ1"}
      BY <2>3 DEF GrantCopyRead, CopyRead1, Grants, At
    <3>2. ~StartsBlitter  BY <2>2, BlitterKept
    <3> QED  BY <2>2, <3>1, <3>2, BlitterKept
  <2>4. CASE CopyRead
    <3>1. arb = "BLIT_COPY_READ" /\ ~CopyBufferFilled
      BY <1>6, <2>4 DEF CopyRead, At, CopyBufferFilled
    <3>2. ~StartsBlitter /\ ~ZAt("RESET") /\ ~FillGranted
      BY <2>2, <3>1, BlitterKept DEF CardInv, PowerUp, ZAt, FillGranted, Grants, At
    <3> QED  BY <1>1, <2>2, <3>1, <3>2 DEF Blitter, BlitterNext, At
  <2> QED  BY <2>1, <2>3, <2>4
<1>7. ASSUME arb' = "BLIT_COPY_WRITE"  PROVE blitter_enable' = 4
  <2>1. GrantCopyWrite \/ CopyWrite \/ CopyWriteWaits  BY <1>2, <1>7, ArrivesServing
  <2>2. blitter_enable = 4
    BY <2>1 DEF GrantCopyWrite, CopyWrite, CopyWriteWaits, At, BlitOwned
  <2>3. CASE GrantCopyWrite
    BY <2>2, <2>3, BlitterKept DEF GrantCopyWrite, Grants, At
  <2>4. CASE CopyWrite \/ CopyWriteWaits
    <3>1. arb = "BLIT_COPY_WRITE" /\ (cmd_ready => ~CopyBufferEmpty /\ ~copy.write_done)
      BY <1>7, <2>4 DEF CopyWrite, CopyWriteWaits, At
    <3>2. ~StartsBlitter /\ ~ZAt("RESET") /\ ~FillGranted /\ ~CopyBufferFilled
      BY <2>2, <3>1, BlitterKept DEF CardInv, PowerUp, ZAt, FillGranted, Grants, At, CopyBufferFilled
    <3> QED  BY <1>1, <2>2, <3>1, <3>2 DEF Blitter, BlitterNext, At
  <2> QED  BY <2>1, <2>3, <2>4
<1> QED  BY <1>5, <1>6, <1>7, BusKept DEF BlitOwned

-----------------------------------------------------------------------------
(* What is on the port and what is under way behind it, by the state of    *)
(* the arbiter.                                                            *)

\* The words a copy has asked for are in its buffer, on their way, or offered.
CopyCount ==
  arb = "BLIT_COPY_READ" =>
    /\ One(ram_enable) + Outstanding = copy.issued - copy.counter
    /\ copy.issued > 0 /\ ~copy.reads_done /\ copy.issued < BLITTER_COPY_SIZE => ram_enable

WriterStates == {"ROW_FETCHED", "WRITING_ZORRO_PRE", "WRITING_ZORRO", "WRITE_END1", "WRITE_END",
                 "BLIT_COPY_WRITE"}

EnableRules ==
  /\ arb \in {"READING_ZORRO_PRE", "READY2", "BURST_ON", "BURST_OFF", "REFRESH_PRE", "REFRESH_END",
              "BLIT_COPY_READ1"} => ~ram_enable
  /\ arb \in WriterStates => (ram_enable => ram_write)
  /\ arb \in {"BLIT_COPY_READ", "READING_ZORRO", "REFRESH", "FETCHING_ROW"} => ~ram_write
  /\ arb = "BLIT_COPY_WRITE" /\ copy.counter > 0 => ram_write

\* A fill and a capture leave cmd_enable up between two grants; whoever of the
\* two did is still there to claim the port.
OffersClaimed ==
  arb = "ROW_FETCHED" /\ ram_enable => blitter_enable = 1 \/ (videocap_mode /\ ~cap.line_saved)

LEMMA CopyFinishes ==
  ASSUME CardInv, ReadPlaces, CopyCount, CopyBufferFilled
  PROVE  ~ram_enable /\ Outstanding = 0 /\ ~CopyIssues
<1>1. copy.issued \in Nat /\ copy.counter \in Nat
  BY DEF CardInv, CardTyped, JobsTyped, CopyRecords
<1>2. Outstanding \in Nat  BY NoneOutstanding DEF CardInv, SafeInv
<1>3. arb = "BLIT_COPY_READ" /\ copy.issued > 0 /\ copy.counter >= copy.issued
  BY DEF CopyBufferFilled, At
<1>4. One(ram_enable) + Outstanding <= 0  BY <1>1, <1>3 DEF CopyCount
<1>5. One(ram_enable) \in {0, 1} /\ (ram_enable => One(ram_enable) = 1)  BY DEF One
<1>6. ~ram_enable /\ Outstanding = 0  BY <1>2, <1>4, <1>5
<1> QED  BY <1>3, <1>6 DEF CopyCount, CopyIssues

\* Nobody but a fill or a capture can be offering when the port is granted.
LEMMA RefreshFindsNoOffer ==
  ASSUME RangeInv, OffersClaimed, Grants("refresh")
  PROVE  ~ram_enable
<1>1. arb = "ROW_FETCHED" /\ Claimant = "refresh"  BY DEF Grants, At
<1>2. blitter_enable \in {0, 1, 2, 4}  BY DEF RangeInv, HostTyped
<1>3. blitter_enable \notin {1, 2, 4} /\ ~(~cap.line_saved /\ videocap_mode /\ blitter_enable = 0)
  BY <1>1 DEF Claimant
<1> QED  BY <1>1, <1>2, <1>3 DEF OffersClaimed

LEMMA CopyWriteEnables ==
  ASSUME CardInv, CountersTyped, EnableRules, BLITTER_COPY_SIZE > 0, CopyWrite
  PROVE  ram_write'
<1>1. copy.counter \in Nat /\ BLITTER_COPY_SIZE \in Nat
  BY SizesAssumption DEF CardInv, CardTyped, JobsTyped, CopyRecords
<1>2. CASE CopyBufferEmpty
  <2>1. ram_write  BY <1>1, <1>2 DEF CopyBufferEmpty, CopyWrite, At, EnableRules
  <2> QED  BY <1>2, <2>1 DEF CopyWrite, Enable, SetPort
<1>3. CASE ~CopyBufferEmpty
  BY <1>3 DEF CopyWrite, WriteAt, SetPort
<1> QED  BY <1>2, <1>3

LEMMA EnableRulesStep ==
  ASSUME CardInv, RangeInv, ReadPlaces, CopyCount, EnableRules, OffersClaimed, JobsAtZero, Clock,
         BLITTER_COPY_SIZE > 0
  PROVE  EnableRules'
<1>0. PICK p \in {BlitterStarted, blit} : ArbiterStep(p)  BY DEF Clock
<1>1. ASSUME arb' \in {"READING_ZORRO_PRE", "READY2", "BURST_ON", "BURST_OFF", "REFRESH_PRE",
                       "REFRESH_END", "BLIT_COPY_READ1"}
      PROVE ~ram_enable'
  <2>1. CASE GrantRead \/ ReadingZorroPre
    BY <1>1, <2>1 DEF GrantRead, ReadingZorroPre, To, At, Enable, EnableBurst, SetPort
  <2>2. CASE Ready \/ FetchNext \/ FetchDone
    BY <2>2 DEF Ready, FetchNext, FetchDone, At, Enable, EnableBurst, SetPort, EnableRules
  <2>3. CASE BurstOn
    BY <1>1, <2>3 DEF BurstOn, At, To, portVars, EnableRules
  <2>4. CASE GrantRefresh
    BY <1>1, <2>4, RefreshFindsNoOffer DEF GrantRefresh, portVars
  <2>5. CASE RefreshPre
    BY <1>1, <2>5 DEF RefreshPre, At, To, Enable, SetPort
  <2>6. CASE Refresh \/ RefreshEnd
    BY <1>1, <2>6 DEF Refresh, RefreshEnd, At, To, Enable, SetPort, portVars, EnableRules
  <2>7. CASE GrantCopyRead \/ CopyRead1
    BY <1>1, <2>7 DEF GrantCopyRead, CopyRead1, At, Enable, SetPort
  <2> QED  BY <1>0, <1>1, <2>1, <2>2, <2>3, <2>4, <2>5, <2>6, <2>7, ArrivesFetching, ArrivesServing
<1>2. ASSUME arb' \in WriterStates  PROVE ram_enable' => ram_write'
  <2>1. CASE arb' = "ROW_FETCHED"
    BY <1>0, <2>1, PortQuietStep DEF RangeInv, PortQuiet
  <2>2. CASE GrantWrite \/ WritingZorroPre \/ WritingZorro
    BY <2>2 DEF GrantWrite, WritingZorroPre, WritingZorro, EnableBurst, SetPort
  <2>3. CASE WriteEnd1 \/ WriteEnd \/ GrantCopyWrite \/ CopyWriteWaits
    BY <2>3 DEF WriteEnd1, WriteEnd, GrantCopyWrite, CopyWriteWaits, At, Enable, SetPort, portVars,
       EnableRules, WriterStates
  <2>4. CASE CopyRead /\ arb' = "WRITE_END1"
    <3>1. CopyBufferFilled  BY <2>4 DEF CopyRead, At, CopyBufferFilled
    <3>2. ~ram_enable /\ ~CopyIssues  BY <3>1, CopyFinishes
    <3> QED  BY <2>4, <3>2 DEF CopyRead, Enable, SetPort
  <2>5. CASE CopyWrite
    BY <2>5, CopyWriteEnables DEF RangeInv
  <2> QED
    BY <1>0, <1>2, <2>1, <2>2, <2>3, <2>4, <2>5, ArrivesServing DEF WriterStates
<1>3. ASSUME arb' \in {"BLIT_COPY_READ", "READING_ZORRO", "REFRESH", "FETCHING_ROW"}
      PROVE ~ram_write'
  <2>1. CASE CopyRead1
    BY <2>1 DEF CopyRead1, SetPort
  <2>2. CASE CopyRead
    <3>1. ~ram_write  BY <2>2 DEF CopyRead, At, EnableRules
    <3>2. ram_write' = ram_write  BY <2>2 DEF CopyRead, Enable, SetPort
    <3> QED  BY <3>1, <3>2
  <2>3. CASE ReadingZorroPre \/ ReadingZorro
    BY <1>3, <2>3 DEF ReadingZorroPre, ReadingZorro, At, To, ReadAt, Enable, SetPort, EnableRules
  <2>4. CASE RefreshPre
    BY <1>3, <2>4 DEF RefreshPre, At, ReadAt, SetPort
  <2>5. CASE BurstOn
    BY <1>3, <2>5 DEF BurstOn, At, ReadAt, SetPort
  <2>6. CASE FetchingRow
    <3>1. ~ram_write  BY <2>6 DEF FetchingRow, At, EnableRules
    <3>2. ram_write' = ram_write  BY <2>6 DEF FetchingRow, SetPort, portVars
    <3> QED  BY <3>1, <3>2
  <2> QED
    BY <1>0, <1>3, <2>1, <2>2, <2>3, <2>4, <2>5, <2>6, ArrivesFetching, ArrivesServing
<1>4. ASSUME arb' = "BLIT_COPY_WRITE", copy'.counter > 0  PROVE ram_write'
  <2>1. CASE GrantCopyWrite
    <3>1. copy'.counter = copy.counter
      BY <2>1 DEF GrantCopyWrite, CardInv, CardTyped, JobsTyped, CopyRecords
    <3>2. copy.counter = 0  BY <2>1 DEF GrantCopyWrite, Grants, At, JobsAtZero
    <3> QED  BY <1>4, <3>1, <3>2
  <2>2. CASE CopyWrite
    BY <2>2, CopyWriteEnables DEF RangeInv
  <2>3. CASE CopyWriteWaits
    BY <1>4, <2>3 DEF CopyWriteWaits, At, portVars, EnableRules
  <2> QED  BY <1>0, <1>4, <2>1, <2>2, <2>3, ArrivesServing
<1> QED  BY <1>1, <1>2, <1>3, <1>4 DEF EnableRules

\* Capture is switched off between two lines: a line under way keeps its mode.
LEMMA OffersClaimedStep ==
  ASSUME ~ResetAllowed, CardInv, RangeInv, BlitOwned, EnableRules, OffersClaimed, Clock,
         WritesCapture /\ bus.op.value # 1 => cap.line_saved
  PROVE  OffersClaimed'
<1> SUFFICES ASSUME arb' = "ROW_FETCHED", ram_enable'
             PROVE  blitter_enable' = 1 \/ (videocap_mode' /\ ~cap'.line_saved)
  BY DEF OffersClaimed
<1>1. PICK p \in {BlitterStarted, blit} : ArbiterStep(p)  BY DEF Clock
<1>2. Registers  BY DEF Clock
<1>3. cap \in CapRecords  BY DEF CardInv, CardTyped, JobsTyped
<1>4. videocap_mode /\ ~cap.line_saved /\ arb = "ROW_FETCHED" => videocap_mode'
  <2>1. ZAt("RESET") => arb = "READY2"  BY DEF ZAt, CardInv, PowerUp
  <2> QED  BY <1>2, <2>1 DEF Registers
<1>5. ~(BurstOff \/ WriteEnd \/ ReadingZorro \/ WritingZorro)
  BY DEF BurstOff, WriteEnd, ReadingZorro, WritingZorro, Enable, SetPort
<1>6. ~RefreshEnd  BY DEF RefreshEnd, At, portVars, EnableRules
<1>7. arb = "ROW_FETCHED" /\ \/ NobodyServed \/ FillPixel \/ FillRow \/ FillEnd \/ GrantCopyRead
                             \/ CaptureWord \/ CaptureEnd \/ GrantRefresh
  BY <1>1, <1>5, <1>6, ArrivesFree
<1>8. ~(FillRow \/ FillEnd \/ GrantCopyRead \/ CaptureEnd)
  BY DEF FillRow, FillEnd, GrantCopyRead, CaptureEnd, Enable, SetPort
<1>9. CASE FillPixel
  <2>1. blitter_enable = 1  BY <1>9 DEF FillPixel, FillGranted
  <2>2. ~FillEnd  BY <1>9 DEF FillPixel, FillEnd
  <2> QED  BY <1>7, <2>1, <2>2, BlitterKept
<1>10. CASE CaptureWord
  <2>1. ~cap.line_saved /\ videocap_mode
    <3>1. Claimant = "capture"  BY <1>10 DEF CaptureWord, Grants
    <3> QED  BY <3>1 DEF Claimant
  <2>2. cap'.line_saved = cap.line_saved  BY <1>3, <1>10 DEF CaptureWord, CapRecords
  <2> QED  BY <1>4, <1>7, <2>1, <2>2
<1>11. CASE (NobodyServed \/ GrantRefresh) /\ ~FillPixel /\ ~CaptureWord
  <2>1. ram_enable  BY <1>11 DEF NobodyServed, GrantRefresh, portVars
  <2>2. CASE blitter_enable = 1
    <3>1. ~FillEnd  BY <1>8
    <3> QED  BY <1>7, <2>2, <3>1, BlitterKept
  <2>3. CASE blitter_enable # 1
    <3>1. videocap_mode /\ ~cap.line_saved  BY <1>7, <2>1, <2>3 DEF OffersClaimed
    <3>2. CaptureLine
      BY <1>1, <1>8, <1>11 DEF ArbiterStep
    <3>3. ~cap'.line_saved  BY <3>1, <3>2 DEF CaptureLine, StartLine
    <3> QED  BY <1>4, <1>7, <3>1, <3>3
  <2> QED  BY <2>2, <2>3
<1> QED  BY <1>7, <1>8, <1>9, <1>10, <1>11

-----------------------------------------------------------------------------
(* The line fetch: the one read it asks for, the burst it becomes, and its *)
(* end.  fetch_x counts the words that came back.                          *)

FetchCell == CellAt(fetch_y)
SavedCell == <<save.bank, save.row, save.col>>

\* The fetch knows at what column it is, and when to withdraw cmd_enable.
FetchPort ==
  arb = "FETCHING_ROW" =>
    /\ fetch_x \in 0 .. FETCHW + 1
    /\ ram_addr = Addr(fetch_y + fetch_x)
    /\ ram_enable <=> fetch_x <= FETCHW

NothingBack == fetch_x = 0 /\ ~data_out_ready
FetchAsked   == ~got_transaction /\ NoReadsOut /\ fetch_x = 0
FetchQueued  ==
  /\ got_transaction /\ ~ready_for_new /\ ~save.wr /\ SavedCell = FetchCell
  /\ NothingBack /\ data_ready_delay = {} /\ state \notin ReadStates
  /\ state \in {"open_in_2", "open_in_1"} => burst_old = 7
FetchStarts  ==
  /\ state = "read_1" /\ burst_old = 7 /\ ~got_transaction /\ ready_for_new
  /\ NothingBack /\ data_ready_delay = {} /\ SavedCell = FetchCell
FetchFills   ==
  /\ state = "burst_read" /\ ready_for_new /\ fetch_x = 0 /\ SavedCell = FetchCell
  /\ data_ready_delay \in {{3}, {2, 3}, {1, 2, 3}, 0 .. 3}
  /\ data_out_ready => data_ready_delay = 0 .. 3
FetchFlows   ==
  /\ state = "burst_read" /\ ready_for_new /\ fetch_x > 0
  /\ data_out_ready /\ data_ready_delay = 0 .. 3
  /\ fetch_x <= FETCHW => save.col = FetchCell[3] + fetch_x - 1
FetchEnds    ==
  state = "precharge" /\ fetch_x = FETCHW + 1 /\ ~got_transaction /\ data_out_ready

FetchPhases ==
  arb = "FETCHING_ROW" =>
    FetchAsked \/ FetchQueued \/ FetchStarts \/ FetchFills \/ FetchFlows \/ FetchEnds

\* A read on a fetched line's port waits for nobody.
ReadyHeld == arb = "READY" /\ ram_enable => ~ready_for_new /\ ~row_fetched

\* The controller and its delay line hold no read of the last user.
FreeStates == {"BURST_ON", "BURST_OFF", "REFRESH_PRE", "REFRESH", "BLIT_COPY_READ1",
               "READING_ZORRO_PRE"} \cup WriterStates
FetchOpens == arb \in {"READY", "READY2"} /\ ~row_fetched
Free == arb \in FreeStates \/ FetchOpens => NoReadsOut

Resting == state \in ClosedStates \cup {"precharge"}
\* A line that was fetched leaves words in the delay line, but no transaction.
AfterFetch == arb \in {"READY", "READY2"} /\ row_fetched => ~ram_enable /\ ~got_transaction /\ Resting
\* Outside of the fetch no burst of full pages is started.
BurstOver == arb \notin FetchStates => (~Resting => burst_old # 7)
\* A read that is being put on the pins is followed by another, never a write.
ReadsHeld ==
  state \in {"read_1", "read_2", "read_3", "read_4"} /\ got_transaction => ~save.wr
\* The host's read asks for one word.
HostRead == arb = "READING_ZORRO" => One(ram_enable) + Outstanding <= 1
\* At power-up the arbiter gets no further than its first fetch.
Warming ==
  zorro \in {"COLD", "RESET"} \/ sdram_reset => ~dq_hiz /\ ~row_fetched /\ arb \in FetchStates

LEMMA NoReadUnderWrite ==
  ASSUME arb \in ArbiterStates, EnableRules, ReadyHeld, Free, ready_for_new, ram_enable, ram_write
  PROVE  NoReadsOut
<1>1. arb \notin {"READING_ZORRO_PRE", "READY2", "BURST_ON", "BURST_OFF", "REFRESH_PRE", "REFRESH_END",
                  "BLIT_COPY_READ1", "BLIT_COPY_READ", "READING_ZORRO", "REFRESH", "FETCHING_ROW",
                  "READY"}
  BY DEF EnableRules, ReadyHeld
<1>2. arb \in WriterStates  BY <1>1 DEF ArbiterStates, WriterStates
<1> QED  BY <1>2 DEF Free, FreeStates

LEMMA FreeStays ==
  ASSUME CardInv, EnableRules, ReadyHeld, Free, Clock,
         arb \in FreeStates \ {"REFRESH"} \/ FetchOpens
  PROVE  NoReadsOut'
<1> DEFINE in == Port(sdram_reset)
<1>0. SDRAMClock(in) /\ (Accepts(in) <=> ready_for_new /\ ram_enable) /\ in.wr = ram_write
  BY EdgeFacts
<1> HIDE DEF in
<1>1. NoReadsOut  BY DEF Free
<1>2. ready_for_new /\ ram_enable => ram_write
  BY DEF EnableRules, ReadyHeld, FreeStates, FetchOpens, WriterStates
<1> QED  BY <1>0, <1>1, <1>2, NoReadsStep

\* Rows are opened for a held transaction and with the client's burst length.
LEMMA OpensFor ==
  ASSUME NEW in, ControllerState(in)
  PROVE  /\ Resting /\ ~Resting' => got_transaction /\ burst_old' = in.burst
         /\ ~Resting /\ ~Resting' => burst_old' = burst_old
<1> USE DEF Resting, ClosedStates
<1>1. CASE Startup(in) \/ LoadMode(in) \/ Activate(in) \/ IdleNop(in) \/ OpenIn2(in) \/ OpenIn1(in)
  BY <1>1 DEF Startup, LoadMode, Activate, IdleNop, OpenIn2, OpenIn1, Keep, Reopen, Goto
<1>2. CASE IdleWait(in)
  BY <1>2, StateTable DEF IdleWait, Keep, Goto
<1>3. CASE ReadTail(in)
  BY <1>3, StateTable DEF ReadTail
<1>4. CASE Read1(in) \/ BurstRead(in) \/ BurstTerminate(in) \/ Write1(in) \/ Write2(in) \/ Write3(in)
           \/ Precharge(in)
  BY <1>4 DEF Read1, BurstRead, BurstTerminate, Write1, Write2, Write3, Precharge, Keep, Reopen, Goto
<1> QED  BY <1>1, <1>2, <1>3, <1>4 DEF ControllerState

\* With nothing held and nothing offered the controller comes to rest.
LEMMA RestStays ==
  ASSUME NEW in \in ClientInputs, SDRAMClock(in), SafeInv, Resting, ~got_transaction, ~Accepts(in), ~in.reset
  PROVE  ~got_transaction' /\ Resting'
<1>1. ~got_transaction'  BY QueueStep
<1>2. ControllerState(in)  BY DEF SDRAMClock
<1> QED  BY <1>1, <1>2, OpensFor

LEMMA BurstOverStep ==
  ASSUME CardInv, BurstOver, BurstRules, AfterFetch, Clock
  PROVE  BurstOver'
<1> DEFINE in == Port(sdram_reset)
<1>0. SDRAMClock(in) /\ in.burst = ram_burst_size  BY EdgeFacts
<1> HIDE DEF in
<1>1. ControllerState(in)  BY <1>0 DEF SDRAMClock
<1>2. PICK p \in {BlitterStarted, blit} : ArbiterStep(p)  BY DEF Clock
<1> SUFFICES ASSUME arb' \notin FetchStates, ~Resting'  PROVE burst_old' # 7
  BY DEF BurstOver
<1>3. CASE arb \notin FetchStates
  BY <1>0, <1>1, <1>3, OpensFor DEF BurstOver, BurstRules
<1>4. CASE arb \in FetchStates
  <2>1. arb \in {"READY", "READY2"} /\ row_fetched
    <3>1. CASE Ready \/ FetchNext \/ FetchDone \/ BurstOn
      BY <3>1 DEF Ready, FetchNext, FetchDone, BurstOn, At, To, FetchStates
    <3>2. CASE FetchingRow
      BY <3>2 DEF FetchingRow, At, FetchStates
    <3>3. CASE ~(Ready \/ FetchNext \/ FetchDone \/ BurstOn \/ FetchingRow)
      BY <1>2, <1>4, <3>3 DEF ArbiterStep, FetchStates, At, Grants, FillGranted, BurstOff, NobodyServed,
         GrantFetch, GrantWrite, GrantRead, FillPixel, FillRow, FillEnd, GrantCopyRead,
         GrantCopyWrite, CaptureWord, CaptureEnd, GrantRefresh, RefreshPre, Refresh, RefreshEnd,
         WriteEnd1, WriteEnd, CopyRead1, CopyRead, CopyWrite, CopyWriteWaits, ReadingZorroPre,
         ReadingZorro, WritingZorroPre, WritingZorro
    <3> QED  BY <3>1, <3>2, <3>3
  <2> QED  BY <1>1, <2>1, OpensFor DEF AfterFetch
<1> QED  BY <1>3, <1>4

-----------------------------------------------------------------------------
(* The steps of the counts.                                                *)

LEMMA CountStep ==
  ASSUME CardInv, StartupQuiet, BurstOver, Warming, Clock, arb \notin FetchStates
  PROVE  /\ SingleAccess
         /\ Outstanding' = Outstanding + One(ready_for_new /\ ram_enable /\ ~ram_write)
                             - One(data_out_ready)
<1> DEFINE in == Port(sdram_reset)
<1>0. /\ SDRAMClock(in) /\ (Accepts(in) <=> ready_for_new /\ ram_enable) /\ in.wr = ram_write
      /\ in \in ClientInputs /\ ~in.reset
  BY EdgeFacts DEF Warming
<1> HIDE DEF in
<1>1. SingleAccess
  <2>1. state = "burst_read" => burst_old = 7  BY DEF CardInv, AnswerInv, BurstRuns
  <2> QED  BY <2>1 DEF BurstOver, Resting, ClosedStates, SingleAccess
<1>2. Outstanding' = Outstanding + One(Accepts(in) /\ ~in.wr) - One(data_out_ready)
  BY <1>0, <1>1, OutstandingStep DEF CardInv
<1>3. One(Accepts(in) /\ ~in.wr) = One(ready_for_new /\ ram_enable /\ ~ram_write)
  BY <1>0 DEF One
<1> QED  BY <1>1, <1>2, <1>3

LEMMA NoneLeft ==
  ASSUME CardInv, StartupQuiet, ReadPlaces, BurstOver, Warming, Clock, arb \notin FetchStates,
         CardInv', ReadPlaces', BurstOver', arb' \notin FetchStates, Outstanding' = 0
  PROVE  NoReadsOut'
<1>1. state' = "burst_read" => burst_old' = 7  BY DEF CardInv, AnswerInv, BurstRuns
<1>2. state' # "burst_read"  BY <1>1 DEF BurstOver, Resting, ClosedStates
<1>3. TypeInv' /\ Handshake'  BY DEF CardInv, SafeInv
<1>4. (TypeInv /\ Handshake /\ ReadPlaces /\ Outstanding = 0 /\ state # "burst_read" => NoReadsOut)'
  BY NoneOutstanding, PTL
<1> QED  BY <1>2, <1>3, <1>4

LEMMA NothingLeft ==
  ASSUME CardInv', ReadPlaces', NoReadsOut'
  PROVE  Outstanding' = 0
<1>1. TypeInv' /\ Handshake'  BY DEF CardInv, SafeInv
<1>2. (TypeInv /\ Handshake /\ ReadPlaces /\ NoReadsOut => Outstanding = 0)'
  BY NoneOutstanding, PTL
<1> QED  BY <1>1, <1>2

LEMMA HostReadEnds ==
  ASSUME CardInv, StartupQuiet, ReadPlaces, BurstOver, Warming, HostRead, Clock, arb = "READING_ZORRO",
         data_out_ready
  PROVE  Outstanding' = 0
<1>1. Outstanding' = Outstanding + One(ready_for_new /\ ram_enable /\ ~ram_write) - One(data_out_ready)
  BY CountStep DEF FetchStates
<1>2. Outstanding \in Nat /\ Outstanding >= 1
  <2>1. Outstanding \in Nat  BY NoneOutstanding DEF CardInv, SafeInv
  <2>2. Outstanding # 0
    BY DEF Outstanding, InDelayLine, One
  <2> QED  BY <2>1, <2>2
<1>3. One(ram_enable) + Outstanding <= 1  BY DEF HostRead
<1>4. One(ram_enable) \in {0, 1} /\ (ram_enable => One(ram_enable) = 1)  BY DEF One
<1>5. ~ram_enable /\ Outstanding = 1  BY <1>2, <1>3, <1>4
<1>6. One(ready_for_new /\ ram_enable /\ ~ram_write) = 0 /\ One(data_out_ready) = 1
  BY <1>5 DEF One
<1>7. Outstanding' = Outstanding + 0 - 1  BY <1>1, <1>6
<1> QED  BY <1>5, <1>7

LEMMA HostReadStep ==
  ASSUME CardInv, StartupQuiet, ReadPlaces, BurstOver, Warming, EnableRules, ReadyHeld, Free, HostRead,
         Clock, CardInv', ReadPlaces'
  PROVE  HostRead'
<1> SUFFICES ASSUME arb' = "READING_ZORRO"  PROVE One(ram_enable') + Outstanding' <= 1
  BY DEF HostRead, One
<1>1. PICK p \in {BlitterStarted, blit} : ArbiterStep(p)  BY DEF Clock
<1>2. CASE ReadingZorroPre
  <2>1. arb = "READING_ZORRO_PRE"  BY <1>2 DEF ReadingZorroPre, At
  <2>2. Outstanding' = 0  BY <2>1, FreeStays, NothingLeft DEF FreeStates
  <2> QED  BY <2>2 DEF One
<1>3. CASE ReadingZorro
  <2>1. arb = "READING_ZORRO" /\ ~ram_enable'  BY <1>3 DEF ReadingZorro, At, Enable, SetPort
  <2>2. Outstanding' = Outstanding + One(ready_for_new /\ ram_enable /\ ~ram_write) - One(data_out_ready)
    BY <2>1, CountStep DEF FetchStates
  <2>3. /\ One(ready_for_new /\ ram_enable /\ ~ram_write) \in 0 .. 1
        /\ One(ready_for_new /\ ram_enable /\ ~ram_write) <= One(ram_enable)
        /\ One(ram_enable) \in 0 .. 1 /\ One(data_out_ready) \in 0 .. 1 /\ One(ram_enable') = 0
    BY <2>1 DEF One
  <2>4. Outstanding \in Nat  BY NoneOutstanding DEF CardInv, SafeInv
  <2> QED  BY <2>1, <2>2, <2>3, <2>4 DEF HostRead
<1> QED  BY <1>1, <1>2, <1>3, ArrivesServing

LEMMA CopyCountStep ==
  ASSUME CardInv, StartupQuiet, ReadPlaces, BurstOver, Warming, EnableRules, ReadyHeld, Free, JobsAtZero,
         CopyCount, Clock, CardInv', ReadPlaces'
  PROVE  CopyCount'
<1> SUFFICES ASSUME arb' = "BLIT_COPY_READ"
             PROVE  /\ One(ram_enable') + Outstanding' = copy'.issued - copy'.counter
                    /\ copy'.issued > 0 /\ ~copy'.reads_done /\ copy'.issued < BLITTER_COPY_SIZE
                         => ram_enable'
  BY DEF CopyCount, One
<1>0. copy \in CopyRecords /\ BLITTER_COPY_SIZE \in Nat
  BY SizesAssumption DEF CardInv, CardTyped, JobsTyped
<1>1. PICK p \in {BlitterStarted, blit} : ArbiterStep(p)  BY DEF Clock
<1>2. CASE CopyRead1
  <2>1. arb = "BLIT_COPY_READ1" /\ ~ram_enable'  BY <1>2 DEF CopyRead1, At, SetPort
  <2>2. Outstanding' = 0  BY <2>1, FreeStays, NothingLeft DEF FreeStates
  <2>3. copy'.issued = 0 /\ copy'.counter = 0
    <3>1. copy' = [copy EXCEPT !.issued = 0, !.reads_done = FALSE]  BY <1>2 DEF CopyRead1
    <3>2. copy.counter = 0  BY <2>1 DEF JobsAtZero
    <3> QED  BY <1>0, <3>1, <3>2 DEF CopyRecords
  <2> QED  BY <2>1, <2>2, <2>3 DEF One
<1>3. CASE CopyRead
  <2>1. arb = "BLIT_COPY_READ" /\ ~CopyBufferFilled /\ ~ram_write
    BY <1>3 DEF CopyRead, At, CopyBufferFilled, EnableRules
  <2>2. Outstanding' = Outstanding + One(ready_for_new /\ ram_enable /\ ~ram_write) - One(data_out_ready)
    BY <2>1, CountStep DEF FetchStates
  <2>3. /\ copy'.counter = IF data_out_ready THEN copy.counter + 1 ELSE copy.counter
        /\ copy'.issued = IF CopyIssues THEN copy.issued + 1 ELSE copy.issued
        /\ copy'.reads_done = (copy.reads_done \/ (CopyIssues /\ blit.curx2 = blit.x4))
    BY <1>0, <1>3, <2>1 DEF CopyRead, CopyRecords
  <2>4. /\ CopyIssues => ram_enable' /\ ready_for_new
        /\ ~CopyIssues => (ram_enable' <=> ram_enable /\ ~ready_for_new)
    BY <1>3 DEF CopyRead, SetPort, Enable, CopyIssues, cmd_ready
  <2>5. /\ One(ready_for_new /\ ram_enable /\ ~ram_write) = IF ready_for_new THEN One(ram_enable) ELSE 0
        /\ One(data_out_ready) = IF data_out_ready THEN 1 ELSE 0
        /\ One(ram_enable') = IF CopyIssues THEN 1 ELSE IF ready_for_new THEN 0 ELSE One(ram_enable)
        /\ One(ram_enable) \in 0 .. 1
    BY <2>1, <2>4 DEF One
  <2>6. Outstanding \in Nat /\ copy.issued \in Nat /\ copy.counter \in Nat
    BY <1>0, NoneOutstanding DEF CardInv, SafeInv, CopyRecords
  <2>7. One(ram_enable) + Outstanding = copy.issued - copy.counter  BY <2>1 DEF CopyCount
  <2>8. One(ram_enable') + Outstanding' = copy'.issued - copy'.counter
    <3>1. CASE CopyIssues
      <4>1. ready_for_new  BY <2>4, <3>1
      <4> QED  BY <2>2, <2>3, <2>5, <2>6, <2>7, <3>1, <4>1
    <3>2. CASE ~CopyIssues
      BY <2>2, <2>3, <2>5, <2>6, <2>7, <3>2
    <3> QED  BY <3>1, <3>2
  <2>9. ASSUME copy'.issued > 0, ~copy'.reads_done, copy'.issued < BLITTER_COPY_SIZE, ~CopyIssues
        PROVE  ram_enable'
    <3>1. copy.issued > 0 /\ ~copy.reads_done /\ copy.issued < BLITTER_COPY_SIZE
      BY <2>3, <2>9
    <3>2. ram_enable  BY <2>1, <3>1 DEF CopyCount
    <3>3. ~ready_for_new  BY <2>1, <2>9, <3>1 DEF CopyIssues, At, cmd_ready
    <3> QED  BY <2>4, <2>9, <3>2, <3>3
  <2> QED  BY <2>4, <2>8, <2>9
<1> QED  BY <1>1, <1>2, <1>3, ArrivesServing

-----------------------------------------------------------------------------
(* The port between two users.                                             *)

\* Unsigned makes no difference to a counter of words.
LEMMA CountsWords ==
  ASSUME NEW x \in 0 .. FETCHW + 1
  PROVE  Unsigned(x) = x
<1>1. FETCHW \in Nat /\ FETCHW + 1 < 4096  BY SizesAssumption, CountersAssumption
<1> QED  BY <1>1 DEF Unsigned

LEMMA FetchOver ==
  ASSUME CardInv, FetchPort, FetchPhases, Clock, FetchingRow, arb' = "READY"
  PROVE  /\ fetch_x = FETCHW + 1 /\ row_fetched' /\ ~ram_enable' /\ ~ram_enable
         /\ ~sdram_reset /\ ~got_transaction' /\ Resting'
<1> DEFINE in == Port(sdram_reset)
<1>0. /\ SDRAMClock(in) /\ (Accepts(in) <=> ready_for_new /\ ram_enable) /\ in.enable = ram_enable
      /\ in \in ClientInputs /\ (in.reset <=> sdram_reset)
  BY EdgeFacts
<1> HIDE DEF in
<1>1. FETCHW \in Nat  BY SizesAssumption
<1>2. arb = "FETCHING_ROW"  BY DEF FetchingRow, At
<1>3. data_out_ready /\ Unsigned(fetch_x) > FETCHW
  <2>1. data_out_ready  BY <1>2 DEF FetchingRow
  <2> QED  BY <1>2, <2>1 DEF FetchingRow
<1>4. fetch_x = FETCHW + 1
  <2>1. fetch_x \in 0 .. FETCHW + 1  BY <1>2 DEF FetchPort
  <2> QED  BY <1>1, <1>3, <2>1, CountsWords
<1>5. row_fetched'  BY <1>3 DEF FetchingRow
<1>6. ~ram_enable  BY <1>1, <1>2, <1>4 DEF FetchPort
<1>7. ~ram_enable'
  BY <1>3, <1>6 DEF FetchingRow, SetPort
<1>8. FetchFlows \/ FetchEnds
  <2>1. fetch_x # 0  BY <1>1, <1>4
  <2> QED  BY <1>2, <2>1 DEF FetchPhases, FetchAsked, FetchQueued, FetchStarts, FetchFills, NothingBack
<1>9. ~sdram_reset
  BY <1>8 DEF CardInv, PowerUp, Settled, ClosedStates, FetchFlows, FetchEnds
<1>10. ~got_transaction' /\ Resting'
  <2>1. ControllerState(in) /\ ~in.reset /\ ~in.enable  BY <1>0, <1>6, <1>9 DEF SDRAMClock
  <2>2. CASE FetchFlows
    <3>1. state = "burst_read" /\ BurstEnds(in)  BY <2>1, <2>2 DEF FetchFlows, BurstEnds
    <3>2. BurstTerminate(in)
      BY <2>1, <3>1 DEF ControllerState, Startup, IdleWait, LoadMode, Activate, IdleNop, OpenIn2,
         OpenIn1, Read1, BurstRead, ReadTail, Write1, Write2, Write3, Precharge, AfterWait, AfterRead
    <3> QED  BY <2>1, <3>2 DEF BurstTerminate, Reopen, Goto, Resting
  <2>3. CASE FetchEnds
    <3>1. Resting /\ ~got_transaction  BY <2>3 DEF FetchEnds, Resting
    <3> QED  BY <1>0, <1>6, <1>9, <3>1, RestStays DEF CardInv
  <2> QED  BY <1>8, <2>2, <2>3
<1> QED  BY <1>4, <1>5, <1>6, <1>7, <1>9, <1>10

LEMMA ReadyHeldStep ==
  ASSUME CardInv, StartupQuiet, Free, Warming, FetchPort, FetchPhases, Clock
  PROVE  ReadyHeld'
<1> DEFINE in == Port(sdram_reset)
<1>0. /\ SDRAMClock(in) /\ (Accepts(in) <=> ready_for_new /\ ram_enable)
      /\ in \in ClientInputs /\ (in.reset <=> sdram_reset)
  BY EdgeFacts
<1> HIDE DEF in
<1> SUFFICES ASSUME arb' = "READY", ram_enable'  PROVE ~ready_for_new' /\ ~row_fetched'
  BY DEF ReadyHeld
<1>1. PICK p \in {BlitterStarted, blit} : ArbiterStep(p)  BY DEF Clock
<1>2. ~FetchingRow  BY FetchOver
<1>3. GrantFetch  BY <1>1, <1>2, ArrivesFetching
<1>4. /\ arb = "ROW_FETCHED" /\ ready_for_new /\ ram_enable /\ ~row_fetched'
  BY <1>3 DEF GrantFetch, Grants, At, cmd_ready, SetPort
<1>5. ~sdram_reset  BY <1>4 DEF Warming, FetchStates
<1>6. state # "startup" /\ state \notin ReadStates
  BY <1>4 DEF StartupQuiet, Free, FreeStates, WriterStates, NoReadsOut
<1>7. ~ready_for_new'
  BY <1>0, <1>4, <1>5, <1>6, QueueStep DEF CardInv, ReadStates
<1> QED  BY <1>4, <1>7

LEMMA AfterFetchStep ==
  ASSUME CardInv, AfterFetch, Warming, FetchPort, FetchPhases, Clock
  PROVE  AfterFetch'
<1> DEFINE in == Port(sdram_reset)
<1>0. /\ SDRAMClock(in) /\ (Accepts(in) <=> ready_for_new /\ ram_enable)
      /\ in \in ClientInputs /\ (in.reset <=> sdram_reset)
  BY EdgeFacts
<1> HIDE DEF in
<1>1. PICK p \in {BlitterStarted, blit} : ArbiterStep(p)  BY DEF Clock
<1> SUFFICES ASSUME arb' \in {"READY", "READY2"}, row_fetched'
             PROVE  ~ram_enable' /\ ~got_transaction' /\ Resting'
  BY DEF AfterFetch
<1>2. CASE FetchingRow
  <2>1. arb' = "READY"  BY <1>2 DEF FetchingRow, At
  <2> QED  BY <1>2, <2>1, FetchOver
<1>3. ~GrantFetch /\ ~FetchNext  BY DEF GrantFetch, FetchNext
<1>4. CASE Ready \/ FetchDone
  <2>1. arb \in {"READY", "READY2"} /\ row_fetched
    BY <1>4 DEF Ready, FetchDone, fetchVars, At
  <2>2. ~ram_enable /\ ~got_transaction /\ Resting /\ ~sdram_reset
    BY <2>1 DEF AfterFetch, Warming
  <2>3. ~ram_enable'
    BY <1>4, <2>2 DEF Ready, FetchDone, Enable, EnableBurst, SetPort
  <2> QED  BY <1>0, <2>2, <2>3, RestStays DEF CardInv
<1> QED  BY <1>1, <1>2, <1>3, <1>4, ArrivesFetching

\* With nothing under way and no read on offer, there is still nothing after the edge.
LEMMA QuietEdge ==
  ASSUME CardInv, Clock, NoReadsOut, ~ram_enable
  PROVE  NoReadsOut'
<1> DEFINE in == Port(sdram_reset)
<1>0. SDRAMClock(in) /\ (Accepts(in) <=> ready_for_new /\ ram_enable)
  BY EdgeFacts
<1> HIDE DEF in
<1> QED  BY <1>0, NoReadsStep

\* The arbiter enters a state in which no read may be under way from another
\* such state, or from the end of one of its four reading jobs.
LEMMA ArrivesQuiet ==
  ASSUME NEW p, ArbiterStep(p), CardInv, FetchPort, FetchPhases, Clock,
         arb' \in FreeStates \/ (arb' \in {"READY", "READY2"} /\ ~row_fetched')
  PROVE  \/ arb \in FreeStates \ {"REFRESH"} \/ FetchOpens
         \/ FetchDone /\ queue_empty
         \/ CopyRead /\ CopyBufferFilled
         \/ RefreshEnd /\ arb' = "ROW_FETCHED"
         \/ ReadingZorro /\ arb' = "ROW_FETCHED"
<1> USE DEF FreeStates, WriterStates
<1>1. CASE arb' \in {"READY", "READY2"} /\ ~row_fetched'
  <2>1. ~FetchingRow \/ arb' # "READY"  BY <1>1, FetchOver
  <2>2. GrantFetch => arb = "ROW_FETCHED"  BY DEF GrantFetch, Grants, At
  <2>3. Ready \/ FetchNext => FetchOpens
    <3>1. Ready => arb = "READY" /\ row_fetched' = row_fetched  BY DEF Ready, At
    <3>2. FetchNext => arb = "READY2" /\ ~row_fetched  BY DEF FetchNext, At
    <3> QED  BY <1>1, <3>1, <3>2 DEF FetchOpens
  <2>4. ~FetchDone  BY <1>1 DEF FetchDone, fetchVars
  <2> QED  BY <1>1, <2>1, <2>2, <2>3, <2>4, ArrivesFetching
<1>2. CASE arb' \in {"BURST_ON", "BURST_OFF"}
  <2>1. FetchNext => FetchOpens  BY DEF FetchNext, At, FetchOpens
  <2>2. BurstOn => arb = "BURST_ON"  BY DEF BurstOn, At
  <2>3. FetchDone /\ arb' = "BURST_OFF" => queue_empty  BY DEF FetchDone, At
  <2> QED  BY <1>2, <2>1, <2>2, <2>3, ArrivesFetching
<1>3. CASE arb' = "ROW_FETCHED"
  <2>1. BurstOff \/ WriteEnd \/ WritingZorro => arb \in {"BURST_OFF", "WRITE_END", "WRITING_ZORRO"}
    BY DEF BurstOff, WriteEnd, WritingZorro, At
  <2> QED  BY <1>3, <2>1, ArrivesFree
<1>4. CASE arb' \in {"REFRESH_PRE", "REFRESH", "BLIT_COPY_READ1", "READING_ZORRO_PRE"}
  <2>1. GrantRefresh \/ RefreshPre \/ GrantCopyRead \/ CopyRead1 \/ GrantRead \/ ReadingZorroPre
    BY <1>4, ArrivesServing
  <2> QED
    BY <2>1 DEF GrantRefresh, RefreshPre, GrantCopyRead, CopyRead1, GrantRead, ReadingZorroPre, Grants, At
<1>5. CASE arb' = "WRITE_END1"
  <2>1. WriteEnd1 \/ CopyWrite => arb \in {"WRITE_END1", "BLIT_COPY_WRITE"}
    BY DEF WriteEnd1, CopyWrite, At
  <2>2. CopyRead => CopyBufferFilled  BY <1>5 DEF CopyRead, At
  <2> QED  BY <1>5, <2>1, <2>2, ArrivesServing
<1>6. CASE arb' \in {"WRITE_END", "BLIT_COPY_WRITE", "WRITING_ZORRO_PRE", "WRITING_ZORRO"}
  <2>1. WriteEnd1 \/ WriteEnd \/ GrantCopyWrite \/ CopyWrite \/ CopyWriteWaits \/ GrantWrite
          \/ WritingZorroPre \/ WritingZorro
    BY <1>6, ArrivesServing
  <2> QED
    BY <2>1 DEF WriteEnd1, WriteEnd, GrantCopyWrite, CopyWrite, CopyWriteWaits, GrantWrite,
       WritingZorroPre, WritingZorro, Grants, At
<1> QED  BY <1>1, <1>2, <1>3, <1>4, <1>5, <1>6

LEMMA ReadsHeldStep ==
  ASSUME CardInv, RangeInv, StartupQuiet, EnableRules, ReadyHeld, Free, ReadsHeld, Clock
  PROVE  ReadsHeld'
<1> DEFINE in == Port(sdram_reset)
<1>0. /\ SDRAMClock(in) /\ (Accepts(in) <=> ready_for_new /\ ram_enable) /\ in.wr = ram_write
      /\ in \in ClientInputs /\ (in.reset <=> sdram_reset)
  BY EdgeFacts
<1> HIDE DEF in
<1> SUFFICES ASSUME state' \in {"read_1", "read_2", "read_3", "read_4"}, got_transaction', save'.wr
             PROVE  FALSE
  BY DEF ReadsHeld
<1>1. CASE sdram_reset
  <2>1. Settled'  BY <1>0, <1>1, SettledStays DEF CardInv, PowerUp
  <2> QED  BY <2>1 DEF Settled
<1>2. CASE ~sdram_reset
  <2>1. state \in States  BY DEF CardInv, SafeInv, TypeInv, TypeOK, ControllerTypeOK
  <2>2. state' # "read_1"
    <3>1. CASE SingleAccess
      BY <1>0, <1>2, <3>1, ReadStarts DEF CardInv
    <3>2. CASE ~SingleAccess
      <4>1. state \in {"read_1", "burst_read"}  BY <3>2 DEF SingleAccess
      <4> QED  BY <1>0, <1>2, <4>1, NextState
    <3> QED  BY <3>1, <3>2
  <2>3. state \in {"read_1", "read_2", "read_3"}
    BY <1>0, <1>2, <2>1, <2>2, NextState, StateTable DEF States
  <2>4. ~NoReadsOut  BY <2>3 DEF NoReadsOut, ReadStates
  <2>5. CASE Accepts(in)
    <3>1. ram_write  BY <1>0, <1>2, <2>5, QueueStep DEF CardInv
    <3> QED  BY <1>0, <2>4, <2>5, <3>1, NoReadUnderWrite DEF RangeInv
  <2>6. CASE ~Accepts(in)
    <3>1. save' = save /\ got_transaction  BY <1>0, <1>2, <2>6, QueueStep DEF CardInv
    <3> QED  BY <2>3, <3>1 DEF ReadsHeld
  <2> QED  BY <2>5, <2>6
<1> QED  BY <1>1, <1>2

LEMMA BusQuietOnCard ==
  ASSUME CardInv, BusQuiet, ReadsHeld, Warming, Clock
  PROVE  BusQuiet'
<1> DEFINE in == Port(sdram_reset)
<1>0. SDRAMClock(in) /\ in \in ClientInputs /\ (in.reset <=> sdram_reset)
  BY EdgeFacts
<1> HIDE DEF in
<1>1. in.reset => Settled /\ ~dq_hiz  BY <1>0 DEF CardInv, PowerUp, Warming
<1>2. ~WriteOverRead  BY DEF WriteOverRead, Follows, ReadsHeld
<1> QED  BY <1>0, <1>1, <1>2, BusQuietStep DEF CardInv

-----------------------------------------------------------------------------
(* The refresh.  It waits long enough for a write to wind down and for the *)
(* burst length to be loaded, and then long enough for its word.           *)

WaitsSuffice == refresh_warm_max >= 10 /\ refresh_cool_max >= 8

\* Edges until a controller that is offered nothing is idle.
Left == [write_1 |-> 8, write_2 |-> 7, write_3 |-> 6, precharge |-> 5, idle_in_4 |-> 4,
         idle_in_3 |-> 3, idle_in_2 |-> 2, idle_in_1 |-> 1, idle |-> 0]
\* And until it has loaded the burst length of the port, too.
Rank == Left[state] + (IF burst_old = ram_burst_size THEN 0 ELSE 3)

Warm ==
  arb = "REFRESH_PRE" =>
    /\ ~got_transaction /\ state \in DOMAIN Left
    /\ Rank + refresh.warm <= 10 \/ Rank = 0
RefreshAsked ==
  arb = "REFRESH" => state = "idle" /\ burst_old = ram_burst_size /\ ~got_transaction

\* The edges a single read has behind it, and its place in the delay line.
Stage == [idle |-> 0, open_in_2 |-> 1, open_in_1 |-> 2, read_1 |-> 3, read_2 |-> 4, read_3 |-> 5,
          read_4 |-> 6, precharge |-> 7, idle_in_4 |-> 8]
Places == [idle |-> {}, open_in_2 |-> {}, open_in_1 |-> {}, read_1 |-> {}, read_2 |-> {3},
           read_3 |-> {2}, read_4 |-> {1}, precharge |-> {0}, idle_in_4 |-> {}]
InTransit ==
  /\ state \in DOMAIN Stage /\ data_ready_delay = Places[state]
  /\ data_out_ready <=> state = "idle_in_4"
  /\ got_transaction <=> state \in {"idle", "open_in_2", "open_in_1"}
  /\ got_transaction => ~save.wr
RefreshOut ==
  arb = "REFRESH_END" =>
    burst_old = ram_burst_size /\ (NoReadsOut \/ (InTransit /\ refresh.cool <= Stage[state]))

LEMMA LeftTable ==
  /\ DOMAIN Left = {"write_1", "write_2", "write_3", "precharge", "idle_in_4", "idle_in_3",
                    "idle_in_2", "idle_in_1", "idle"}
  /\ Left["write_1"] = 8 /\ Left["write_2"] = 7 /\ Left["write_3"] = 6 /\ Left["precharge"] = 5
  /\ Left["idle_in_4"] = 4 /\ Left["idle_in_3"] = 3 /\ Left["idle_in_2"] = 2
  /\ Left["idle_in_1"] = 1 /\ Left["idle"] = 0
BY DEF Left

LEMMA StageTable ==
  /\ DOMAIN Stage = {"idle", "open_in_2", "open_in_1", "read_1", "read_2", "read_3", "read_4",
                     "precharge", "idle_in_4"}
  /\ Stage["idle"] = 0 /\ Stage["open_in_2"] = 1 /\ Stage["open_in_1"] = 2 /\ Stage["read_1"] = 3
  /\ Stage["read_2"] = 4 /\ Stage["read_3"] = 5 /\ Stage["read_4"] = 6 /\ Stage["precharge"] = 7
  /\ Stage["idle_in_4"] = 8
  /\ Places["idle"] = {} /\ Places["open_in_2"] = {} /\ Places["open_in_1"] = {}
  /\ Places["read_1"] = {} /\ Places["read_2"] = {3} /\ Places["read_3"] = {2}
  /\ Places["read_4"] = {1} /\ Places["precharge"] = {0} /\ Places["idle_in_4"] = {}
BY DEF Stage, Places

\* A controller that holds nothing and is offered nothing comes to idle and
\* loads the burst length it is given.
LEMMA WindsDown ==
  ASSUME SafeInv, NEW in \in ClientInputs, ~in.reset, SDRAMClock(in), ~got_transaction, ~Accepts(in),
         state \in DOMAIN Left
  PROVE  /\ ~got_transaction' /\ state' \in DOMAIN Left
         /\ state # "idle" => burst_old' = burst_old /\ Left[state'] = Left[state] - 1
         /\ state = "idle" => /\ burst_old' = in.burst
                              /\ state' = IF burst_old = in.burst THEN "idle" ELSE "idle_in_2"
<1>1. ControllerState(in)  BY DEF SDRAMClock
<1>2. ~got_transaction'  BY QueueStep
<1>3. CASE IdleWait(in)
  <2>1. state' = AfterWait[state] /\ burst_old' = burst_old /\ state \in DOMAIN AfterWait
    BY <1>3 DEF IdleWait, Keep, Goto
  <2> QED  BY <1>2, <2>1, StateTable, LeftTable
<1>4. CASE LoadMode(in) \/ IdleNop(in)
  BY <1>2, <1>4, LeftTable DEF LoadMode, IdleNop, Keep, Goto
<1>5. CASE Write1(in) \/ Write2(in) \/ Write3(in) \/ Precharge(in)
  <2>1. /\ Write1(in) => state = "write_1" /\ state' = "write_2"
        /\ Write2(in) => state = "write_2" /\ state' = "write_3"
        /\ Write3(in) => state = "write_3" /\ state' = "precharge"
        /\ Precharge(in) => state = "precharge" /\ state' = "idle_in_4"
    BY DEF Write1, Write2, Write3, Precharge, Follows, Keep, Goto
  <2>2. burst_old' = burst_old  BY <1>5 DEF Write1, Write2, Write3, Precharge
  <2> QED  BY <1>2, <1>5, <2>1, <2>2, LeftTable
<1>6. ~(Startup(in) \/ Activate(in) \/ OpenIn2(in) \/ OpenIn1(in) \/ Read1(in) \/ BurstRead(in)
        \/ BurstTerminate(in) \/ ReadTail(in))
  BY LeftTable, StateTable DEF Startup, Activate, OpenIn2, OpenIn1, Read1, BurstRead, BurstTerminate, ReadTail
<1> QED  BY <1>1, <1>3, <1>4, <1>5, <1>6 DEF ControllerState

LEMMA RankType ==
  ASSUME state \in DOMAIN Left
  PROVE  /\ Rank \in 0 .. 11 /\ Left[state] \in 0 .. 8
         /\ Rank = 0 <=> state = "idle" /\ burst_old = ram_burst_size
<1>1. Left[state] \in 0 .. 8 /\ (Left[state] = 0 <=> state = "idle")  BY LeftTable
<1>2. CASE burst_old = ram_burst_size
  BY <1>1, <1>2 DEF Rank
<1>3. CASE burst_old # ram_burst_size
  <2>1. Rank = Left[state] + 3  BY <1>3 DEF Rank
  <2> QED  BY <1>1, <1>3, <2>1
<1> QED  BY <1>2, <1>3

\* One edge of winding down, as the arbiter waits with the port unchanged.
LEMMA RankStep ==
  ASSUME CardInv, Clock, ~sdram_reset, ~ram_enable, ~got_transaction, state \in DOMAIN Left,
         ram_burst_size' = ram_burst_size
  PROVE  /\ ~got_transaction' /\ state' \in DOMAIN Left
         /\ Rank = 0 => Rank' = 0
         /\ Rank > 0 => Rank' = Rank - 1
<1> DEFINE in == Port(sdram_reset)
<1>0. /\ SDRAMClock(in) /\ (Accepts(in) <=> ready_for_new /\ ram_enable) /\ in.burst = ram_burst_size
      /\ in \in ClientInputs /\ (in.reset <=> sdram_reset)
  BY EdgeFacts
<1> HIDE DEF in
<1>1. /\ ~got_transaction' /\ state' \in DOMAIN Left
      /\ state # "idle" => burst_old' = burst_old /\ Left[state'] = Left[state] - 1
      /\ state = "idle" => /\ burst_old' = in.burst
                           /\ state' = IF burst_old = in.burst THEN "idle" ELSE "idle_in_2"
  BY <1>0, WindsDown DEF CardInv
<1>2. Rank' = Left[state'] + (IF burst_old' = ram_burst_size' THEN 0 ELSE 3)  BY DEF Rank
<1>3. CASE state = "idle"
  <2>1. burst_old' = ram_burst_size'  BY <1>0, <1>1, <1>3
  <2>2. Rank' = Left[state'] + 0  BY <1>2, <2>1
  <2>3. CASE burst_old = ram_burst_size
    <3>1. state' = "idle" /\ Rank = 0  BY <1>0, <1>1, <1>3, <2>3, LeftTable DEF Rank
    <3> QED  BY <1>1, <2>2, <3>1, LeftTable
  <2>4. CASE burst_old # ram_burst_size
    <3>1. state' = "idle_in_2"  BY <1>0, <1>1, <1>3, <2>4
    <3>2. Rank = 0 + 3  BY <1>3, <2>4, LeftTable DEF Rank
    <3> QED  BY <1>1, <2>2, <3>1, <3>2, LeftTable
  <2> QED  BY <2>3, <2>4
<1>4. CASE state # "idle"
  <2>1. burst_old' = burst_old /\ Left[state'] = Left[state] - 1  BY <1>1, <1>4
  <2>2. Left[state] \in 0 .. 8 /\ Rank \in 0 .. 11 /\ Rank # 0  BY <1>4, RankType
  <2>3. CASE burst_old = ram_burst_size
    <3>1. Rank' = Left[state] - 1 + 0 /\ Rank = Left[state] + 0  BY <1>2, <2>1, <2>3 DEF Rank
    <3> QED  BY <1>1, <2>2, <3>1
  <2>4. CASE burst_old # ram_burst_size
    <3>1. Rank' = Left[state] - 1 + 3 /\ Rank = Left[state] + 3  BY <1>2, <2>1, <2>4 DEF Rank
    <3> QED  BY <1>1, <2>2, <3>1
  <2> QED  BY <2>3, <2>4
<1> QED  BY <1>3, <1>4

LEMMA WarmStep ==
  ASSUME CardInv, RangeInv, StartupQuiet, Warming, EnableRules, OffersClaimed, Free, JobsAtZero, Warm,
         Clock
  PROVE  Warm'
<1> SUFFICES ASSUME arb' = "REFRESH_PRE"
             PROVE  /\ ~got_transaction' /\ state' \in DOMAIN Left
                    /\ Rank' + refresh'.warm <= 10 \/ Rank' = 0
  BY DEF Warm
<1>1. PICK p \in {BlitterStarted, blit} : ArbiterStep(p)  BY DEF Clock
<1>2. refresh \in RefreshRecords  BY DEF CardInv, CardTyped, JobsTyped
<1>3. CASE GrantRefresh
  <2>1. arb = "ROW_FETCHED" /\ ~ram_enable /\ ready_for_new /\ ram_burst_size' = ram_burst_size
    BY <1>3, RefreshFindsNoOffer DEF GrantRefresh, Grants, At, cmd_ready, portVars
  <2>2. ~sdram_reset  BY <2>1 DEF Warming, FetchStates
  <2>3. NoReadsOut  BY <2>1 DEF Free, FreeStates, WriterStates
  <2>4. state \in States  BY DEF CardInv, SafeInv, TypeInv, TypeOK, ControllerTypeOK
  <2>5. ~got_transaction /\ state \notin {"open_in_2", "open_in_1", "startup"}
    BY <2>1, <2>3 DEF CardInv, SafeInv, Handshake, StartupQuiet, NoReadsOut, ReadStates
  <2>6. state \in DOMAIN Left
    BY <2>3, <2>4, <2>5, LeftTable DEF NoReadsOut, ReadStates, States
  <2>7. ~got_transaction' /\ state' \in DOMAIN Left /\ Rank' <= 10
    BY <2>1, <2>2, <2>5, <2>6, RankStep, RankType
  <2>8. refresh'.warm = 0
    <3>1. refresh.warm = 0  BY <2>1 DEF JobsAtZero
    <3>2. refresh' \in {[refresh EXCEPT !.counter = refresh.counter + 1], [refresh EXCEPT !.counter = 0]}
      BY <1>3 DEF GrantRefresh
    <3> QED  BY <1>2, <3>1, <3>2 DEF RefreshRecords
  <2>9. Left[state'] \in 0 .. 8  BY <2>7, LeftTable
  <2>10. Rank' + refresh'.warm <= 10
    BY <2>7, <2>8, <2>9 DEF Rank
  <2> QED  BY <2>7, <2>10
<1>4. CASE RefreshPre
  <2>1. arb = "REFRESH_PRE" /\ ~(refresh.warm >= refresh_warm_max)
    BY <1>4 DEF RefreshPre, At, To
  <2>2. ~ram_enable /\ ~sdram_reset /\ ~got_transaction /\ state \in DOMAIN Left
    BY <2>1 DEF EnableRules, Warming, FetchStates, Warm
  <2>3. ram_burst_size' = ram_burst_size
    BY <1>4, <2>1 DEF RefreshPre, Enable, SetPort
  <2>4. refresh'.warm = refresh.warm + 1
    <3>1. refresh' = [refresh EXCEPT !.warm = refresh.warm + 1]  BY <1>4, <2>1 DEF RefreshPre
    <3> QED  BY <1>2, <3>1 DEF RefreshRecords
  <2>5. Rank \in 0 .. 11 /\ refresh.warm \in Int
    BY <1>2, <2>2, RankType DEF RefreshRecords
  <2>6. Rank + refresh.warm <= 10 \/ Rank = 0  BY <2>1 DEF Warm
  <2>7. /\ ~got_transaction' /\ state' \in DOMAIN Left
        /\ Rank = 0 => Rank' = 0
        /\ Rank > 0 => Rank' = Rank - 1
    BY <2>2, <2>3, RankStep
  <2>8. CASE Rank = 0
    BY <2>7, <2>8
  <2>9. CASE Rank # 0
    BY <2>4, <2>5, <2>6, <2>7, <2>9
  <2> QED  BY <2>7, <2>8, <2>9
<1> QED  BY <1>1, <1>3, <1>4, ArrivesServing

LEMMA RefreshAskedStep ==
  ASSUME CardInv, RangeInv, WaitsSuffice, Warming, EnableRules, Warm, Clock
  PROVE  RefreshAsked'
<1> SUFFICES ASSUME arb' = "REFRESH"
             PROVE  state' = "idle" /\ burst_old' = ram_burst_size' /\ ~got_transaction'
  BY DEF RefreshAsked
<1>1. PICK p \in {BlitterStarted, blit} : ArbiterStep(p)  BY DEF Clock
<1>2. RefreshPre  BY <1>1, ArrivesServing
<1>3. arb = "REFRESH_PRE" /\ refresh.warm >= refresh_warm_max
  BY <1>2 DEF RefreshPre, At
<1>4. ~ram_enable /\ ~sdram_reset /\ ~got_transaction /\ state \in DOMAIN Left
  BY <1>3 DEF EnableRules, Warming, FetchStates, Warm
<1>5. ram_burst_size' = ram_burst_size
  BY <1>2, <1>3 DEF RefreshPre, ReadAt, SetPort
<1>6. Rank = 0
  <2>1. Rank \in 0 .. 11 /\ refresh.warm \in Int /\ refresh_warm_max \in Nat
    BY <1>4, RankType, CountersAssumption DEF CardInv, CardTyped, JobsTyped, RefreshRecords
  <2>2. Rank + refresh.warm <= 10 \/ Rank = 0  BY <1>3 DEF Warm
  <2> QED  BY <1>3, <2>1, <2>2 DEF WaitsSuffice
<1>7. ~got_transaction' /\ state' \in DOMAIN Left /\ Rank' = 0
  BY <1>4, <1>5, <1>6, RankStep
<1>8. (state \in DOMAIN Left /\ Rank = 0 => state = "idle" /\ burst_old = ram_burst_size)'
  BY RankType, PTL
<1> QED  BY <1>7, <1>8

LEMMA TravelStep ==
  ASSUME SafeInv, NEW in \in ClientInputs, ~in.reset, SDRAMClock(in), ~Accepts(in), InTransit,
         in.burst = burst_old, burst_old # 7
  PROVE  /\ burst_old' = burst_old
         /\ state = "idle_in_4" => NoReadsOut'
         /\ state # "idle_in_4" => InTransit' /\ Stage[state'] = Stage[state] + 1
<1>1. ControllerState(in) /\ TypeInv /\ save' = save
  BY DEF SDRAMClock, SafeInv, Latch
<1>2. burst_old \in {0, 1}  BY <1>1 DEF TypeInv, TypeOK, ControllerTypeOK, Modes
<1>3. /\ data_ready_delay = Places[state] /\ (data_out_ready <=> state = "idle_in_4")
      /\ got_transaction <=> state \in {"idle", "open_in_2", "open_in_1"}
      /\ got_transaction => ~save.wr
      /\ state \in DOMAIN Stage
  BY DEF InTransit
<1>4. /\ {i - 1 : i \in {} \ {0}} \cup {} = {} /\ {i - 1 : i \in {} \ {0}} \cup {3} = {3}
      /\ {i - 1 : i \in {3} \ {0}} \cup {} = {2} /\ {i - 1 : i \in {2} \ {0}} \cup {} = {1}
      /\ {i - 1 : i \in {1} \ {0}} \cup {} = {0} /\ {i - 1 : i \in {0} \ {0}} \cup {} = {}
  OBVIOUS
<1>5. CASE Activate(in) \/ OpenIn2(in) \/ OpenIn1(in)
  <2>1. /\ Activate(in) => state = "idle" /\ state' = "open_in_2" /\ got_transaction'
        /\ OpenIn2(in) => state = "open_in_2" /\ state' = "open_in_1" /\ got_transaction'
        /\ OpenIn1(in) => state = "open_in_1" /\ state' = "read_1" /\ ~got_transaction'
    BY <1>3 DEF Activate, OpenIn2, OpenIn1, Keep, Reopen, Goto
  <2>2. burst_old' = burst_old /\ DelayLine(FALSE)  BY <1>5 DEF Activate, OpenIn2, OpenIn1
  <2>3. data_ready_delay = {}  BY <1>3, <1>5, <2>1, StageTable
  <2>4. data_ready_delay' = {} /\ ~data_out_ready'  BY <1>4, <2>2, <2>3 DEF DelayLine
  <2> QED  BY <1>1, <1>3, <1>5, <2>1, <2>2, <2>4, StageTable DEF InTransit
<1>6. CASE Read1(in)
  <2>0. state = "read_1" /\ ~got_transaction /\ ~(burst_old > 1)
    <3>1. state = "read_1"  BY <1>6 DEF Read1
    <3> QED  BY <1>2, <1>3, <3>1
  <2>1. state = "read_1" /\ state' = "read_2" /\ ~got_transaction'
    <3>1. Keep(in, "read_2")  BY <1>6, <2>0 DEF Read1
    <3> QED  BY <2>0, <3>1 DEF Keep, Goto
  <2>2. burst_old' = burst_old /\ DelayLine(TRUE)  BY <1>6 DEF Read1
  <2>3. data_ready_delay = {}  BY <1>3, <2>1, StageTable
  <2>4. data_ready_delay' = {3} /\ ~data_out_ready'  BY <1>4, <2>2, <2>3 DEF DelayLine
  <2> QED  BY <1>1, <2>1, <2>2, <2>4, StageTable DEF InTransit
<1>7. CASE ReadTail(in)
  <2>1. state \in DOMAIN AfterRead /\ state' = AfterRead[state] /\ ~got_transaction'
    BY <1>3, <1>7, StateTable DEF ReadTail, Follows, Keep, Goto
  <2>2. burst_old' = burst_old /\ DelayLine(FALSE)  BY <1>7 DEF ReadTail
  <2>3. data_ready_delay = Places[state]  BY <1>3
  <2>4. data_ready_delay' = Places[state'] /\ ~data_out_ready'
    <3>1. data_ready_delay' = {i - 1 : i \in data_ready_delay \ {0}} \cup {}
          /\ data_out_ready' = (0 \in data_ready_delay)
      BY <2>2 DEF DelayLine
    <3>2. CASE state = "read_2"
      BY <1>4, <2>1, <2>3, <3>1, <3>2, StateTable, StageTable
    <3>3. CASE state = "read_3"
      BY <1>4, <2>1, <2>3, <3>1, <3>3, StateTable, StageTable
    <3>4. CASE state = "read_4"
      BY <1>4, <2>1, <2>3, <3>1, <3>4, StateTable, StageTable
    <3> QED  BY <2>1, <3>2, <3>3, <3>4, StateTable
  <2> QED  BY <1>1, <2>1, <2>2, <2>4, StateTable, StageTable DEF InTransit
<1>8. CASE Precharge(in)
  <2>1. state = "precharge" /\ state' = "idle_in_4" /\ ~got_transaction'
    BY <1>3, <1>8 DEF Precharge, Keep, Goto
  <2>2. burst_old' = burst_old /\ DelayLine(FALSE)  BY <1>8 DEF Precharge
  <2>3. data_ready_delay = {0}  BY <1>3, <2>1, StageTable
  <2>4. data_ready_delay' = {} /\ data_out_ready'  BY <1>4, <2>2, <2>3 DEF DelayLine
  <2> QED  BY <1>1, <2>1, <2>2, <2>4, StageTable DEF InTransit
<1>9. CASE IdleWait(in)
  <2>1. state = "idle_in_4" /\ state' = "idle_in_3" /\ ~got_transaction'
    BY <1>3, <1>9, StateTable, StageTable DEF IdleWait, Keep, Goto
  <2>2. burst_old' = burst_old /\ DelayLine(FALSE)  BY <1>9 DEF IdleWait
  <2>3. data_ready_delay = {}  BY <1>3, <2>1, StageTable
  <2>4. data_ready_delay' = {} /\ ~data_out_ready'  BY <1>4, <2>2, <2>3 DEF DelayLine
  <2> QED  BY <2>1, <2>2, <2>4 DEF NoReadsOut, ReadStates
<1>10. ~(Startup(in) \/ LoadMode(in) \/ IdleNop(in) \/ BurstRead(in) \/ BurstTerminate(in)
         \/ Write1(in) \/ Write2(in) \/ Write3(in))
  BY <1>3, StageTable DEF Startup, LoadMode, IdleNop, BurstRead, BurstTerminate, Write1, Write2, Write3
<1> QED  BY <1>1, <1>5, <1>6, <1>7, <1>8, <1>9, <1>10 DEF ControllerState

LEMMA BurstKept ==
  ASSUME NEW in, SDRAMClock(in), in.burst = burst_old
  PROVE  burst_old' = burst_old
BY DEF SDRAMClock, ControllerState, Startup, LoadMode, Activate, IdleNop, IdleWait, OpenIn2, OpenIn1,
   Read1, BurstRead, BurstTerminate, ReadTail, Write1, Write2, Write3, Precharge

\* The word of the refresh goes on its way while the arbiter cools down.
LEMMA CoolingStep ==
  ASSUME CardInv, RangeInv, Warming, EnableRules, BurstRules, RefreshOut, Clock, arb = "REFRESH_END",
         ~NoReadsOut
  PROVE  /\ refresh.cool <= Stage[state] /\ state \in DOMAIN Stage
         /\ state = "idle_in_4" => NoReadsOut'
         /\ state # "idle_in_4" => InTransit' /\ Stage[state'] = Stage[state] + 1
<1> DEFINE in == Port(sdram_reset)
<1>0. /\ SDRAMClock(in) /\ (Accepts(in) <=> ready_for_new /\ ram_enable) /\ in.burst = ram_burst_size
      /\ in \in ClientInputs /\ (in.reset <=> sdram_reset)
  BY EdgeFacts
<1> HIDE DEF in
<1>1. ~sdram_reset /\ ~ram_enable  BY DEF Warming, FetchStates, EnableRules
<1>2. burst_old = ram_burst_size /\ InTransit /\ refresh.cool <= Stage[state]
  BY DEF RefreshOut
<1>3. burst_old # 7  BY <1>2 DEF BurstRules, FetchStates
<1> QED  BY <1>0, <1>1, <1>2, <1>3, TravelStep DEF CardInv, InTransit

LEMMA RefreshOutStep ==
  ASSUME CardInv, RangeInv, Warming, EnableRules, BurstRules, JobsAtZero, Free, RefreshAsked,
         RefreshOut, Clock
  PROVE  RefreshOut'
<1> DEFINE in == Port(sdram_reset)
<1>0. /\ SDRAMClock(in) /\ (Accepts(in) <=> ready_for_new /\ ram_enable) /\ in.burst = ram_burst_size
      /\ in \in ClientInputs /\ (in.reset <=> sdram_reset) /\ in.wr = ram_write
  BY EdgeFacts
<1> HIDE DEF in
<1> SUFFICES ASSUME arb' = "REFRESH_END"
             PROVE  /\ burst_old' = ram_burst_size'
                    /\ NoReadsOut' \/ (InTransit' /\ refresh'.cool <= Stage[state'])
  BY DEF RefreshOut
<1>1. PICK p \in {BlitterStarted, blit} : ArbiterStep(p)  BY DEF Clock
<1>2. refresh \in RefreshRecords  BY DEF CardInv, CardTyped, JobsTyped
<1>3. CASE Refresh
  <2>1. arb = "REFRESH" /\ refresh' = refresh /\ ram_burst_size' = ram_burst_size
    BY <1>3 DEF Refresh, At, Enable, SetPort
  <2>2. /\ state = "idle" /\ burst_old = ram_burst_size /\ ~got_transaction /\ refresh.cool = 0
        /\ ~sdram_reset /\ ~ram_write /\ NoReadsOut
    BY <2>1 DEF RefreshAsked, JobsAtZero, Warming, FetchStates, EnableRules, Free, FreeStates
  <2>3. burst_old' = ram_burst_size'  BY <1>0, <2>1, <2>2, BurstKept
  <2>4. CASE ~Accepts(in)
    BY <1>0, <2>3, <2>4, <2>2, NoReadsStep
  <2>5. CASE Accepts(in)
    <3>1. got_transaction' /\ ~save'.wr
      BY <1>0, <2>2, <2>5, QueueStep DEF CardInv
    <3>2. ControllerState(in)  BY <1>0 DEF SDRAMClock
    <3>3. IdleNop(in)
      BY <1>0, <2>2, <3>2 DEF ControllerState, Startup, IdleWait, AfterWait, LoadMode, Activate,
         OpenIn2, OpenIn1, Read1, BurstRead, BurstTerminate, ReadTail, AfterRead, Write1, Write2,
         Write3, Precharge
    <3>4. state' = "idle" /\ DelayLine(FALSE)
      BY <1>0, <2>2, <3>3 DEF IdleNop, Keep, Goto
    <3>5. data_ready_delay' = {} /\ ~data_out_ready'
      BY <2>2, <3>4 DEF DelayLine, NoReadsOut
    <3>6. InTransit'  BY <3>1, <3>4, <3>5, StageTable DEF InTransit
    <3> QED  BY <2>1, <2>2, <2>3, <3>4, <3>6, StageTable
  <2> QED  BY <2>4, <2>5
<1>4. CASE RefreshEnd
  <2>1. /\ arb = "REFRESH_END" /\ refresh' = [refresh EXCEPT !.cool = refresh.cool + 1]
        /\ ram_burst_size' = ram_burst_size
    BY <1>4 DEF RefreshEnd, At, To, portVars
  <2>2. refresh'.cool = refresh.cool + 1  BY <1>2, <2>1 DEF RefreshRecords
  <2>3. burst_old = ram_burst_size /\ ~ram_enable  BY <2>1 DEF RefreshOut, EnableRules
  <2>4. burst_old' = ram_burst_size'  BY <1>0, <2>1, <2>3, BurstKept
  <2>5. CASE NoReadsOut
    BY <2>3, <2>4, <2>5, QuietEdge
  <2>6. CASE ~NoReadsOut
    <3>1. /\ refresh.cool <= Stage[state] /\ state \in DOMAIN Stage
          /\ state = "idle_in_4" => NoReadsOut'
          /\ state # "idle_in_4" => InTransit' /\ Stage[state'] = Stage[state] + 1
      BY <2>1, <2>6, CoolingStep
    <3>2. refresh.cool \in Int  BY <1>2 DEF RefreshRecords
    <3>3. Stage[state] \in Int  BY <3>1, StageTable
    <3>4. state # "idle_in_4" => refresh'.cool <= Stage[state']
      BY <2>2, <3>1, <3>2, <3>3
    <3> QED  BY <2>4, <3>1, <3>4
  <2> QED  BY <2>5, <2>6
<1> QED  BY <1>1, <1>3, <1>4, ArrivesServing

LEMMA RefreshLeaves ==
  ASSUME CardInv, RangeInv, WaitsSuffice, Warming, EnableRules, BurstRules, RefreshOut, Clock,
         RefreshEnd, arb' = "ROW_FETCHED"
  PROVE  NoReadsOut'
<1>1. arb = "REFRESH_END" /\ refresh.cool >= refresh_cool_max
  BY DEF RefreshEnd, At
<1>2. ~ram_enable  BY <1>1 DEF EnableRules
<1>3. CASE NoReadsOut
  BY <1>2, <1>3, QuietEdge
<1>4. CASE ~NoReadsOut
  <2>1. /\ refresh.cool <= Stage[state] /\ state \in DOMAIN Stage
        /\ state = "idle_in_4" => NoReadsOut'
    BY <1>1, <1>4, CoolingStep
  <2>2. refresh.cool \in Int /\ refresh_cool_max \in Nat
    BY CountersAssumption DEF CardInv, CardTyped, JobsTyped, RefreshRecords
  <2>3. Stage[state] >= 8  BY <1>1, <2>1, <2>2, StageTable DEF WaitsSuffice
  <2>4. state = "idle_in_4"  BY <2>1, <2>3, StageTable
  <2> QED  BY <2>1, <2>4
<1> QED  BY <1>3, <1>4

LEMMA FreeStep ==
  ASSUME CardInv, RangeInv, WaitsSuffice, StartupQuiet, ReadPlaces, Warming, EnableRules, BurstRules,
         BurstOver, ReadyHeld, Free, AfterFetch, HostRead, CopyCount, RefreshOut, FetchPort,
         FetchPhases, Clock, CardInv', ReadPlaces', BurstOver'
  PROVE  Free'
<1> SUFFICES ASSUME arb' \in FreeStates \/ (arb' \in {"READY", "READY2"} /\ ~row_fetched')
             PROVE  NoReadsOut'
  BY DEF Free, FetchOpens
<1>1. PICK p \in {BlitterStarted, blit} : ArbiterStep(p)  BY DEF Clock
<1>2. CASE arb \in FreeStates \ {"REFRESH"} \/ FetchOpens
  BY <1>2, FreeStays
<1>3. CASE FetchDone /\ queue_empty
  <2>1. ~ram_enable /\ ~got_transaction /\ Resting
    BY <1>3 DEF FetchDone, At, AfterFetch
  <2>2. NoReadsOut
    BY <1>3, <2>1 DEF RangeInv, QueueTold, NoReadsOut, ReadStates, Resting, ClosedStates
  <2> QED  BY <2>1, <2>2, QuietEdge
<1>4. CASE CopyRead /\ CopyBufferFilled
  <2>1. ~ram_enable /\ Outstanding = 0  BY <1>4, CopyFinishes
  <2>2. arb = "BLIT_COPY_READ"  BY <1>4 DEF CopyBufferFilled, At
  <2>3. state # "burst_read"
    <3>1. state = "burst_read" => burst_old = 7  BY DEF CardInv, AnswerInv, BurstRuns
    <3> QED  BY <2>2, <3>1 DEF BurstOver, FetchStates, Resting, ClosedStates
  <2>4. NoReadsOut  BY <2>1, <2>3, NoneOutstanding DEF CardInv, SafeInv
  <2> QED  BY <2>1, <2>4, QuietEdge
<1>5. CASE RefreshEnd /\ arb' = "ROW_FETCHED"
  BY <1>5, RefreshLeaves
<1>6. CASE ReadingZorro /\ arb' = "ROW_FETCHED"
  <2>1. arb = "READING_ZORRO" /\ data_out_ready  BY <1>6 DEF ReadingZorro, At
  <2>2. Outstanding' = 0  BY <2>1, HostReadEnds
  <2> QED  BY <1>6, <2>1, <2>2, NoneLeft DEF FetchStates
<1> QED  BY <1>1, <1>2, <1>3, <1>4, <1>5, <1>6, ArrivesQuiet

-----------------------------------------------------------------------------
(* Power-up, and the startup of the controller.                            *)

LEMMA StartsQuietly ==
  ASSUME CardInv, StartupQuiet, ReadPlaces, Clock
  PROVE  StartupQuiet' /\ ReadPlaces'
<1> DEFINE in == Port(sdram_reset)
<1>0. /\ SDRAMClock(in) /\ in \in ClientInputs /\ (in.reset <=> sdram_reset)
      /\ (Accepts(in) <=> ready_for_new /\ ram_enable)
  BY EdgeFacts
<1> HIDE DEF in
<1>1. in.reset => Settled /\ ~Accepts(in)  BY <1>0 DEF CardInv, PowerUp
<1>2. StartupQuiet'  BY <1>0, <1>1, StartupQuietStep DEF CardInv
<1>3. CASE in.reset
  <2>1. Settled'  BY <1>0, <1>1, <1>3, SettledStays
  <2> QED  BY <1>2, <2>1 DEF Settled, ClosedStates, ReadPlaces
<1>4. CASE ~in.reset
  BY <1>0, <1>2, <1>4, ReadPlacesStep DEF CardInv
<1> QED  BY <1>3, <1>4

\* The Amiga's reset line apart, the Zorro machine is in RESET once, and
\* asserts sdram_reset there.
LEMMA ResetOnce ==
  ASSUME CardInv, RangeInv, Clock, zorro' \in {"COLD", "RESET"} \/ sdram_reset'
  PROVE  zorro \in {"COLD", "RESET"} \/ sdram_reset
<1>1. ZorroStep /\ ~znrst  BY DEF Clock, CardInv, PowerUp
<1>2. CASE Z3Idle
  <2>1. bus.op.kind \in {"read", "write", "reg"}
    BY DEF CardInv, CardTyped, RequestsTyped, HostRecords
  <2>2. FirstState[bus.op.kind] \in {"Z3_READ_UPPER", "Z3_WRITE_PRE", "Z3_REGWRITE"}
    BY <2>1 DEF FirstState
  <2> QED  BY <1>2, <2>2 DEF Z3Idle, ZAt, ZTo
<1>3. CASE ~Z3Idle
  BY <1>1, <1>3 DEF ZorroStep, ZAt, ZTo, Forced, Cold, EnterReset, InReset, Configuring,
     Configured, ConfiguredClear, EnterResetDvid, ResetDvid, ReadUpper, ReadLower, ReadDelay1,
     ReadDelay2, WritePre, WriteUpper, WriteLower, WriteFinalize, EndCycle, RegWrite
<1> QED  BY <1>2, <1>3

LEMMA FetchingActions ==
  ASSUME NEW p, ArbiterStep(p), arb \in FetchStates
  PROVE  /\ arb = "READY" => Ready
         /\ arb = "READY2" => FetchNext \/ FetchDone
         /\ arb = "BURST_ON" => BurstOn
         /\ arb = "FETCHING_ROW" => FetchingRow
<1>1. CASE Ready \/ FetchNext \/ FetchDone \/ BurstOn \/ FetchingRow
  BY <1>1 DEF Ready, FetchNext, FetchDone, BurstOn, FetchingRow, At
<1>2. CASE ~(Ready \/ FetchNext \/ FetchDone \/ BurstOn \/ FetchingRow)
  BY <1>2 DEF ArbiterStep, FetchStates, At, Grants, FillGranted, BurstOff, NobodyServed,
     GrantFetch, GrantWrite, GrantRead, FillPixel, FillRow, FillEnd, GrantCopyRead,
     GrantCopyWrite, CaptureWord, CaptureEnd, GrantRefresh, RefreshPre, Refresh, RefreshEnd,
     WriteEnd1, WriteEnd, CopyRead1, CopyRead, CopyWrite, CopyWriteWaits, ReadingZorroPre,
     ReadingZorro, WritingZorroPre, WritingZorro
<1> QED  BY <1>1, <1>2

LEMMA WarmingStep ==
  ASSUME CardInv, RangeInv, Warming, FetchPort, FetchPhases, Clock
  PROVE  Warming'
<1> SUFFICES ASSUME zorro' \in {"COLD", "RESET"} \/ sdram_reset'
             PROVE  ~dq_hiz' /\ ~row_fetched' /\ arb' \in FetchStates
  BY DEF Warming
<1>1. zorro \in {"COLD", "RESET"} \/ sdram_reset  BY ResetOnce
<1>2. Settled /\ ~dq_hiz /\ ~row_fetched /\ arb \in FetchStates
  BY <1>1 DEF CardInv, PowerUp, Warming
<1>3. ~dq_hiz'
  <2>1. ControllerState(Port(sdram_reset))  BY DEF Clock, SDRAMClock
  <2>2. dq_hiz' = dq_hiz
    BY <1>2, <2>1 DEF ControllerState, Settled, ClosedStates, Startup, IdleWait, LoadMode, Activate,
       IdleNop, OpenIn2, OpenIn1, Read1, BurstRead, BurstTerminate, ReadTail, AfterRead, Write1,
       Write2, Write3, Precharge
  <2> QED  BY <1>2, <2>2
<1>4. PICK p \in {BlitterStarted, blit} : ArbiterStep(p)  BY DEF Clock
<1>5. CASE arb = "FETCHING_ROW"
  <2>1. FetchingRow  BY <1>2, <1>4, <1>5, FetchingActions
  <2>2. FetchAsked \/ FetchQueued \/ FetchStarts \/ FetchFills \/ FetchFlows \/ FetchEnds
    BY <1>5 DEF FetchPhases
  <2>3. FetchAsked
    BY <1>2, <2>2 DEF Settled, ClosedStates, FetchQueued, FetchStarts, FetchFills, FetchFlows,
       FetchEnds
  <2>4. ~data_out_ready  BY <2>3 DEF FetchAsked, NoReadsOut
  <2>5. arb' = arb /\ row_fetched' = row_fetched  BY <2>1, <2>4 DEF FetchingRow
  <2> QED  BY <1>2, <1>3, <2>5
<1>6. CASE arb \in {"READY", "READY2", "BURST_ON"}
  <2>1. Ready \/ FetchNext \/ BurstOn
    <3>1. ~FetchDone  BY <1>2 DEF FetchDone
    <3> QED  BY <1>2, <1>4, <1>6, <3>1, FetchingActions
  <2>2. row_fetched' = row_fetched
    BY <2>1 DEF Ready, FetchNext, BurstOn, fetchVars
  <2>3. arb' \in FetchStates
    BY <2>1 DEF Ready, FetchNext, BurstOn, At, To, FetchStates
  <2> QED  BY <1>2, <1>3, <2>2, <2>3
<1> QED  BY <1>2, <1>5, <1>6 DEF FetchStates

-----------------------------------------------------------------------------
(* Addresses along a line.                                                 *)

LEMMA Split ==
  ASSUME NEW n \in Nat \ {0}, NEW a \in Int
  PROVE  a \div n \in Int /\ a % n \in 0 .. n - 1 /\ a = n * (a \div n) + (a % n)
OBVIOUS

LEMMA Remainder ==
  ASSUME NEW n \in Nat \ {0}, NEW q \in Int, NEW r \in 0 .. n - 1
  PROVE  (n * q + r) % n = r
OBVIOUS

LEMMA AddrFacts ==
  ASSUME NEW a \in Int
  PROVE  /\ Addr(a) \in Addresses
         /\ a \in Addresses => Addr(a) = a
         /\ Addr(Addr(a) + 1) = Addr(a + 1)
         /\ Addr(Addr(a)) = Addr(a)
<1>1. Size \in Nat \ {0}  BY GeometryAssumption DEF Size, NCols
<1>2. Addr(a) \in Addresses  BY AddrInRange
<1>3. a \in Addresses => Addr(a) = a  BY <1>1 DEF Addresses, Addr
<1>4. ((a % Size) + 1) % Size = (a + 1) % Size
  <2> DEFINE q == a \div Size
             r == a % Size
  <2>1. q \in Int /\ r \in 0 .. Size - 1 /\ a = Size * q + r  BY <1>1, Split
  <2> HIDE DEF q, r
  <2>2. CASE r + 1 < Size
    <3>1. a + 1 = Size * q + (r + 1) /\ r + 1 \in 0 .. Size - 1  BY <1>1, <2>1, <2>2
    <3>2. (a + 1) % Size = r + 1  BY <1>1, <2>1, <3>1, Remainder
    <3>3. (r + 1) % Size = r + 1  BY <1>1, <3>1
    <3> QED  BY <3>2, <3>3 DEF r
  <2>3. CASE r + 1 = Size
    <3>1. a + 1 = Size * (q + 1) + 0 /\ q + 1 \in Int  BY <1>1, <2>1, <2>3
    <3>2. 0 \in 0 .. Size - 1  BY <1>1
    <3>4. (Size * (q + 1) + 0) % Size = 0  BY <1>1, <3>1, <3>2, Remainder
    <3>3. (r + 1) % Size = 0  BY <1>1, <2>3
    <3> QED  BY <3>1, <3>3, <3>4 DEF r
  <2> QED  BY <1>1, <2>1, <2>2, <2>3
<1>5. Addr(Addr(a)) = Addr(a)  BY <1>1, <1>2 DEF Addresses, Addr
<1> QED  BY <1>2, <1>3, <1>4, <1>5 DEF Addr

\* The column of an address, and of the addresses after it in its row.
LEMMA ColumnFacts ==
  ASSUME NEW a \in Int
  PROVE  /\ CellAt(a)[3] = a % NCols /\ CellAt(a)[3] \in 0 .. LastCol
         /\ CellAt(Addr(a)) = CellAt(a)
         /\ \A i \in Nat : CellAt(a)[3] + i <= LastCol => CellAt(a + i)[3] = CellAt(a)[3] + i
<1>1. /\ NCols \in Nat \ {0} /\ Size \in Nat \ {0} /\ NBanks * NRows \in Nat \ {0}
      /\ NCols = LastCol + 1 /\ LastCol \in Nat
  BY GeometryAssumption DEF Size, NCols
<1>2. \A b \in Int : CellAt(b)[3] = b % NCols  BY DEF CellAt
<1>3. a % NCols \in 0 .. LastCol  BY <1>1
<1>4. Addr(a) % NCols = a % NCols
  <2> DEFINE q == a \div Size
             m == NBanks * NRows
             k == Addr(a) \div NCols
             r == Addr(a) % NCols
  <2>1. q \in Int /\ Addr(a) \in Int /\ a = Size * q + Addr(a)  BY <1>1 DEF Addr
  <2>2. m \in Nat /\ Size = NCols * m  BY <1>1 DEF Size
  <2>3. k \in Int /\ r \in 0 .. NCols - 1 /\ Addr(a) = NCols * k + r  BY <1>1, <2>1, Split
  <2> HIDE DEF q, m, k, r
  <2>4. a = NCols * (m * q + k) + r /\ m * q + k \in Int
    <3>1. m * q \in Int /\ Size * q = NCols * (m * q)  BY <1>1, <2>1, <2>2
    <3>2. NCols * (m * q) + NCols * k = NCols * (m * q + k)  BY <1>1, <2>3, <3>1
    <3> QED  BY <1>1, <2>1, <2>3, <3>1, <3>2
  <2>5. a % NCols = r  BY <1>1, <2>3, <2>4, Remainder
  <2> QED  BY <2>5 DEF r
<1>5. CellAt(Addr(a)) = CellAt(a)  BY <1>4, AddrFacts DEF CellAt
<1>6. ASSUME NEW i \in Nat, (a % NCols) + i <= LastCol  PROVE (a + i) % NCols = (a % NCols) + i
  <2> DEFINE q == a \div NCols
             r == a % NCols
  <2>1. q \in Int /\ r \in 0 .. NCols - 1 /\ a = NCols * q + r  BY <1>1, Split
  <2>2. r + i \in 0 .. NCols - 1 /\ a + i = NCols * q + (r + i)  BY <1>1, <1>6, <2>1
  <2> HIDE DEF q, r
  <2>3. (NCols * q + (r + i)) % NCols = r + i  BY <1>1, <2>1, <2>2, Remainder
  <2> QED  BY <2>2, <2>3 DEF r
<1> QED  BY <1>2, <1>3, <1>5, <1>6

(* The rows of the picture lie in the chip so that a line never wraps from *)
(* the end of a row of the chip to its beginning: with 512 words a line    *)
(* and a picture that starts at a row every line is a row of the chip.     *)
LinesInRows ==
  \A base \in {0, CaptureBase}, y \in 0 .. Lines : ((base + y * FETCHW) % NCols) + FETCHW <= NCols

\* The line under way fits its row, and its counter starts from zero.
LineAt ==
  /\ arb \in {"READY2", "BURST_ON", "FETCHING_ROW"} => FetchCell[3] + FETCHW <= NCols
  /\ arb = "BURST_ON" => fetch_x = 0
  /\ pan_ptr \in {0, CaptureBase}

LEMMA LineAtStep ==
  ASSUME LinesInRows, margin_x = 0, CardInv, RangeInv, LineAt, Clock
  PROVE  LineAt'
<1>1. PICK p \in {BlitterStarted, blit} : ArbiterStep(p)  BY DEF Clock
<1>2. pan_ptr' \in {0, CaptureBase}  BY DEF Clock, Registers, LineAt
<1>3. ASSUME arb' \in {"READY2", "BURST_ON", "FETCHING_ROW"}  PROVE FetchCell'[3] + FETCHW <= NCols
  <2>1. CASE Ready
    <3>1. fetch_y' = Addr(pan_ptr + fetch_line_y * FETCHW)  BY <2>1 DEF Ready
    <3>2. /\ pan_ptr \in {0, CaptureBase} /\ fetch_line_y \in 0 .. Lines
          /\ CaptureBase \in Nat /\ FETCHW \in Nat /\ Lines \in Nat
      BY SizesAssumption, HostAssumption DEF LineAt, RangeInv, HostTyped
    <3>3. pan_ptr + fetch_line_y * FETCHW \in Int  BY <3>2
    <3>4. FetchCell' = CellAt(pan_ptr + fetch_line_y * FETCHW)
      BY <3>1, <3>3, ColumnFacts DEF FetchCell
    <3>5. FetchCell'[3] = (pan_ptr + fetch_line_y * FETCHW) % NCols
      BY <3>3, <3>4, ColumnFacts
    <3> QED  BY <3>2, <3>5 DEF LinesInRows
  <2>2. CASE FetchNext \/ FetchDone \/ BurstOn \/ FetchingRow
    <3>1. fetch_y' = fetch_y /\ arb \in {"READY2", "BURST_ON", "FETCHING_ROW"}
      BY <2>2 DEF FetchNext, FetchDone, BurstOn, FetchingRow, fetchVars, At
    <3> QED  BY <3>1 DEF LineAt, FetchCell
  <2> QED  BY <1>1, <1>3, <2>1, <2>2, ArrivesFetching
<1>4. ASSUME arb' = "BURST_ON"  PROVE fetch_x' = 0
  <2>1. CASE FetchNext
    <3>1. fetch_x' = -margin_x /\ margin_x = 0  BY <2>1 DEF FetchNext
    <3>2. margin_x \in Int  BY <3>1
    <3>3. fetch_x' + margin_x = 0 /\ fetch_x' \in Int  BY <3>1, <3>2
    <3>4. \A m, x \in Int : x + m = 0 /\ m = 0 => x = 0  OBVIOUS
    <3> QED  BY <3>2, <3>3, <3>4, Zenon
  <2>2. CASE BurstOn
    BY <2>2 DEF BurstOn, At, fetchVars, LineAt
  <2> QED  BY <1>1, <1>4, <2>1, <2>2, ArrivesFetching
<1> QED  BY <1>2, <1>3, <1>4 DEF LineAt

-----------------------------------------------------------------------------
(* The line fetch.                                                         *)

LEMMA FetchPortStep ==
  ASSUME margin_x = 0, CardInv, RangeInv, EnableRules, FetchPort, LineAt, Clock
  PROVE  FetchPort'
<1> SUFFICES ASSUME arb' = "FETCHING_ROW"
             PROVE  /\ fetch_x' \in 0 .. FETCHW + 1
                    /\ ram_addr' = Addr(fetch_y' + fetch_x')
                    /\ ram_enable' <=> fetch_x' <= FETCHW
  BY DEF FetchPort
<1>1. PICK p \in {BlitterStarted, blit} : ArbiterStep(p)  BY DEF Clock
<1>2. FETCHW \in Nat /\ fetch_y \in Addresses /\ fetch_y \in Int
  BY SizesAssumption, GeometryAssumption DEF RangeInv, AddressesTyped, Addresses, Size, NCols
<1>3. CASE BurstOn
  <2>1. arb = "BURST_ON" /\ fetch_x = 0  BY <1>3 DEF BurstOn, At, LineAt
  <2>2. cmd_ready  BY <1>3, <2>1 DEF BurstOn
  <2>3. ram_enable' = TRUE /\ ram_addr' = fetch_y /\ fetch_y' = fetch_y /\ fetch_x' = 0
    BY <1>3, <2>1, <2>2 DEF BurstOn, ReadAt, SetPort, fetchVars
  <2>4. Addr(fetch_y + 0) = fetch_y  BY <1>2, AddrFacts
  <2> QED  BY <1>2, <2>3, <2>4
<1>4. CASE FetchingRow
  <2>1. /\ arb = "FETCHING_ROW" /\ fetch_y' = fetch_y /\ fetch_x \in 0 .. FETCHW + 1
        /\ ram_addr = Addr(fetch_y + fetch_x) /\ (ram_enable <=> fetch_x <= FETCHW)
    BY <1>4 DEF FetchingRow, At, FetchPort
  <2>2. CASE ~data_out_ready
    <3>1. ram_addr' = ram_addr /\ ram_enable' = ram_enable /\ fetch_x' = fetch_x
      BY <1>4, <2>2 DEF FetchingRow, portVars
    <3> QED  BY <2>1, <3>1
  <2>3. CASE data_out_ready
    <3>1. /\ ram_addr' = Addr(ram_addr + 1) /\ fetch_x' = fetch_x + 1
          /\ ram_enable' = (ram_enable /\ ~(Unsigned(fetch_x) > FETCHW - 1))
          /\ ~(Unsigned(fetch_x) > FETCHW)
      <4>1. /\ ram_addr' = Addr(ram_addr + 1) /\ fetch_x' = fetch_x + 1
            /\ ram_enable' = (ram_enable /\ ~(Unsigned(fetch_x) > FETCHW - 1))
            /\ arb' = IF Unsigned(fetch_x) > FETCHW THEN "READY" ELSE arb
        BY <1>4, <2>3 DEF FetchingRow, SetPort
      <4> QED  BY <4>1
    <3>2. Unsigned(fetch_x) = fetch_x  BY <2>1, CountsWords
    <3>3. fetch_x <= FETCHW  BY <1>2, <2>1, <3>1, <3>2
    <3>4. ram_enable' <=> fetch_x' <= FETCHW
      <4>1. ram_enable  BY <2>1, <3>3
      <4>2. ram_enable' = ~(fetch_x > FETCHW - 1)  BY <3>1, <3>2, <4>1
      <4>3. CASE fetch_x > FETCHW - 1
        <5>1. ~ram_enable'  BY <4>2, <4>3
        <5>2. ~(fetch_x' <= FETCHW)  BY <1>2, <2>1, <3>1, <4>3
        <5> QED  BY <5>1, <5>2
      <4>4. CASE ~(fetch_x > FETCHW - 1)
        <5>1. ram_enable'  BY <4>2, <4>4
        <5>2. fetch_x' <= FETCHW  BY <1>2, <2>1, <3>1, <4>4
        <5> QED  BY <5>1, <5>2
      <4> QED  BY <4>3, <4>4
    <3>5. Addr(Addr(fetch_y + fetch_x) + 1) = Addr((fetch_y + fetch_x) + 1)
      BY <1>2, <2>1, AddrFacts
    <3>6. (fetch_y + fetch_x) + 1 = fetch_y + (fetch_x + 1)  BY <1>2, <2>1
    <3>7. ram_addr' = Addr(fetch_y' + fetch_x')  BY <2>1, <3>1, <3>5, <3>6
    <3> QED  BY <1>2, <2>1, <3>1, <3>3, <3>4, <3>7
  <2> QED  BY <2>2, <2>3
<1> QED  BY <1>1, <1>3, <1>4, ArrivesFetching

\* A read that is held while no read is under way keeps its place until its row is open.
LEMMA HeldReadStep ==
  ASSUME SafeInv, NEW in \in ClientInputs, ~in.reset, SDRAMClock(in), got_transaction,
         ~ready_for_new, ~save.wr, state \notin ReadStates \cup {"startup"}
  PROVE  /\ save' = save
         /\ state = "open_in_1" =>
              state' = "read_1" /\ ready_for_new' /\ ~got_transaction' /\ burst_old' = burst_old
         /\ state # "open_in_1" =>
              got_transaction' /\ ~ready_for_new' /\ state' \notin ReadStates \cup {"startup"}
         /\ state' = "open_in_2" => burst_old' = in.burst
         /\ state' = "open_in_1" => state = "open_in_2" /\ burst_old' = burst_old
<1>1. ControllerState(in) /\ ~Accepts(in)  BY DEF SDRAMClock, Accepts
<1>2. save' = save  BY <1>1 DEF SDRAMClock, Latch
<1>3. CASE LoadMode(in) \/ Activate(in) \/ IdleNop(in) \/ OpenIn2(in) \/ OpenIn1(in)
  BY <1>1, <1>2, <1>3 DEF LoadMode, Activate, IdleNop, OpenIn2, OpenIn1, Keep, Reopen, Goto, ReadStates
<1>4. CASE IdleWait(in)
  BY <1>1, <1>2, <1>4, StateTable DEF IdleWait, Keep, Goto, ReadStates
<1>5. CASE Write1(in) \/ Write2(in) \/ Write3(in) \/ Precharge(in)
  BY <1>1, <1>2, <1>5 DEF Write1, Write2, Write3, Precharge, Follows, Keep, Reopen, Goto, ReadStates
<1>6. ~(Startup(in) \/ Read1(in) \/ BurstRead(in) \/ BurstTerminate(in) \/ ReadTail(in))
  BY StateTable DEF Startup, Read1, BurstRead, BurstTerminate, ReadTail, ReadStates
<1> QED  BY <1>1, <1>3, <1>4, <1>5, <1>6 DEF ControllerState

\* The delay line fills, an edge a place, while the burst runs.
LEMMA BurstFills ==
  ASSUME NEW in, NEW issue \in BOOLEAN, DelayLine(issue)
  PROVE  /\ ~issue /\ data_ready_delay = {} => data_ready_delay' = {} /\ ~data_out_ready'
         /\ issue /\ data_ready_delay = {} => data_ready_delay' = {3} /\ ~data_out_ready'
         /\ issue /\ data_ready_delay = {3} => data_ready_delay' = {2, 3} /\ ~data_out_ready'
         /\ issue /\ data_ready_delay = {2, 3} => data_ready_delay' = {1, 2, 3} /\ ~data_out_ready'
         /\ issue /\ data_ready_delay = {1, 2, 3} => data_ready_delay' = 0 .. 3 /\ ~data_out_ready'
         /\ issue /\ data_ready_delay = 0 .. 3 => data_ready_delay' = 0 .. 3 /\ data_out_ready'
         /\ data_ready_delay = 0 .. 3 => data_out_ready'
<1>1. /\ data_ready_delay' = {i - 1 : i \in data_ready_delay \ {0}} \cup (IF issue THEN {3} ELSE {})
      /\ data_out_ready' = (0 \in data_ready_delay)
  BY DEF DelayLine
<1>2. data_ready_delay = {} => {i - 1 : i \in data_ready_delay \ {0}} = {}  OBVIOUS
<1>3. data_ready_delay = {3} => {i - 1 : i \in data_ready_delay \ {0}} = {2}  OBVIOUS
<1>4. data_ready_delay = {2, 3} => {i - 1 : i \in data_ready_delay \ {0}} = {1, 2}  OBVIOUS
<1>5. data_ready_delay = {1, 2, 3} => {i - 1 : i \in data_ready_delay \ {0}} = {0, 1, 2}  OBVIOUS
<1>6. data_ready_delay = 0 .. 3 => {i - 1 : i \in data_ready_delay \ {0}} = {0, 1, 2}  OBVIOUS
<1>7. 0 .. 3 = {0, 1, 2, 3}  OBVIOUS
<1>8. {0, 1, 2} \cup {3} = {0, 1, 2, 3} /\ {1, 2} \cup {3} = {1, 2, 3} /\ {2} \cup {3} = {2, 3}
  OBVIOUS
<1>9. /\ ~issue /\ data_ready_delay = {} => data_ready_delay' = {}
      /\ issue /\ data_ready_delay = {} => data_ready_delay' = {3}
  BY <1>1, <1>2
<1>10. issue /\ data_ready_delay = {3} => data_ready_delay' = {2, 3}  BY <1>1, <1>3, <1>8
<1>11. issue /\ data_ready_delay = {2, 3} => data_ready_delay' = {1, 2, 3}  BY <1>1, <1>4, <1>8
<1>12. issue /\ data_ready_delay = {1, 2, 3} => data_ready_delay' = 0 .. 3
  <2>1. ASSUME issue, data_ready_delay = {1, 2, 3}
        PROVE  data_ready_delay' = {0, 1, 2} \cup {3}
    BY <1>1, <1>5, <2>1
  <2> QED  BY <1>7, <1>8, <2>1
<1>13. issue /\ data_ready_delay = 0 .. 3 => data_ready_delay' = 0 .. 3
  BY <1>1, <1>6, <1>7, <1>8
<1>14. 0 \notin {} /\ 0 \notin {3} /\ 0 \notin {2, 3} /\ 0 \notin {1, 2, 3} /\ 0 \in 0 .. 3
  OBVIOUS
<1>15. data_out_ready' <=> 0 \in data_ready_delay  BY <1>1
<1>16. data_ready_delay \in {{}, {3}, {2, 3}, {1, 2, 3}} => ~data_out_ready'
  BY <1>14, <1>15
<1>17. data_ready_delay = 0 .. 3 => data_out_ready'  BY <1>14, <1>15
<1> QED  BY <1>9, <1>10, <1>11, <1>12, <1>13, <1>16, <1>17

LEMMA BurstRunsOn ==
  ASSUME FETCHW > 1, CardInv, RangeInv, BurstRules, LineAt, FetchPort, Clock,
         arb = "FETCHING_ROW", FetchFills \/ FetchFlows, fetch_x < FETCHW
  PROVE  /\ BurstRead(Port(sdram_reset)) /\ state' = "burst_read" /\ ready_for_new'
         /\ DelayLine(TRUE)
         /\ SavedCell' = CellAt(ram_addr) /\ ~sdram_reset
<1> DEFINE in == Port(sdram_reset)
<1>0. /\ SDRAMClock(in) /\ (Accepts(in) <=> ready_for_new /\ ram_enable) /\ in.enable = ram_enable
      /\ in.burst = ram_burst_size /\ (in.reset <=> sdram_reset) /\ in \in ClientInputs
      /\ <<in.bank, in.row, in.col>> = CellAt(ram_addr)
  BY EdgeFacts
<1> HIDE DEF in
<1>1. state = "burst_read" /\ ready_for_new  BY DEF FetchFills, FetchFlows
<1>2. ~sdram_reset  BY <1>1 DEF CardInv, PowerUp, Settled, ClosedStates
<1>3. /\ FETCHW \in Nat /\ fetch_x \in 0 .. FETCHW + 1 /\ LastCol \in Nat
      /\ NCols = LastCol + 1 /\ fetch_y \in Int
  BY SizesAssumption, GeometryAssumption
     DEF FetchPort, NCols, RangeInv, AddressesTyped, Addresses, Size
<1>4. ram_enable  BY <1>3 DEF FetchPort
<1>5. ram_burst_size = 7  BY DEF BurstRules
<1>6. FetchCell[3] \in 0 .. LastCol /\ FetchCell[3] + FETCHW <= LastCol + 1
  BY <1>3, ColumnFacts DEF FetchCell, LineAt
<1>7. save.col < LastCol
  <2>1. CASE FetchFills
    <3>1. SavedCell[3] = FetchCell[3]  BY <2>1 DEF FetchFills
    <3>2. save.col = FetchCell[3]  BY <3>1 DEF SavedCell
    <3> QED  BY <1>3, <1>6, <3>2
  <2>2. CASE FetchFlows
    <3>1. save.col = FetchCell[3] + fetch_x - 1  BY <1>3, <2>2 DEF FetchFlows
    <3> QED  BY <1>3, <1>6, <3>1
  <2> QED  BY <2>1, <2>2
<1>8. save.col # LastCol  BY <1>3, <1>7
<1>9. ~BurstEnds(in)  BY <1>0, <1>4, <1>5, <1>8 DEF BurstEnds
<1>10. BurstRead(in)
  BY <1>0, <1>1, <1>9 DEF SDRAMClock, ControllerState, Startup, IdleWait, LoadMode, Activate,
     IdleNop, OpenIn2, OpenIn1, Read1, BurstTerminate, ReadTail, Write1, Write2, Write3, Precharge,
     AfterWait, AfterRead
<1>11. state' = "burst_read" /\ ready_for_new' /\ DelayLine(TRUE)
  BY <1>0, <1>2, <1>10 DEF BurstRead, Goto
<1>12. SavedCell' = CellAt(ram_addr)
  BY <1>0, <1>1, <1>4, <1>2, QueueStep DEF SavedCell, CardInv
<1> QED  BY <1>2, <1>10, <1>11, <1>12 DEF in

\* The counter of the line follows the words that come back.
LEMMA FetchCounts ==
  ASSUME Clock, arb = "FETCHING_ROW"
  PROVE  /\ fetch_y' = fetch_y /\ FetchCell' = FetchCell
         /\ ~data_out_ready => fetch_x' = fetch_x
         /\ data_out_ready => fetch_x' = fetch_x + 1
         /\ FetchingRow
<1>1. PICK p \in {BlitterStarted, blit} : ArbiterStep(p)  BY DEF Clock
<1>2. FetchingRow  BY <1>1, FetchingActions DEF FetchStates
<1> QED  BY <1>2 DEF FetchingRow, FetchCell

LEMMA FetchAskedStep ==
  ASSUME CardInv, RangeInv, StartupQuiet, EnableRules, FetchPort, Clock, arb = "FETCHING_ROW",
         FetchAsked
  PROVE  FetchAsked' \/ FetchQueued'
<1> DEFINE in == Port(sdram_reset)
<1>0. /\ SDRAMClock(in) /\ (Accepts(in) <=> ready_for_new /\ ram_enable) /\ in.wr = ram_write
      /\ (in.reset <=> sdram_reset) /\ in \in ClientInputs
      /\ <<in.bank, in.row, in.col>> = CellAt(ram_addr)
  BY EdgeFacts
<1> HIDE DEF in
<1>1. ~data_out_ready /\ NoReadsOut /\ ~got_transaction /\ fetch_x = 0
  BY DEF FetchAsked, NoReadsOut
<1>2. fetch_x' = 0 /\ FetchCell' = FetchCell  BY <1>1, FetchCounts
<1>3. ControllerState(in)  BY <1>0 DEF SDRAMClock
<1>4. CASE ~Accepts(in)
  <2>1. NoReadsOut'  BY <1>0, <1>1, <1>4, NoReadsStep
  <2>2. CASE sdram_reset
    BY <1>0, <1>2, <1>4, <2>1, <2>2, SettledStays DEF CardInv, PowerUp, Settled, FetchAsked
  <2>3. CASE ~sdram_reset
    BY <1>0, <1>1, <1>2, <1>4, <2>1, <2>3, QueueStep DEF CardInv, FetchAsked
  <2> QED  BY <2>2, <2>3
<1>5. CASE Accepts(in)
  <2>1. ~sdram_reset /\ ready_for_new /\ ram_enable  BY <1>0, <1>5 DEF CardInv, PowerUp
  <2>2. state \notin ReadStates \cup {"startup", "open_in_2", "open_in_1"}
    BY <1>1, <2>1 DEF StartupQuiet, NoReadsOut, CardInv, SafeInv, Handshake
  <2>3. state \in States  BY DEF CardInv, SafeInv, TypeInv, TypeOK, ControllerTypeOK
  <2>4. got_transaction' /\ ~ready_for_new'
    BY <1>0, <1>5, <2>1, <2>2, QueueStep DEF CardInv, ReadStates
  <2>5. /\ save'.wr = in.wr /\ save'.bank = in.bank /\ save'.row = in.row /\ save'.col = in.col
    BY <1>0, <1>5, <2>1, QueueStep DEF CardInv
  <2>6. ~save'.wr  BY <1>0, <2>5 DEF EnableRules
  <2>7. SavedCell' = FetchCell'
    <3>1. fetch_y \in Addresses /\ fetch_y + 0 = fetch_y
      BY GeometryAssumption DEF RangeInv, AddressesTyped, Addresses, Size, NCols
    <3>2. fetch_y \in Int
      BY <3>1, GeometryAssumption DEF Addresses, Size, NCols
    <3>3. ram_addr = fetch_y  BY <1>1, <3>1, <3>2, AddrFacts DEF FetchPort
    <3> QED  BY <1>0, <1>2, <2>5, <3>3 DEF SavedCell, FetchCell
  <2>8. ~(Read1(in) \/ BurstRead(in))  BY <2>2 DEF Read1, BurstRead, ReadStates
  <2>9. DelayLine(FALSE)
    BY <1>3, <2>8 DEF ControllerState, Startup, IdleWait, LoadMode, Activate, IdleNop, OpenIn2,
       OpenIn1, BurstTerminate, ReadTail, Write1, Write2, Write3, Precharge
  <2>10. data_ready_delay' = {} /\ ~data_out_ready'
    BY <1>1, <2>9, BurstFills DEF NoReadsOut
  <2>11. state' \notin ReadStates \cup {"open_in_2", "open_in_1"}
    <3>1. CASE state \in WriteStates
      BY <1>0, <2>1, <2>2, <3>1, NextState DEF WriteStates, ReadStates
    <3>2. CASE state \notin WriteStates
      <4>1. Resting  BY <2>2, <2>3, <3>2 DEF Resting, ClosedStates, States, ReadStates, WriteStates
      <4>2. Resting'  BY <1>1, <1>3, <4>1, OpensFor
      <4> QED  BY <4>2 DEF Resting, ClosedStates, ReadStates
    <3> QED  BY <3>1, <3>2
  <2> QED  BY <1>2, <2>4, <2>6, <2>7, <2>10, <2>11 DEF FetchQueued, NothingBack
<1> QED  BY <1>4, <1>5

LEMMA FetchQueuedStep ==
  ASSUME CardInv, StartupQuiet, BurstRules, Clock, arb = "FETCHING_ROW", FetchQueued
  PROVE  FetchQueued' \/ FetchStarts'
<1> DEFINE in == Port(sdram_reset)
<1>0. /\ SDRAMClock(in) /\ in.burst = ram_burst_size /\ (in.reset <=> sdram_reset)
      /\ in \in ClientInputs
  BY EdgeFacts
<1> HIDE DEF in
<1>1. /\ got_transaction /\ ~ready_for_new /\ ~save.wr /\ SavedCell = FetchCell
      /\ fetch_x = 0 /\ ~data_out_ready /\ data_ready_delay = {} /\ state \notin ReadStates
      /\ state \in {"open_in_2", "open_in_1"} => burst_old = 7
  BY DEF FetchQueued, NothingBack
<1>2. ~sdram_reset  BY <1>1 DEF CardInv, PowerUp, Settled
<1>3. state # "startup"  BY <1>1 DEF StartupQuiet
<1>4. ControllerState(in)  BY <1>0 DEF SDRAMClock
<1>5. fetch_x' = 0 /\ FetchCell' = FetchCell  BY <1>1, FetchCounts
<1>6. ~(Read1(in) \/ BurstRead(in))  BY <1>1 DEF Read1, BurstRead, ReadStates
<1>7. DelayLine(FALSE)
  BY <1>4, <1>6 DEF ControllerState, Startup, IdleWait, LoadMode, Activate, IdleNop, OpenIn2,
     OpenIn1, BurstTerminate, ReadTail, Write1, Write2, Write3, Precharge
<1>8. data_ready_delay' = {} /\ ~data_out_ready'  BY <1>1, <1>7, BurstFills
<1>9. /\ save' = save
      /\ state = "open_in_1" =>
           state' = "read_1" /\ ready_for_new' /\ ~got_transaction' /\ burst_old' = burst_old
      /\ state # "open_in_1" =>
           got_transaction' /\ ~ready_for_new' /\ state' \notin ReadStates \cup {"startup"}
      /\ state' = "open_in_2" => burst_old' = in.burst
      /\ state' = "open_in_1" => state = "open_in_2" /\ burst_old' = burst_old
  BY <1>0, <1>1, <1>2, <1>3, HeldReadStep DEF CardInv
<1>10. SavedCell' = FetchCell'  BY <1>1, <1>5, <1>9 DEF SavedCell
<1>11. in.burst = 7  BY <1>0 DEF BurstRules
<1>12. CASE state = "open_in_1"
  BY <1>1, <1>5, <1>8, <1>9, <1>10, <1>12 DEF FetchStarts, NothingBack
<1>13. CASE state # "open_in_1"
  BY <1>1, <1>5, <1>8, <1>9, <1>10, <1>11, <1>13 DEF FetchQueued, NothingBack
<1> QED  BY <1>12, <1>13

LEMMA FetchStartsStep ==
  ASSUME CardInv, RangeInv, FetchPort, Clock, arb = "FETCHING_ROW", FetchStarts
  PROVE  FetchFills'
<1> DEFINE in == Port(sdram_reset)
<1>0. /\ SDRAMClock(in) /\ (Accepts(in) <=> ready_for_new /\ ram_enable)
      /\ (in.reset <=> sdram_reset) /\ in \in ClientInputs
      /\ <<in.bank, in.row, in.col>> = CellAt(ram_addr)
  BY EdgeFacts
<1> HIDE DEF in
<1>1. /\ state = "read_1" /\ burst_old = 7 /\ ~got_transaction /\ ready_for_new
      /\ fetch_x = 0 /\ ~data_out_ready /\ data_ready_delay = {} /\ SavedCell = FetchCell
  BY DEF FetchStarts, NothingBack
<1>2. ~sdram_reset  BY <1>1 DEF CardInv, PowerUp, Settled, ClosedStates
<1>3. ControllerState(in)  BY <1>0 DEF SDRAMClock
<1>4. fetch_x' = 0 /\ FetchCell' = FetchCell  BY <1>1, FetchCounts
<1>5. Read1(in)
  BY <1>1, <1>3 DEF ControllerState, Startup, IdleWait, LoadMode, Activate, IdleNop, OpenIn2,
     OpenIn1, BurstRead, BurstTerminate, ReadTail, Write1, Write2, Write3, Precharge, AfterWait,
     AfterRead
<1>6. state' = "burst_read" /\ ready_for_new' /\ DelayLine(TRUE)
  <2>1. burst_old > 1 /\ ~in.reset  BY <1>0, <1>1, <1>2
  <2>2. Goto(in, "burst_read", TRUE) /\ DelayLine(TRUE)  BY <1>5, <2>1 DEF Read1
  <2> QED  BY <2>1, <2>2 DEF Goto
<1>7. data_ready_delay' = {3} /\ ~data_out_ready'  BY <1>1, <1>6, BurstFills
<1>8. ram_enable /\ ram_addr = fetch_y
  <2>1. fetch_y \in Addresses /\ fetch_y \in Int /\ FETCHW \in Nat
    BY SizesAssumption, GeometryAssumption DEF RangeInv, AddressesTyped, Addresses, Size, NCols
  <2>2. fetch_y + 0 = fetch_y /\ Addr(fetch_y) = fetch_y  BY <2>1, AddrFacts
  <2>3. ram_addr = Addr(fetch_y + 0) /\ (ram_enable <=> 0 <= FETCHW)
    BY <1>1 DEF FetchPort
  <2> QED  BY <2>1, <2>2, <2>3
<1>9. SavedCell' = FetchCell'
  BY <1>0, <1>1, <1>2, <1>4, <1>8, QueueStep DEF CardInv, SavedCell, FetchCell
<1> QED  BY <1>4, <1>6, <1>7, <1>9 DEF FetchFills

LEMMA FetchFillsStep ==
  ASSUME FETCHW > 1, CardInv, RangeInv, BurstRules, LineAt, FetchPort, Clock, arb = "FETCHING_ROW",
         FetchFills
  PROVE  FetchFills' \/ FetchFlows'
<1>1. FETCHW \in Nat /\ fetch_y \in Addresses /\ fetch_y \in Int /\ fetch_x = 0
  BY SizesAssumption, GeometryAssumption
     DEF RangeInv, AddressesTyped, Addresses, Size, NCols, FetchFills
<1>8. fetch_x < FETCHW  BY <1>1
<1>2. state' = "burst_read" /\ ready_for_new' /\ DelayLine(TRUE) /\ SavedCell' = CellAt(ram_addr)
  BY <1>8, BurstRunsOn, Zenon
<1>3. fetch_y + 0 = fetch_y /\ Addr(fetch_y) = fetch_y  BY <1>1, AddrFacts
<1>4. ram_addr = fetch_y  BY <1>1, <1>3 DEF FetchPort
<1>5. SavedCell' = FetchCell' /\ FetchCell' = FetchCell  BY <1>2, <1>4, FetchCounts DEF FetchCell
<1>6. CASE ~data_out_ready
  <2>1. fetch_x' = 0  BY <1>1, <1>6, FetchCounts
  <2>2. data_ready_delay \in {{3}, {2, 3}, {1, 2, 3}, 0 .. 3}  BY DEF FetchFills
  <2>3. /\ data_ready_delay' \in {{3}, {2, 3}, {1, 2, 3}, 0 .. 3}
        /\ data_out_ready' => data_ready_delay' = 0 .. 3
    BY <1>2, <2>2, BurstFills
  <2> QED  BY <1>2, <1>5, <2>1, <2>3 DEF FetchFills
<1>7. CASE data_out_ready
  <2>1. fetch_x' = 1  BY <1>1, <1>7, FetchCounts
  <2>2. data_ready_delay = 0 .. 3  BY <1>7 DEF FetchFills
  <2>3. data_ready_delay' = 0 .. 3 /\ data_out_ready'  BY <1>2, <2>2, BurstFills
  <2>4. SavedCell'[3] = FetchCell'[3]  BY <1>5
  <2>5. FetchCell'[3] \in Int
    <3>1. FetchCell[3] \in 0 .. LastCol /\ LastCol \in Nat
      BY <1>1, ColumnFacts, GeometryAssumption DEF FetchCell
    <3> QED  BY <1>5, <3>1
  <2>6. save'.col = FetchCell'[3] + 1 - 1  BY <2>4, <2>5 DEF SavedCell
  <2> QED  BY <1>2, <2>1, <2>3, <2>6 DEF FetchFlows
<1> QED  BY <1>6, <1>7

LEMMA FetchFlowsStep ==
  ASSUME FETCHW > 1, CardInv, RangeInv, BurstRules, LineAt, FetchPort, Clock, arb = "FETCHING_ROW",
         arb' = "FETCHING_ROW", FetchFlows
  PROVE  FetchFlows' \/ FetchEnds'
<1> DEFINE in == Port(sdram_reset)
<1>0. /\ SDRAMClock(in) /\ in.enable = ram_enable /\ in.burst = ram_burst_size
      /\ (in.reset <=> sdram_reset)
  BY EdgeFacts
<1> HIDE DEF in
<1>1. /\ FETCHW \in Nat /\ fetch_y \in Int /\ fetch_x \in 1 .. FETCHW + 1 /\ LastCol \in Nat
      /\ NCols = LastCol + 1
  BY SizesAssumption, GeometryAssumption
     DEF RangeInv, AddressesTyped, Addresses, Size, NCols, FetchFlows, FetchPort
<1>2. /\ FetchCell[3] \in 0 .. LastCol /\ FetchCell[3] + FETCHW <= LastCol + 1
      /\ \A i \in Nat : FetchCell[3] + i <= LastCol => CellAt(fetch_y + i)[3] = FetchCell[3] + i
      /\ CellAt(Addr(fetch_y + fetch_x)) = CellAt(fetch_y + fetch_x)
  BY <1>1, ColumnFacts DEF FetchCell, LineAt
<1>3. /\ state = "burst_read" /\ ready_for_new /\ data_out_ready /\ data_ready_delay = 0 .. 3
      /\ fetch_x <= FETCHW => save.col = FetchCell[3] + fetch_x - 1
  BY DEF FetchFlows
<1>4. fetch_x' = fetch_x + 1 /\ FetchCell' = FetchCell /\ FetchingRow  BY <1>3, FetchCounts
<1>5. fetch_x <= FETCHW
  <2>1. Unsigned(fetch_x) = fetch_x  BY <1>1, CountsWords
  <2>2. ~(Unsigned(fetch_x) > FETCHW)  BY <1>3, <1>4 DEF FetchingRow
  <2> QED  BY <1>1, <2>1, <2>2
<1>6. CASE fetch_x < FETCHW
  <2>1. state' = "burst_read" /\ ready_for_new' /\ DelayLine(TRUE) /\ SavedCell' = CellAt(ram_addr)
    BY <1>6, BurstRunsOn, Zenon
  <2>2. data_ready_delay' = 0 .. 3 /\ data_out_ready'  BY <1>3, <2>1, BurstFills
  <2>3. ram_addr = Addr(fetch_y + fetch_x)  BY DEF FetchPort
  <2>4. SavedCell'[3] = FetchCell[3] + fetch_x
    <3>1. fetch_x \in Nat /\ FetchCell[3] + fetch_x <= LastCol  BY <1>1, <1>2, <1>6
    <3>2. CellAt(fetch_y + fetch_x)[3] = FetchCell[3] + fetch_x  BY <1>2, <3>1
    <3> QED  BY <1>2, <2>1, <2>3, <3>2
  <2>5. save'.col = FetchCell[3] + fetch_x  BY <2>4 DEF SavedCell
  <2>6. save'.col = FetchCell'[3] + fetch_x' - 1  BY <1>1, <1>2, <1>4, <2>5
  <2>7. fetch_x' > 0  BY <1>1, <1>4
  <2> QED  BY <2>1, <2>2, <2>6, <2>7 DEF FetchFlows
<1>7. CASE fetch_x = FETCHW
  <2>1. ~sdram_reset  BY <1>3 DEF CardInv, PowerUp, Settled, ClosedStates
  <2>2. ControllerState(in)  BY <1>0 DEF SDRAMClock
  <2>3. CASE BurstEnds(in)
    <3>1. BurstTerminate(in)
      BY <1>3, <2>2, <2>3 DEF ControllerState, Startup, IdleWait, LoadMode, Activate, IdleNop,
         OpenIn2, OpenIn1, Read1, BurstRead, ReadTail, Write1, Write2, Write3, Precharge, AfterWait,
         AfterRead
    <3>2. state' = "precharge" /\ ~got_transaction' /\ DelayLine(FALSE)
      BY <1>0, <2>1, <3>1 DEF BurstTerminate, Reopen, Goto
    <3>3. data_out_ready'  BY <1>3, <3>2, BurstFills
    <3> QED  BY <1>4, <1>7, <3>2, <3>3 DEF FetchEnds
  <2>4. CASE ~BurstEnds(in)
    <3>1. BurstRead(in)
      BY <1>3, <2>2, <2>4 DEF ControllerState, Startup, IdleWait, LoadMode, Activate, IdleNop,
         OpenIn2, OpenIn1, Read1, BurstTerminate, ReadTail, Write1, Write2, Write3, Precharge,
         AfterWait, AfterRead
    <3>2. state' = "burst_read" /\ ready_for_new' /\ DelayLine(TRUE)
      BY <1>0, <2>1, <3>1 DEF BurstRead, Goto
    <3>3. data_ready_delay' = 0 .. 3 /\ data_out_ready'  BY <1>3, <3>2, BurstFills
    <3>4. fetch_x' > 0 /\ ~(fetch_x' <= FETCHW)  BY <1>1, <1>4, <1>7
    <3> QED  BY <3>2, <3>3, <3>4 DEF FetchFlows
  <2> QED  BY <2>3, <2>4
<1> QED  BY <1>1, <1>5, <1>6, <1>7

LEMMA FetchPhasesStep ==
  ASSUME FETCHW > 1, CardInv, RangeInv, StartupQuiet, BurstRules, EnableRules, Free, LineAt, FetchPort,
         FetchPhases, Clock
  PROVE  FetchPhases'
<1> SUFFICES ASSUME arb' = "FETCHING_ROW"
             PROVE  FetchAsked' \/ FetchQueued' \/ FetchStarts' \/ FetchFills' \/ FetchFlows' \/ FetchEnds'
  BY DEF FetchPhases
<1>1. PICK p \in {BlitterStarted, blit} : ArbiterStep(p)  BY DEF Clock
<1>2. CASE BurstOn
  <2> DEFINE in == Port(sdram_reset)
  <2>0. /\ SDRAMClock(in) /\ (Accepts(in) <=> ready_for_new /\ ram_enable)
        /\ (in.reset <=> sdram_reset) /\ in \in ClientInputs
    BY EdgeFacts
  <2> HIDE DEF in
  <2>1. arb = "BURST_ON"  BY <1>2 DEF BurstOn, At
  <2>2. ready_for_new  BY <1>2, <2>1 DEF BurstOn, cmd_ready
  <2>3. ~ram_enable /\ NoReadsOut /\ fetch_x = 0
    BY <2>1 DEF EnableRules, Free, FreeStates, LineAt
  <2>4. NoReadsOut'  BY <2>3, QuietEdge
  <2>5. ~got_transaction
    BY <2>2, <2>3 DEF NoReadsOut, ReadStates, CardInv, SafeInv, Handshake
  <2>6. ~got_transaction'
    <3>1. CASE sdram_reset
      BY <2>0, <2>3, <3>1, SettledStays DEF CardInv, PowerUp, Settled
    <3>2. CASE ~sdram_reset
      BY <2>0, <2>3, <2>5, <3>2, QueueStep DEF CardInv
    <3> QED  BY <3>1, <3>2
  <2>7. fetch_x' = 0  BY <1>2, <2>3 DEF BurstOn, fetchVars
  <2> QED  BY <2>4, <2>6, <2>7 DEF FetchAsked
<1>3. CASE FetchingRow
  <2>1. arb = "FETCHING_ROW"  BY <1>3 DEF FetchingRow, At
  <2>2. CASE FetchAsked
    BY <2>1, <2>2, FetchAskedStep
  <2>3. CASE FetchQueued
    BY <2>1, <2>3, FetchQueuedStep
  <2>4. CASE FetchStarts
    BY <2>1, <2>4, FetchStartsStep
  <2>5. CASE FetchFills
    BY <2>1, <2>5, FetchFillsStep
  <2>6. CASE FetchFlows
    BY <2>1, <2>6, FetchFlowsStep
  <2>7. ~FetchEnds
    <3> SUFFICES ASSUME FetchEnds PROVE FALSE  OBVIOUS
    <3>1. data_out_ready /\ fetch_x = FETCHW + 1 /\ FETCHW \in Nat
      BY SizesAssumption DEF FetchEnds
    <3>2. ~(Unsigned(fetch_x) > FETCHW)  BY <1>3, <3>1 DEF FetchingRow
    <3>3. fetch_x \in 0 .. FETCHW + 1  BY <2>1 DEF FetchPort
    <3>4. Unsigned(fetch_x) = fetch_x  BY <3>3, CountsWords
    <3> QED  BY <3>1, <3>2, <3>4
  <2> QED  BY <2>1, <2>2, <2>3, <2>4, <2>5, <2>6, <2>7 DEF FetchPhases
<1> QED  BY <1>1, <1>2, <1>3, ArrivesFetching

-----------------------------------------------------------------------------
(* The invariant of the port.                                              *)

PortInv ==
  /\ StartupQuiet /\ ReadPlaces /\ BusQuiet /\ ReadsHeld /\ Warming
  /\ BlitOwned /\ JobsAtZero /\ BurstRules /\ EnableRules /\ OffersClaimed
  /\ ReadyHeld /\ Free /\ AfterFetch /\ BurstOver /\ HostRead /\ CopyCount
  /\ Warm /\ RefreshAsked /\ RefreshOut
  /\ FetchPort /\ FetchPhases /\ LineAt

LEMMA PortStarts == CardInit => PortInv
<1> SUFFICES ASSUME CardInit PROVE PortInv  OBVIOUS
<1>1. SDRAMInit /\ ArbiterInit  BY DEF CardInit
<1>2. /\ state = "startup" /\ ~ready_for_new /\ ~got_transaction /\ data_ready_delay = {}
      /\ ~data_out_ready /\ ~dq_hiz /\ iob.cmd = "NOP" /\ chip_stream.kind # "read"
      /\ \A i \in 1 .. 3 : dq[i] = NoData
  BY <1>1 DEF SDRAMInit, ControllerInit, ChipInit, Idle
<1>3. /\ arb = "READY" /\ ~ram_enable /\ ~ram_write /\ ~row_fetched /\ copy.counter = 0
      /\ refresh.warm = 0 /\ refresh.cool = 0 /\ ram_burst_size = 0 /\ pan_ptr = 0
  BY <1>1 DEF ArbiterInit
<1>4. zorro = "COLD" /\ ~dtack /\ bus.active = FALSE /\ ~sdram_reset  BY DEF CardInit
<1>5. StartupQuiet /\ ReadPlaces /\ ReadsHeld
  BY <1>2 DEF StartupQuiet, ReadPlaces, ReadsHeld
<1>6. BusQuiet
  BY <1>2 DEF BusQuiet, ClearTo, ReadsNow, ReadStates
<1>7. Warming /\ BlitOwned  BY <1>2, <1>3, <1>4 DEF Warming, FetchStates, BlitOwned
<1>8. JobsAtZero /\ BurstRules /\ EnableRules /\ OffersClaimed
  BY <1>3 DEF JobsAtZero, BurstRules, FetchStates, EnableRules, WriterStates, OffersClaimed
<1>9. ReadyHeld /\ Free /\ AfterFetch /\ BurstOver /\ HostRead /\ CopyCount
  BY <1>2, <1>3 DEF ReadyHeld, Free, FreeStates, FetchOpens, NoReadsOut, ReadStates, WriterStates,
     AfterFetch, BurstOver, FetchStates, HostRead, CopyCount
<1>10. Warm /\ RefreshAsked /\ RefreshOut /\ FetchPort /\ FetchPhases /\ LineAt
  BY <1>3 DEF Warm, RefreshAsked, RefreshOut, FetchPort, FetchPhases, LineAt
<1> QED  BY <1>5, <1>6, <1>7, <1>8, <1>9, <1>10 DEF PortInv

LEMMA PortKept ==
  ASSUME PortInv, UNCHANGED cardVars
  PROVE  PortInv'
<1>1. UNCHANGED sdramVars  BY DEF cardVars
<1>2. UNCHANGED <<arb, portVars, fetchVars, refresh, blitter_enable, copy, cap, pan_ptr, videocap_mode,
                  bus, zorro, dtack, sdram_reset>>
  BY DEF cardVars, inputVars, zorroVars
<1>3. StartupQuiet' /\ ReadPlaces' /\ ReadsHeld'
  BY <1>1 DEF PortInv, sdramVars, ctrlVars, StartupQuiet, ReadPlaces, ReadsHeld
<1>4. BusQuiet'
  BY <1>1 DEF PortInv, sdramVars, ctrlVars, chipVars, BusQuiet, ClearTo, ReadsNow
<1>5. Warming' /\ BlitOwned'
  BY <1>1, <1>2 DEF PortInv, sdramVars, ctrlVars, fetchVars, Warming, BlitOwned
<1>6. JobsAtZero' /\ BurstRules' /\ EnableRules' /\ OffersClaimed'
  BY <1>2 DEF PortInv, portVars, fetchVars, JobsAtZero, BurstRules, EnableRules, OffersClaimed
<1>7. NoReadsOut' = NoReadsOut /\ Outstanding' = Outstanding
  BY <1>1 DEF sdramVars, ctrlVars, NoReadsOut, Outstanding, HoldsRead, InDelayLine
<1>8. ReadyHeld' /\ Free' /\ AfterFetch' /\ BurstOver'
  BY <1>1, <1>2, <1>7 DEF PortInv, sdramVars, ctrlVars, portVars, fetchVars, ReadyHeld, Free,
     FetchOpens, AfterFetch, BurstOver, Resting
<1>9. HostRead' /\ CopyCount'
  BY <1>2, <1>7 DEF PortInv, portVars, HostRead, CopyCount
<1>10. Warm' /\ RefreshAsked'
  BY <1>1, <1>2 DEF PortInv, sdramVars, ctrlVars, portVars, Warm, Rank, RefreshAsked
<1>11. RefreshOut'
  BY <1>1, <1>2, <1>7 DEF PortInv, sdramVars, ctrlVars, portVars, RefreshOut, InTransit
<1>12. FetchPort' /\ LineAt'
  BY <1>2 DEF PortInv, portVars, fetchVars, FetchPort, LineAt, FetchCell
<1>13. FetchPhases'
  BY <1>1, <1>2, <1>7 DEF PortInv, sdramVars, ctrlVars, fetchVars, FetchPhases, FetchAsked,
     FetchQueued, FetchStarts, FetchFills, FetchFlows, FetchEnds, NothingBack, SavedCell, FetchCell
<1> QED
  BY <1>3, <1>4, <1>5, <1>6, <1>8, <1>9, <1>10, <1>11, <1>12, <1>13 DEF PortInv

LEMMA PortStep ==
  ASSUME ~ResetAllowed, margin_x = 0, FETCHW > 1, BLITTER_COPY_SIZE > 0, LinesInRows, WaitsSuffice,
         CardInv, RangeInv, PortInv, Clock, WritesCapture /\ bus.op.value # 1 => cap.line_saved,
         CardInv', RangeInv'
  PROVE  PortInv'
<1>0. /\ StartupQuiet /\ ReadPlaces /\ BusQuiet /\ ReadsHeld /\ Warming
      /\ BlitOwned /\ JobsAtZero /\ BurstRules /\ EnableRules /\ OffersClaimed
      /\ ReadyHeld /\ Free /\ AfterFetch /\ BurstOver /\ HostRead /\ CopyCount
      /\ Warm /\ RefreshAsked /\ RefreshOut
      /\ FetchPort /\ FetchPhases /\ LineAt
  BY DEF PortInv
<1>1. PICK p \in {BlitterStarted, blit} : ArbiterStep(p)  BY DEF Clock
<1>2. /\ arb \in ArbiterStates /\ CardTyped /\ CountersTyped  BY DEF CardInv, RangeInv
<1>3. StartupQuiet' /\ ReadPlaces'  BY <1>0, StartsQuietly
<1>4. BusQuiet'  BY <1>0, BusQuietOnCard
<1>5. ReadsHeld'  BY <1>0, ReadsHeldStep
<1>6. Warming'  BY <1>0, WarmingStep
<1>7. BlitOwned'  BY <1>0, BlitOwnedStep
<1>8. JobsAtZero'  BY <1>0, <1>1, <1>2, JobsAtZeroStep
<1>9. BurstRules'  BY <1>0, <1>1, <1>2, BurstRulesStep
<1>10. EnableRules'  BY <1>0, EnableRulesStep
<1>11. OffersClaimed'  BY <1>0, OffersClaimedStep
<1>12. ReadyHeld'  BY <1>0, ReadyHeldStep
<1>13. BurstOver'  BY <1>0, BurstOverStep
<1>14. Free'  BY <1>0, <1>3, <1>13, FreeStep
<1>15. AfterFetch'  BY <1>0, AfterFetchStep
<1>16. HostRead'  BY <1>0, <1>3, HostReadStep
<1>17. CopyCount'  BY <1>0, <1>3, CopyCountStep
<1>18. Warm'  BY <1>0, WarmStep
<1>19. RefreshAsked'  BY <1>0, RefreshAskedStep
<1>20. RefreshOut'  BY <1>0, RefreshOutStep
<1>21. LineAt'  BY <1>0, LineAtStep
<1>22. FetchPort'  BY <1>0, FetchPortStep
<1>23. FetchPhases'  BY <1>0, FetchPhasesStep
<1> QED
  BY <1>3, <1>4, <1>5, <1>6, <1>7, <1>8, <1>9, <1>10, <1>11, <1>12, <1>13, <1>14, <1>15, <1>16,
     <1>17, <1>18, <1>19, <1>20, <1>21, <1>22, <1>23 DEF PortInv

(* Capture is switched off only when the line it captures is saved. *)
OffBetweenLines == [][WritesCapture /\ bus.op.value # 1 => cap.line_saved]_cardVars

(* The arbiter never hands the port to a user whose write would meet, on   *)
(* the data bus, words that a read of the last user is still to bring: the *)
(* chip and the card never drive the bus at the same time.                 *)
THEOREM NeverContends ==
  ASSUME ~ResetAllowed, margin_x = 0, FETCHW > 1, BLITTER_COPY_SIZE > 0, LinesInRows, WaitsSuffice
  PROVE  CardSpec /\ OffBetweenLines => []NoBusContention
<1>1. /\ CardInv /\ RangeInv /\ PortInv /\ [Clock]_cardVars
      /\ [WritesCapture /\ bus.op.value # 1 => cap.line_saved]_cardVars
      => CardInv' /\ RangeInv' /\ PortInv'
  <2> SUFFICES ASSUME CardInv, RangeInv, PortInv, [Clock]_cardVars,
                      [WritesCapture /\ bus.op.value # 1 => cap.line_saved]_cardVars
               PROVE  CardInv' /\ RangeInv' /\ PortInv'
    OBVIOUS
  <2>1. CardInv' /\ RangeInv'  BY CardStep, RangesStep
  <2>2. CASE UNCHANGED cardVars
    BY <2>1, <2>2, PortKept
  <2>3. CASE Clock /\ (WritesCapture /\ bus.op.value # 1 => cap.line_saved)
    BY <2>1, <2>3, PortStep
  <2> QED  BY <2>1, <2>2, <2>3
<1>2. PortInv => NoBusContention
  BY DEF PortInv, BusQuiet, ClearTo, NoBusContention
<1> QED  BY <1>1, <1>2, CardStarts, RangesStart, PortStarts, PTL DEF CardSpec, OffBetweenLines

-----------------------------------------------------------------------------
(* The words of a line: where the chip is in its row, what it has on the   *)
(* way, and what the buffer has.                                           *)

LineCell(i) == <<FetchCell[1], FetchCell[2], FetchCell[3] + i>>
LineWord(i) == mem[LineCell(i)]

InBurst == arb = "FETCHING_ROW" /\ (FetchFills \/ FetchFlows)

\* The place in its line of the word that the chip is giving.
Ahead == IF data_out_ready THEN fetch_x + 4
         ELSE IF 0 \in data_ready_delay THEN 3
         ELSE IF 1 \in data_ready_delay THEN 2
         ELSE IF 2 \in data_ready_delay THEN 1
         ELSE 0

LineStreams ==
  InBurst =>
    /\ iob.bank = FetchCell[1] /\ open_row[FetchCell[1]] = FetchCell[2]
    /\ FetchCell[3] + Ahead <= LastCol => ColNow = FetchCell[3] + Ahead

LineWords ==
  InBurst =>
    /\ \A i \in 1 .. 3 : i <= Ahead /\ Ahead - i < FETCHW => dq[i] = LineWord(Ahead - i)
    /\ data_out_ready /\ fetch_x < FETCHW => data_out = LineWord(fetch_x)

LineBuffered ==
  /\ DOMAIN fetch_buffer = 0 .. FETCHW + 8
  /\ arb = "FETCHING_ROW" => \A i \in 0 .. FETCHW - 1 : i < fetch_x => fetch_buffer[i] = LineWord(i)
  /\ arb = "FETCHING_ROW" /\ FetchEnds => iob.cmd = "TERMINATE"

\* The line just fetched is in the buffer.
LineArrived ==
  arb = "READY" /\ row_fetched => \A i \in 0 .. FETCHW - 1 : fetch_buffer[i] = LineWord(i)

LineAddressed ==
  arb \in {"READY2", "BURST_ON", "FETCHING_ROW"} \/ (arb = "READY" /\ row_fetched) =>
    fetch_y = Addr(pan_ptr + fetch_line_y * FETCHW)

\* A burst of the fetch begins with its READ or goes on.
LEMMA BurstComesFrom ==
  ASSUME CardInv, Free, FetchPort, FetchPhases, Clock, InBurst'
  PROVE  /\ arb = "FETCHING_ROW" /\ ~sdram_reset
         /\ \/ FetchStarts /\ Read1(Port(sdram_reset))
            \/ (FetchFills \/ FetchFlows) /\ BurstRead(Port(sdram_reset))
<1> DEFINE in == Port(sdram_reset)
<1>0. SDRAMClock(in) /\ (in.reset <=> sdram_reset)  BY EdgeFacts
<1> HIDE DEF in
<1>1. arb' = "FETCHING_ROW" /\ state' = "burst_read"  BY DEF InBurst, FetchFills, FetchFlows
<1>2. ControllerState(in)  BY <1>0 DEF SDRAMClock
<1>3. ~sdram_reset
  <2>1. in.reset => state' = "startup"
    BY <1>2 DEF ControllerState, Startup, IdleWait, LoadMode, Activate, IdleNop, OpenIn2, OpenIn1,
       Read1, BurstRead, BurstTerminate, ReadTail, Write1, Write2, Write3, Precharge, Keep, Reopen,
       Goto
  <2> QED  BY <1>0, <1>1, <2>1
<1>4. (state = "read_1" /\ Read1(in)) \/ (state = "burst_read" /\ BurstRead(in))
  <2>1. state \in States  BY DEF CardInv, SafeInv, TypeInv, TypeOK, ControllerTypeOK
  <2>2. state \in {"read_1", "burst_read"}
    BY <1>0, <1>1, <1>3, <2>1, NextState, StateTable DEF States
  <2>3. ~BurstTerminate(in)
    BY <1>0, <1>1, <1>3 DEF BurstTerminate, Reopen, Goto
  <2> QED
    BY <1>2, <2>2, <2>3 DEF ControllerState, Startup, IdleWait, LoadMode, Activate, IdleNop, OpenIn2,
       OpenIn1, Read1, BurstRead, ReadTail, Write1, Write2, Write3, Precharge, AfterWait, AfterRead
<1>5. PICK p \in {BlitterStarted, blit} : ArbiterStep(p)  BY DEF Clock
<1>6. arb = "FETCHING_ROW"
  <2>1. ~BurstOn
    <3> SUFFICES ASSUME BurstOn PROVE FALSE  OBVIOUS
    <3>1. arb = "BURST_ON"  BY DEF BurstOn, At
    <3> QED  BY <1>4, <3>1 DEF Free, FreeStates, NoReadsOut, ReadStates
  <2> QED  BY <1>1, <1>5, <2>1, ArrivesFetching DEF FetchingRow, At
<1>7. FetchAsked \/ FetchQueued \/ FetchStarts \/ FetchFills \/ FetchFlows \/ FetchEnds
  BY <1>6 DEF FetchPhases
<1>8. ~FetchAsked /\ ~FetchQueued /\ ~FetchEnds
  BY <1>4 DEF FetchAsked, NoReadsOut, FetchQueued, FetchEnds, ReadStates
<1>9. CASE state = "read_1" /\ Read1(in)
  BY <1>3, <1>6, <1>7, <1>8, <1>9 DEF FetchFills, FetchFlows, in
<1>10. CASE state = "burst_read" /\ BurstRead(in)
  BY <1>3, <1>6, <1>7, <1>8, <1>10 DEF FetchStarts, in
<1> QED  BY <1>4, <1>9, <1>10

\* While the burst runs the chip gives a word an edge and stores none.
LEMMA ChipInBurst ==
  ASSUME CardInv, state = "burst_read", Chip
  PROVE  /\ ReadsNow /\ BankNow = iob.bank /\ mem' = mem /\ open_row' = open_row
         /\ chip_stream'.col = (IF ColNow = LastCol THEN 0 ELSE ColNow + 1)
         /\ chip_stream'.bank = iob.bank
         /\ open_row[iob.bank] # Closed => ChipOut = mem[<<iob.bank, open_row[iob.bank], ColNow>>]
         /\ dq'[1] = ChipOut /\ dq'[2] = dq[1] /\ dq'[3] = dq[2]
<1>1. BurstRuns /\ TypeInv  BY DEF CardInv, AnswerInv, SafeInv
<1>2. burst_old = 7 /\ ModeAfter = 7
  BY <1>1 DEF BurstRuns
<1>3. \/ iob.cmd = "READ"
      \/ /\ iob.cmd = "NOP" /\ chip_stream.kind = "read"
         /\ chip_stream.left /\ chip_stream.bank = iob.bank
  BY <1>1 DEF BurstRuns
<1>4. chip_mode = 7  BY <1>2, <1>3 DEF ModeAfter
<1>5. ReadsNow /\ ~WritesNow /\ BankNow = iob.bank
  BY <1>3 DEF ReadsNow, WritesNow, BankNow
<1>6. mem' = mem  BY <1>5 DEF Chip, MemNow
<1>7. open_row' = open_row  BY <1>3 DEF Chip
<1>8. chip_stream \in Streams  BY <1>1 DEF TypeInv, TypeOK, ChipTypeOK
<1>9. \A c : NextCol(c, 7) = (IF c = LastCol THEN 0 ELSE c + 1)  BY DEF NextCol
<1>10. /\ chip_stream'.col = (IF ColNow = LastCol THEN 0 ELSE ColNow + 1)
       /\ chip_stream'.bank = iob.bank
  <2>1. CASE iob.cmd = "READ"
    <3>1. chip_stream' = [kind |-> "read", bank |-> iob.bank, col |-> NextCol(iob.addr, 7), left |-> TRUE]
      BY <1>4, <2>1 DEF Chip, ChipStream, StartStream
    <3>2. ColNow = iob.addr  BY <2>1 DEF ColNow
    <3> QED  BY <1>9, <3>1, <3>2
  <2>2. CASE iob.cmd = "NOP" /\ chip_stream.left /\ chip_stream.bank = iob.bank
    <3>1. chip_stream' = [chip_stream EXCEPT !.col = NextCol(chip_stream.col, 7)]
      BY <1>4, <2>2 DEF Chip, ChipStream, StreamNext
    <3>2. ColNow = chip_stream.col  BY <2>2 DEF ColNow
    <3>3. chip_stream'.col = NextCol(chip_stream.col, 7) /\ chip_stream'.bank = chip_stream.bank
      BY <1>8, <3>1 DEF Streams
    <3> QED  BY <1>9, <2>2, <3>2, <3>3
  <2> QED  BY <1>3, <2>1, <2>2
<1>11. open_row[iob.bank] # Closed => ChipOut = mem[<<iob.bank, open_row[iob.bank], ColNow>>]
  BY <1>5 DEF ChipOut, CellNow
<1>12. dq' = [i \in 1 .. 3 |-> IF i = 1 THEN ChipOut ELSE dq[i - 1]]  BY DEF Chip
<1>13. dq'[1] = ChipOut /\ dq'[2] = dq[1] /\ dq'[3] = dq[2]  BY <1>12
<1> QED  BY <1>5, <1>6, <1>7, <1>10, <1>11, <1>13

LEMMA AheadStep ==
  ASSUME InBurst, DelayLine(TRUE), Clock, fetch_x \in Nat
  PROVE  /\ Ahead \in Nat /\ Ahead' = Ahead + 1
         /\ 0 \in data_ready_delay => Ahead - 3 = fetch_x'
         /\ data_out_ready => 0 \in data_ready_delay
         /\ data_out_ready' => 0 \in data_ready_delay
<1>1. arb = "FETCHING_ROW" /\ (FetchFills \/ FetchFlows)  BY DEF InBurst
<1>2. /\ ~data_out_ready => fetch_x' = fetch_x
      /\ data_out_ready => fetch_x' = fetch_x + 1
  BY <1>1, FetchCounts
<1>3. data_out_ready' <=> 0 \in data_ready_delay  BY DEF DelayLine
<1>4. 0 \in 0 .. 3  OBVIOUS
<1>5. CASE data_out_ready
  <2>1. data_ready_delay = 0 .. 3  BY <1>1, <1>5 DEF FetchFills, FetchFlows
  <2>2. data_out_ready' /\ 0 \in data_ready_delay  BY <1>3, <1>4, <2>1
  <2>3. Ahead = fetch_x + 4 /\ Ahead' = fetch_x' + 4  BY <1>5, <2>2 DEF Ahead
  <2> QED  BY <1>2, <1>5, <2>2, <2>3
<1>6. CASE ~data_out_ready
  <2>1. fetch_x = 0 /\ data_ready_delay \in {{3}, {2, 3}, {1, 2, 3}, 0 .. 3}
    BY <1>1, <1>6 DEF FetchFills, FetchFlows
  <2>2. fetch_x' = 0  BY <1>2, <1>6, <2>1
  <2>3. CASE data_ready_delay = {3}
    <3>1. data_ready_delay' = {2, 3} /\ ~data_out_ready'  BY <2>3, BurstFills
    <3>2. /\ 0 \notin {3} /\ 1 \notin {3} /\ 2 \notin {3}
          /\ 0 \notin {2, 3} /\ 1 \notin {2, 3} /\ 2 \in {2, 3}
      OBVIOUS
    <3>3. Ahead = 0 /\ Ahead' = 1  BY <1>6, <2>3, <3>1, <3>2 DEF Ahead
    <3> QED  BY <1>3, <1>6, <2>3, <3>2, <3>3
  <2>4. CASE data_ready_delay = {2, 3}
    <3>1. data_ready_delay' = {1, 2, 3} /\ ~data_out_ready'  BY <2>4, BurstFills
    <3>2. /\ 0 \notin {2, 3} /\ 1 \notin {2, 3} /\ 2 \in {2, 3}
          /\ 0 \notin {1, 2, 3} /\ 1 \in {1, 2, 3}
      OBVIOUS
    <3>3. Ahead = 1 /\ Ahead' = 2  BY <1>6, <2>4, <3>1, <3>2 DEF Ahead
    <3> QED  BY <1>3, <1>6, <2>4, <3>2, <3>3
  <2>5. CASE data_ready_delay = {1, 2, 3}
    <3>1. data_ready_delay' = 0 .. 3 /\ ~data_out_ready'  BY <2>5, BurstFills
    <3>2. 0 \notin {1, 2, 3} /\ 1 \in {1, 2, 3}  OBVIOUS
    <3>3. Ahead = 2 /\ Ahead' = 3  BY <1>4, <1>6, <2>5, <3>1, <3>2 DEF Ahead
    <3> QED  BY <1>3, <1>6, <2>5, <3>2, <3>3
  <2>6. CASE data_ready_delay = 0 .. 3
    <3>1. data_out_ready'  BY <1>3, <1>4, <2>6
    <3>2. Ahead = 3 /\ Ahead' = fetch_x' + 4  BY <1>4, <1>6, <2>6, <3>1 DEF Ahead
    <3> QED  BY <1>4, <1>6, <2>2, <2>6, <3>2
  <2> QED  BY <2>1, <2>3, <2>4, <2>5, <2>6
<1> QED  BY <1>5, <1>6

LEMMA LineStreamsStep ==
  ASSUME CardInv, RangeInv, Free, LineAt, FetchPort, FetchPhases, LineStreams, Clock
  PROVE  LineStreams'
<1> DEFINE in == Port(sdram_reset)
<1>0. SDRAMClock(in)  BY EdgeFacts
<1> HIDE DEF in
<1> SUFFICES ASSUME InBurst'
             PROVE  /\ iob'.bank = FetchCell'[1] /\ open_row'[FetchCell'[1]] = FetchCell'[2]
                    /\ FetchCell'[3] + Ahead' <= LastCol => ColNow' = FetchCell'[3] + Ahead'
  BY DEF LineStreams
<1>1. /\ arb = "FETCHING_ROW" /\ ~sdram_reset
      /\ (FetchStarts /\ Read1(in)) \/ ((FetchFills \/ FetchFlows) /\ BurstRead(in))
  BY BurstComesFrom DEF in
<1>2. FetchCell' = FetchCell  BY <1>1, FetchCounts
<1>3. TypeInv /\ Chip /\ iob \in Pins  BY <1>0 DEF CardInv, SafeInv, TypeInv, TypeOK, ControllerTypeOK, SDRAMClock
<1>4. FetchCell[3] \in 0 .. LastCol /\ LastCol \in Nat
  <2>1. fetch_y \in Int
    BY GeometryAssumption DEF RangeInv, AddressesTyped, Addresses, Size, NCols
  <2> QED  BY <2>1, ColumnFacts, GeometryAssumption DEF FetchCell
<1>5. CASE FetchStarts /\ Read1(in)
  <2>1. state = "read_1" /\ SavedCell = FetchCell /\ data_ready_delay = {} /\ ~data_out_ready
    BY <1>5 DEF FetchStarts, NothingBack
  <2>2. save.bank = FetchCell[1] /\ save.row = FetchCell[2] /\ save.col = FetchCell[3]
    BY <2>1 DEF SavedCell
  <2>3. iob' = [iob EXCEPT !.cmd = "READ", !.addr = save.col, !.bank = save.bank, !.lanes = Lanes]
        /\ DelayLine(TRUE)
    BY <1>5 DEF Read1
  <2>4. iob'.bank = save.bank /\ iob'.addr = save.col /\ iob'.cmd = "READ"  BY <1>3, <2>3 DEF Pins
  <2>5. iob.cmd \in {"READ", "WRITE", "NOP", "TERMINATE"} /\ RowsAfter[save.bank] = save.row
    BY <2>1 DEF CardInv, SafeInv, PinsFit, RowFits
  <2>6. open_row' = open_row /\ RowsAfter = open_row
    BY <1>3, <2>5 DEF Chip, RowsAfter
  <2>7. data_ready_delay' = {3} /\ ~data_out_ready'  BY <2>1, <2>3, BurstFills
  <2>8. 0 \notin {3} /\ 1 \notin {3} /\ 2 \notin {3}  OBVIOUS
  <2>9. Ahead' = 0  BY <2>7, <2>8 DEF Ahead
  <2>10. ColNow' = save.col  BY <2>4 DEF ColNow
  <2> QED  BY <1>2, <1>4, <2>2, <2>4, <2>5, <2>6, <2>9, <2>10
<1>6. CASE (FetchFills \/ FetchFlows) /\ BurstRead(in)
  <2>1. state = "burst_read" /\ InBurst  BY <1>1, <1>6 DEF FetchFills, FetchFlows, InBurst
  <2>2. iob' = [iob EXCEPT !.cmd = "NOP"] /\ DelayLine(TRUE)  BY <1>6 DEF BurstRead
  <2>3. iob'.cmd = "NOP" /\ iob'.bank = iob.bank  BY <1>3, <2>2 DEF Pins
  <2>4. /\ open_row' = open_row
        /\ chip_stream'.col = (IF ColNow = LastCol THEN 0 ELSE ColNow + 1)
    BY <1>3, <2>1, ChipInBurst
  <2>5. fetch_x \in Nat
    <3>1. FETCHW \in Nat  BY SizesAssumption
    <3> QED  BY <1>1, <3>1 DEF FetchPort
  <2>6. Ahead \in Nat /\ Ahead' = Ahead + 1  BY <2>1, <2>2, <2>5, AheadStep
  <2>7. /\ iob.bank = FetchCell[1] /\ open_row[FetchCell[1]] = FetchCell[2]
        /\ FetchCell[3] + Ahead <= LastCol => ColNow = FetchCell[3] + Ahead
    BY <2>1 DEF LineStreams
  <2>8. ASSUME FetchCell[3] + (Ahead + 1) <= LastCol  PROVE ColNow' = FetchCell[3] + (Ahead + 1)
    <3>1. ColNow = FetchCell[3] + Ahead /\ ColNow # LastCol  BY <1>4, <2>6, <2>7, <2>8
    <3>2. ColNow' = chip_stream'.col  BY <2>3 DEF ColNow
    <3> QED  BY <1>4, <2>4, <2>6, <3>1, <3>2
  <2> QED  BY <1>2, <2>3, <2>4, <2>6, <2>7, <2>8
<1> QED  BY <1>1, <1>5, <1>6

LEMMA LineWordsStep ==
  ASSUME CardInv, RangeInv, Free, LineAt, FetchPort, FetchPhases, LineStreams, LineWords, Clock
  PROVE  LineWords'
<1> DEFINE in == Port(sdram_reset)
<1>0. SDRAMClock(in)  BY EdgeFacts
<1> HIDE DEF in
<1> SUFFICES ASSUME InBurst'
             PROVE  /\ \A i \in 1 .. 3 :
                         i <= Ahead' /\ Ahead' - i < FETCHW => dq'[i] = LineWord(Ahead - i)'
                    /\ data_out_ready' /\ fetch_x' < FETCHW => data_out' = LineWord(fetch_x)'
  BY DEF LineWords
<1>1. /\ arb = "FETCHING_ROW" /\ ~sdram_reset
      /\ (FetchStarts /\ Read1(in)) \/ ((FetchFills \/ FetchFlows) /\ BurstRead(in))
  BY BurstComesFrom DEF in
<1>2. FetchCell' = FetchCell  BY <1>1, FetchCounts
<1>3. TypeInv /\ Chip  BY <1>0 DEF CardInv, SafeInv, SDRAMClock
<1>4. /\ FetchCell[3] \in 0 .. LastCol /\ LastCol \in Nat /\ FETCHW \in Nat
      /\ FetchCell[3] + FETCHW <= LastCol + 1
  <2>1. fetch_y \in Int
    BY GeometryAssumption DEF RangeInv, AddressesTyped, Addresses, Size, NCols
  <2> QED  BY <1>1, <2>1, ColumnFacts, GeometryAssumption, SizesAssumption DEF FetchCell, LineAt, NCols
<1>5. CASE FetchStarts /\ Read1(in)
  <2>1. data_ready_delay = {} /\ ~data_out_ready
    BY <1>5 DEF FetchStarts, NothingBack
  <2>2. DelayLine(TRUE)  BY <1>5 DEF Read1
  <2>3. data_ready_delay' = {3} /\ ~data_out_ready'  BY <2>1, <2>2, BurstFills
  <2>4. 0 \notin {3} /\ 1 \notin {3} /\ 2 \notin {3}  OBVIOUS
  <2>5. Ahead' = 0  BY <2>3, <2>4 DEF Ahead
  <2> QED  BY <2>3, <2>5
<1>6. CASE (FetchFills \/ FetchFlows) /\ BurstRead(in)
  <2>1. state = "burst_read" /\ InBurst  BY <1>1, <1>6 DEF FetchFills, FetchFlows, InBurst
  <2>2. DelayLine(TRUE)  BY <1>6 DEF BurstRead
  <2>3. /\ mem' = mem
        /\ open_row[iob.bank] # Closed => ChipOut = mem[<<iob.bank, open_row[iob.bank], ColNow>>]
        /\ dq'[1] = ChipOut /\ dq'[2] = dq[1] /\ dq'[3] = dq[2]
    BY <1>3, <2>1, ChipInBurst
  <2>4. fetch_x \in Nat
    BY <1>1, <1>4 DEF FetchPort
  <2>5. /\ Ahead \in Nat /\ Ahead' = Ahead + 1
        /\ 0 \in data_ready_delay => Ahead - 3 = fetch_x'
        /\ data_out_ready' => 0 \in data_ready_delay
    BY <2>1, <2>2, <2>4, AheadStep
  <2>6. /\ iob.bank = FetchCell[1] /\ open_row[FetchCell[1]] = FetchCell[2]
        /\ FetchCell[3] + Ahead <= LastCol => ColNow = FetchCell[3] + Ahead
    BY <2>1 DEF LineStreams
  <2>7. \A i \in 1 .. 3 : i <= Ahead /\ Ahead - i < FETCHW => dq[i] = LineWord(Ahead - i)
    BY <2>1 DEF LineWords
  <2>8. \A j : LineWord(j)' = LineWord(j)
    BY <1>2, <2>3 DEF LineWord, LineCell
  <2>9. Ahead < FETCHW => dq'[1] = LineWord(Ahead)
    <3> SUFFICES ASSUME Ahead < FETCHW PROVE dq'[1] = LineWord(Ahead)  OBVIOUS
    <3>1. ColNow = FetchCell[3] + Ahead  BY <1>4, <2>5, <2>6
    <3>2. open_row[iob.bank] # Closed
      <4>1. FetchCell[2] \in Rows
        <5>1. RowsAfter[iob.bank] \in Rows
          BY <2>1 DEF CardInv, SafeInv, OneRow, ClosedStates
        <5>2. iob.cmd \in {"READ", "WRITE", "NOP", "TERMINATE"}
          BY <2>1 DEF CardInv, SafeInv, PinsFit
        <5>3. RowsAfter = open_row  BY <5>2 DEF RowsAfter
        <5> QED  BY <2>6, <5>1, <5>3
      <4> QED  BY <2>6, <4>1, SentinelAssumption
    <3> QED  BY <2>3, <2>6, <3>1, <3>2 DEF LineWord, LineCell
  <2>10. ASSUME NEW i \in 1 .. 3, i <= Ahead', Ahead' - i < FETCHW
         PROVE  dq'[i] = LineWord(Ahead - i)'
    <3>1. Ahead' - i = (Ahead + 1) - i  BY <2>5
    <3>2. LineWord(Ahead - i)' = LineWord((Ahead + 1) - i)
      BY <1>2, <2>3, <2>5 DEF LineWord, LineCell
    <3>3. CASE i = 1
      <4>1. (Ahead + 1) - i = Ahead  BY <2>5, <3>3
      <4> QED  BY <2>9, <2>10, <3>1, <3>2, <3>3, <4>1
    <3>4. CASE i = 2
      <4>1. (Ahead + 1) - i = Ahead - 1 /\ 1 <= Ahead /\ Ahead - 1 < FETCHW
        BY <2>5, <2>10, <3>4
      <4>2. dq[1] = LineWord(Ahead - 1)  BY <2>7, <4>1
      <4> QED  BY <2>3, <3>2, <3>4, <4>1, <4>2
    <3>5. CASE i = 3
      <4>1. (Ahead + 1) - i = Ahead - 2 /\ 2 <= Ahead /\ Ahead - 2 < FETCHW
        BY <2>5, <2>10, <3>5
      <4>2. dq[2] = LineWord(Ahead - 2)  BY <2>7, <4>1
      <4> QED  BY <2>3, <3>2, <3>5, <4>1, <4>2
    <3> QED  BY <3>3, <3>4, <3>5
  <2>11. ASSUME data_out_ready', fetch_x' < FETCHW
         PROVE  data_out' = LineWord(fetch_x)'
    <3>1. 0 \in data_ready_delay /\ Ahead - 3 = fetch_x'  BY <2>5, <2>11
    <3>2. data_out' = dq[3]  BY <2>2, <3>1 DEF DelayLine
    <3>3. fetch_x' \in Nat
      <4>1. \/ ~data_out_ready /\ fetch_x' = fetch_x
            \/ fetch_x' = fetch_x + 1
        BY <1>1, FetchCounts
      <4> QED  BY <2>4, <4>1
    <3>4. 3 <= Ahead /\ Ahead - 3 < FETCHW  BY <2>5, <2>11, <3>1, <3>3
    <3>5. dq[3] = LineWord(Ahead - 3)  BY <2>7, <3>4
    <3>6. LineWord(fetch_x)' = LineWord(Ahead - 3)
      BY <1>2, <2>3, <3>1 DEF LineWord, LineCell
    <3> QED  BY <3>2, <3>5, <3>6
  <2> QED  BY <2>10, <2>11
<1> QED  BY <1>1, <1>5, <1>6

\* With every word that comes back the buffer has one more word of the line.
LEMMA BufferFills ==
  ASSUME CardInv, FetchPort, FetchPhases, LineWords, LineBuffered, Clock, arb = "FETCHING_ROW"
  PROVE  \A i \in 0 .. FETCHW - 1 : i < fetch_x' => fetch_buffer'[i] = LineWord(i)'
<1> DEFINE in == Port(sdram_reset)
<1>0. SDRAMClock(in)  BY EdgeFacts
<1> HIDE DEF in
<1>1. /\ FETCHW \in Nat /\ fetch_x \in 0 .. FETCHW + 1
  BY SizesAssumption DEF FetchPort
<1>2. /\ FetchCell' = FetchCell /\ FetchingRow
      /\ ~data_out_ready => fetch_x' = fetch_x
      /\ data_out_ready => fetch_x' = fetch_x + 1
  BY FetchCounts
<1>3. CASE FetchAsked \/ FetchQueued \/ FetchStarts
  <2>1. fetch_x = 0 /\ ~data_out_ready
    BY <1>3 DEF FetchAsked, FetchQueued, FetchStarts, NothingBack, NoReadsOut
  <2>2. fetch_x' = 0  BY <1>2, <2>1
  <2> QED  BY <1>1, <2>2
<1>4. CASE FetchFills \/ FetchFlows \/ FetchEnds
  <2>1. mem' = mem
    <3>1. CASE FetchFills \/ FetchFlows
      <4>1. state = "burst_read" /\ Chip  BY <1>0, <3>1 DEF FetchFills, FetchFlows, SDRAMClock
      <4> QED  BY <4>1, ChipInBurst
    <3>2. CASE FetchEnds
      <4>1. iob.cmd = "TERMINATE"  BY <3>2 DEF LineBuffered
      <4>2. ~WritesNow  BY <4>1 DEF WritesNow
      <4> QED  BY <1>0, <4>2 DEF SDRAMClock, Chip, MemNow
    <3> QED  BY <1>4, <3>1, <3>2
  <2>2. \A j : LineWord(j)' = LineWord(j)  BY <1>2, <2>1 DEF LineWord, LineCell
  <2>3. CASE ~data_out_ready
    <3>1. fetch_x' = fetch_x  BY <1>2, <2>3
    <3>2. fetch_buffer' = fetch_buffer  BY <1>2, <2>3 DEF FetchingRow
    <3> QED  BY <2>2, <3>1, <3>2 DEF LineBuffered
  <2>4. CASE data_out_ready
    <3>1. fetch_x' = fetch_x + 1  BY <1>2, <2>4
    <3>2. fetch_buffer' = [fetch_buffer EXCEPT ![fetch_x] = data_out]
      BY <1>2, <2>4 DEF FetchingRow
    <3>3. DOMAIN fetch_buffer = 0 .. FETCHW + 8  BY DEF LineBuffered
    <3> SUFFICES ASSUME NEW i \in 0 .. FETCHW - 1, i < fetch_x'
                 PROVE  fetch_buffer'[i] = LineWord(i)
      BY <2>2
    <3>4. i \in DOMAIN fetch_buffer  BY <1>1, <3>3
    <3>5. CASE i = fetch_x
      <4>1. fetch_buffer'[i] = data_out  BY <3>2, <3>4, <3>5
      <4>2. fetch_x < FETCHW  BY <1>1, <3>5
      <4>3. ~FetchEnds  BY <1>1, <4>2 DEF FetchEnds
      <4>4. InBurst  BY <1>4, <4>3 DEF InBurst
      <4>5. data_out = LineWord(fetch_x)  BY <2>4, <4>2, <4>4 DEF LineWords
      <4> QED  BY <3>5, <4>1, <4>5
    <3>6. CASE i # fetch_x
      <4>1. fetch_buffer'[i] = fetch_buffer[i]  BY <3>2, <3>4, <3>6
      <4>2. i < fetch_x  BY <1>1, <3>1, <3>6
      <4> QED  BY <4>1, <4>2 DEF LineBuffered
    <3> QED  BY <3>5, <3>6
  <2> QED  BY <2>3, <2>4
<1> QED  BY <1>3, <1>4 DEF FetchPhases

LEMMA BufferDomain ==
  ASSUME NEW p, ArbiterStep(p), DOMAIN fetch_buffer = 0 .. FETCHW + 8
  PROVE  DOMAIN fetch_buffer' = 0 .. FETCHW + 8
<1>1. CASE FetchingRow
  BY <1>1 DEF FetchingRow
<1>2. CASE ~FetchingRow
  <2>1. fetch_buffer' = fetch_buffer
    BY <1>2 DEF ArbiterStep, fetchVars, Ready, FetchNext, FetchDone, BurstOn, BurstOff, NobodyServed,
       GrantFetch, GrantWrite, GrantRead, FillPixel, FillRow, FillEnd, GrantCopyRead,
       GrantCopyWrite, CaptureWord, CaptureEnd, GrantRefresh, RefreshPre, Refresh, RefreshEnd,
       WriteEnd1, WriteEnd, CopyRead1, CopyRead, CopyWrite, CopyWriteWaits, ReadingZorroPre,
       ReadingZorro, WritingZorroPre, WritingZorro
  <2> QED  BY <2>1
<1> QED  BY <1>1, <1>2

LEMMA LineBufferedStep ==
  ASSUME FETCHW > 1, CardInv, LineAt, FetchPort, FetchPhases, LineWords, LineBuffered, Clock
  PROVE  LineBuffered'
<1> DEFINE in == Port(sdram_reset)
<1>0. SDRAMClock(in)  BY EdgeFacts
<1> HIDE DEF in
<1>1. PICK p \in {BlitterStarted, blit} : ArbiterStep(p)  BY DEF Clock
<1>2. DOMAIN fetch_buffer' = 0 .. FETCHW + 8  BY <1>1, BufferDomain DEF LineBuffered
<1>3. FETCHW \in Nat  BY SizesAssumption
<1>4. ASSUME arb' = "FETCHING_ROW"
      PROVE  arb = "FETCHING_ROW" \/ fetch_x' = 0
  <2>1. CASE BurstOn
    BY <2>1 DEF BurstOn, At, LineAt, fetchVars
  <2>2. CASE FetchingRow
    BY <2>2 DEF FetchingRow, At
  <2> QED  BY <1>1, <1>4, <2>1, <2>2, ArrivesFetching
<1>5. ASSUME arb' = "FETCHING_ROW", NEW i \in 0 .. FETCHW - 1, i < fetch_x'
      PROVE  fetch_buffer'[i] = LineWord(i)'
  <2>1. fetch_x' # 0  BY <1>5
  <2> QED  BY <1>4, <1>5, <2>1, BufferFills
<1>6. ASSUME arb' = "FETCHING_ROW", FetchEnds'
      PROVE  iob'.cmd = "TERMINATE"
  <2>1. state' = "precharge" /\ fetch_x' = FETCHW + 1  BY <1>6 DEF FetchEnds
  <2>2. arb = "FETCHING_ROW"  BY <1>3, <1>4, <1>6, <2>1
  <2>3. /\ fetch_x \in 0 .. FETCHW + 1 /\ FetchingRow
        /\ ~data_out_ready => fetch_x' = fetch_x
        /\ data_out_ready => fetch_x' = fetch_x + 1
    BY <2>2, FetchCounts DEF FetchPort
  <2>4. fetch_x > 0  BY <1>3, <2>1, <2>3
  <2>5. FetchFlows \/ FetchEnds
    BY <2>2, <2>4 DEF FetchPhases, FetchAsked, FetchQueued, FetchStarts, FetchFills, NothingBack
  <2>6. data_out_ready  BY <2>5 DEF FetchFlows, FetchEnds
  <2>7. fetch_x = FETCHW  BY <1>3, <2>1, <2>3, <2>6
  <2>8. state = "burst_read"  BY <1>3, <2>5, <2>7 DEF FetchFlows, FetchEnds
  <2>9. ControllerState(in)  BY <1>0 DEF SDRAMClock
  <2>10. ~BurstRead(in)
    BY <2>1 DEF BurstRead, Goto
  <2>11. BurstTerminate(in)
    BY <2>8, <2>9, <2>10 DEF ControllerState, Startup, IdleWait, LoadMode, Activate, IdleNop, OpenIn2,
       OpenIn1, Read1, ReadTail, Write1, Write2, Write3, Precharge, AfterWait, AfterRead
  <2>12. iob \in Pins  BY DEF CardInv, SafeInv, TypeInv, TypeOK, ControllerTypeOK
  <2> QED  BY <2>11, <2>12 DEF BurstTerminate, Pins
<1> QED  BY <1>2, <1>5, <1>6 DEF LineBuffered

LEMMA LineArrivedStep ==
  ASSUME CardInv, FetchPort, FetchPhases, LineWords, LineBuffered, Clock
  PROVE  LineArrived'
<1> SUFFICES ASSUME arb' = "READY", row_fetched', NEW i \in 0 .. FETCHW - 1
             PROVE  fetch_buffer'[i] = LineWord(i)'
  BY DEF LineArrived
<1>1. PICK p \in {BlitterStarted, blit} : ArbiterStep(p)  BY DEF Clock
<1>2. ~GrantFetch  BY DEF GrantFetch
<1>3. FetchingRow  BY <1>1, <1>2, ArrivesFetching
<1>4. arb = "FETCHING_ROW" /\ fetch_x = FETCHW + 1  BY <1>3, FetchOver DEF FetchingRow, At
<1>5. FETCHW \in Nat  BY SizesAssumption
<1>6. fetch_x' = fetch_x \/ fetch_x' = fetch_x + 1  BY <1>4, FetchCounts
<1>7. i < fetch_x'  BY <1>4, <1>5, <1>6
<1> QED  BY <1>4, <1>7, BufferFills

LEMMA LineAddressedStep ==
  ASSUME CaptureBase = 0, LineAt, LineAt', LineAddressed, Clock
  PROVE  LineAddressed'
<1>1. PICK p \in {BlitterStarted, blit} : ArbiterStep(p)  BY DEF Clock
<1>2. pan_ptr' = pan_ptr  BY DEF LineAt
<1> SUFFICES ASSUME arb' \in {"READY2", "BURST_ON", "FETCHING_ROW"} \/ (arb' = "READY" /\ row_fetched')
             PROVE  fetch_y' = Addr(pan_ptr' + fetch_line_y' * FETCHW)
  BY DEF LineAddressed
<1>3. CASE Ready
  BY <1>2, <1>3 DEF Ready
<1>4. CASE FetchNext \/ FetchDone \/ BurstOn \/ FetchingRow
  <2>1. fetch_y' = fetch_y /\ fetch_line_y' = fetch_line_y /\ arb \in {"READY2", "BURST_ON", "FETCHING_ROW"}
    BY <1>4 DEF FetchNext, FetchDone, BurstOn, FetchingRow, fetchVars, At
  <2> QED  BY <1>2, <2>1 DEF LineAddressed
<1>5. ~(GrantFetch /\ row_fetched')  BY DEF GrantFetch
<1> QED  BY <1>1, <1>3, <1>4, <1>5, ArrivesFetching

\* Where a line is a whole row of the chip, as on the card, no line wraps.
LEMMA WholeRows ==
  ASSUME FETCHW = NCols, CaptureBase % NCols = 0
  PROVE  LinesInRows
<1>1. NCols \in Nat \ {0} /\ CaptureBase \in Nat /\ Lines \in Nat
  BY GeometryAssumption, SizesAssumption, HostAssumption DEF NCols
<1> SUFFICES ASSUME NEW base \in {0, CaptureBase}, NEW y \in 0 .. Lines
             PROVE  ((base + y * FETCHW) % NCols) + FETCHW <= NCols
  BY DEF LinesInRows
<1> DEFINE q == base \div NCols
<1>2. base \in Int /\ base % NCols = 0  BY <1>1
<1>3. q \in Int /\ base = NCols * q  BY <1>1, <1>2, Split
<1> HIDE DEF q
<1>4. base + y * FETCHW = NCols * (q + y) + 0 /\ q + y \in Int
  <2>1. y \in Int /\ y * FETCHW = NCols * y  BY <1>1
  <2>2. NCols * q + NCols * y = NCols * (q + y)  BY <1>1, <1>3, <2>1
  <2> QED  BY <1>1, <1>3, <2>1, <2>2
<1>5. 0 \in 0 .. NCols - 1  BY <1>1
<1>6. (NCols * (q + y) + 0) % NCols = 0  BY <1>1, <1>4, <1>5, Remainder
<1> QED  BY <1>1, <1>4, <1>6

LEMMA Quotient ==
  ASSUME NEW n \in Nat \ {0}, NEW q \in Int, NEW r \in 0 .. n - 1
  PROVE  (n * q + r) \div n = q
<1> DEFINE a == n * q + r
           p == a \div n
           s == a % n
<1>1. a \in Int  OBVIOUS
<1>2. p \in Int /\ s \in 0 .. n - 1 /\ a = n * p + s  BY <1>1, Split
<1>3. s = r  BY Remainder
<1> HIDE DEF p, s
<1>4. n * p = n * q  BY <1>2, <1>3
<1>5. p = q
  <2>1. \A m \in Nat \ {0}, i, j \in Int : m * i = m * j => i = j  OBVIOUS
  <2> QED  BY <1>2, <1>4, <2>1
<1> QED  BY <1>5 DEF p

\* The cells of the addresses after one in its row.
LEMMA CellAlong ==
  ASSUME NEW a \in Int, NEW i \in Nat, CellAt(a)[3] + i <= LastCol
  PROVE  CellAt(a + i) = <<CellAt(a)[1], CellAt(a)[2], CellAt(a)[3] + i>>
<1> DEFINE A == Addr(a)
           k == A \div NCols
           r == A % NCols
           m == NBanks * NRows
<1>1. /\ NCols \in Nat \ {0} /\ Size \in Nat \ {0} /\ m \in Nat \ {0} /\ NRows \in Nat \ {0}
      /\ NRows * NCols \in Nat \ {0} /\ NCols = LastCol + 1 /\ LastCol \in Nat
  BY GeometryAssumption DEF Size, NCols
<1>2. A \in 0 .. Size - 1 /\ A \in Int /\ Size = NCols * m
  BY <1>1, AddrFacts DEF Addresses, Size
<1>3. k \in Int /\ r \in 0 .. NCols - 1 /\ A = NCols * k + r
  BY <1>1, <1>2, Split
<1>4. CellAt(a) = CellAt(A) /\ CellAt(a)[3] = r
  BY <1>2, ColumnFacts
<1>5. r + i \in 0 .. NCols - 1  BY <1>1, <1>3, <1>4
<1> HIDE DEF A, k, r, m
<1>6. A + i = NCols * k + (r + i)  BY <1>1, <1>3, <1>5
<1>7. A + i \in 0 .. Size - 1
  <2>1. k < m
    <3>1. NCols * k < NCols * m  BY <1>1, <1>2, <1>3
    <3>2. \A n \in Nat \ {0}, x, y \in Int : n * x < n * y => x < y  OBVIOUS
    <3> QED  BY <1>1, <1>3, <3>1, <3>2
  <2>2. k + 1 <= m  BY <1>1, <1>3, <2>1
  <2>3. NCols * (k + 1) <= NCols * m
    <3>1. \A n \in Nat \ {0}, x, y \in Int : x <= y => n * x <= n * y  OBVIOUS
    <3>2. k + 1 \in Int /\ m \in Int  BY <1>1, <1>3
    <3> QED  BY <1>1, <2>2, <3>1, <3>2
  <2>4. NCols * (k + 1) = NCols * k + NCols  BY <1>1, <1>3
  <2>5. A + i < NCols * k + NCols  BY <1>1, <1>3, <1>5, <1>6
  <2> QED  BY <1>1, <1>2, <1>3, <2>3, <2>4, <2>5
<1>8. CellAt(a + i) = CellAt(A + i)
  <2>1. a + i \in Int /\ A + i \in Int  BY <1>2
  <2>2. Addr(a + i) = Addr(A + i)
    <3> DEFINE q == a \div Size
    <3>1. q \in Int /\ a = Size * q + A  BY <1>1, Split DEF A, Addr
    <3> HIDE DEF q
    <3>2. a + i = Size * q + (A + i)  BY <1>1, <1>2, <3>1
    <3>5. (Size * q + (A + i)) % Size = A + i  BY <1>1, <1>7, <3>1, Remainder
    <3>3. (a + i) % Size = A + i  BY <3>2, <3>5
    <3>4. Addr(A + i) = A + i  BY <1>7, <2>1, AddrFacts DEF Addresses
    <3> QED  BY <3>3, <3>4 DEF Addr
  <2>3. CellAt(Addr(a + i)) = CellAt(a + i) /\ CellAt(Addr(A + i)) = CellAt(A + i)
    BY <2>1, ColumnFacts
  <2> QED  BY <2>2, <2>3
<1>9. Addr(A + i) = A + i /\ Addr(A) = A
  BY <1>2, <1>7, AddrFacts DEF Addresses
<1>10. (A + i) \div NCols = k /\ A \div NCols = k /\ (A + i) % NCols = r + i
  <2>1. \A t \in 0 .. NCols - 1 : (NCols * k + t) \div NCols = k /\ (NCols * k + t) % NCols = t
    BY <1>1, <1>3, Quotient, Remainder
  <2> QED  BY <1>3, <1>5, <1>6, <2>1
<1>11. (A + i) \div (NRows * NCols) = A \div (NRows * NCols)
  <2> DEFINE j == k \div NRows
             s == k % NRows
  <2>1. j \in Int /\ s \in 0 .. NRows - 1 /\ k = NRows * j + s  BY <1>1, <1>3, Split
  <2> HIDE DEF j, s
  <2>2. NCols * k = (NRows * NCols) * j + NCols * s
    <3>1. NCols * k = NCols * (NRows * j) + NCols * s  BY <1>1, <2>1
    <3>2. NCols * (NRows * j) = (NRows * NCols) * j  BY <1>1, <2>1
    <3> QED  BY <3>1, <3>2
  <2>3. ASSUME NEW t \in 0 .. NCols - 1  PROVE NCols * s + t \in 0 .. (NRows * NCols) - 1
    <3>1. s + 1 <= NRows /\ s + 1 \in Int /\ NRows \in Int /\ s \in Nat  BY <1>1, <2>1
    <3>2. \A n \in Nat \ {0}, x, y \in Int : x <= y => n * x <= n * y  OBVIOUS
    <3>3. NCols * (s + 1) <= NCols * NRows  BY <1>1, <3>1, <3>2
    <3>4. NCols * (s + 1) = NCols * s + NCols /\ NCols * NRows = NRows * NCols
          /\ NCols * s \in Nat
      BY <1>1, <3>1
    <3> QED  BY <1>1, <2>3, <3>3, <3>4
  <2>4. ASSUME NEW t \in 0 .. NCols - 1
        PROVE  (NCols * k + t) \div (NRows * NCols) = j
    <3>1. NCols * k + t = (NRows * NCols) * j + (NCols * s + t)
      <4>1. NCols * k \in Int /\ NCols * s \in Int /\ (NRows * NCols) * j \in Int /\ t \in Int
        BY <1>1, <1>3, <2>1
      <4> QED  BY <2>2, <4>1
    <3>2. NCols * s + t \in 0 .. (NRows * NCols) - 1  BY <2>3
    <3> QED  BY <1>1, <2>1, <3>1, <3>2, Quotient
  <2> QED  BY <1>3, <1>5, <1>6, <2>4
<1>12. CellAt(A + i) = <<A \div (NRows * NCols), k % NRows, r + i>>
  BY <1>9, <1>10, <1>11 DEF CellAt
<1>13. CellAt(A) = <<A \div (NRows * NCols), k % NRows, r>>
  BY <1>9, <1>10, <1>4 DEF CellAt, k, r
<1> QED  BY <1>4, <1>8, <1>12, <1>13

LineInv == LineStreams /\ LineWords /\ LineBuffered /\ LineArrived

LEMMA LineStarts == CardInit => LineInv /\ LineAddressed
<1> SUFFICES ASSUME CardInit PROVE LineInv /\ LineAddressed  OBVIOUS
<1>1. /\ arb = "READY" /\ ~row_fetched
      /\ fetch_buffer = [i \in 0 .. FETCHW + 8 |-> NoData]
  BY DEF CardInit, ArbiterInit
<1> QED
  BY <1>1 DEF LineInv, LineStreams, LineWords, LineBuffered, LineArrived, LineAddressed, InBurst

LEMMA LineKept ==
  ASSUME UNCHANGED cardVars
  PROVE  /\ LineInv => LineInv'
         /\ LineAddressed => LineAddressed'
<1>1. UNCHANGED <<ctrlVars, chipVars, arb, fetchVars, pan_ptr>>
  BY DEF cardVars, sdramVars, inputVars
<1>2. /\ FetchCell' = FetchCell /\ SavedCell' = SavedCell /\ ColNow' = ColNow /\ Ahead' = Ahead
      /\ InBurst' = InBurst
  BY <1>1 DEF ctrlVars, chipVars, fetchVars, FetchCell, SavedCell, ColNow, Ahead, InBurst,
     FetchFills, FetchFlows
<1>3. FetchEnds' = FetchEnds
  BY <1>1 DEF ctrlVars, fetchVars, FetchEnds
<1>4. \A i : LineWord(i)' = LineWord(i)
  BY <1>1, <1>2 DEF chipVars, LineWord, LineCell
<1>5. LineStreams => LineStreams'
  BY <1>1, <1>2 DEF ctrlVars, chipVars, LineStreams
<1>6. LineWords => LineWords'
  <2> SUFFICES ASSUME LineWords, InBurst
               PROVE  /\ \A i \in 1 .. 3 : i <= Ahead' /\ Ahead' - i < FETCHW =>
                                             dq'[i] = LineWord(Ahead - i)'
                      /\ data_out_ready' /\ fetch_x' < FETCHW => data_out' = LineWord(fetch_x)'
    BY <1>2 DEF LineWords
  <2>1. /\ dq' = dq /\ data_out' = data_out /\ data_out_ready' = data_out_ready
        /\ fetch_x' = fetch_x /\ mem' = mem
    BY <1>1 DEF ctrlVars, chipVars, fetchVars
  <2> QED  BY <1>2, <2>1 DEF LineWords, LineWord, LineCell
<1>7. LineBuffered => LineBuffered'
  <2> SUFFICES ASSUME LineBuffered PROVE LineBuffered'  OBVIOUS
  <2>1. arb' = arb /\ fetch_x' = fetch_x /\ fetch_buffer' = fetch_buffer /\ iob' = iob
    BY <1>1 DEF ctrlVars, fetchVars
  <2> QED  BY <1>3, <1>4, <2>1 DEF LineBuffered
<1>8. LineArrived => LineArrived'
  BY <1>1, <1>4 DEF fetchVars, LineArrived
<1>9. LineAddressed => LineAddressed'
  BY <1>1 DEF fetchVars, LineAddressed
<1> QED  BY <1>5, <1>6, <1>7, <1>8, <1>9 DEF LineInv

LEMMA LineInvStep ==
  ASSUME FETCHW > 1, CardInv, RangeInv, PortInv, LineInv, Clock
  PROVE  LineInv'
<1>1. Free /\ LineAt /\ FetchPort /\ FetchPhases  BY DEF PortInv
<1>2. LineStreams /\ LineWords /\ LineBuffered  BY DEF LineInv
<1>3. LineStreams'  BY <1>1, <1>2, LineStreamsStep
<1>4. LineWords'  BY <1>1, <1>2, LineWordsStep
<1>5. LineBuffered'  BY <1>1, <1>2, LineBufferedStep
<1>6. LineArrived'  BY <1>1, <1>2, LineArrivedStep
<1> QED  BY <1>3, <1>4, <1>5, <1>6 DEF LineInv

(* When the arbiter declares a row fetched, the line buffer holds, word by *)
(* word, the row of the chip from the cell of the address it fetched from, *)
(* although the words came through a delay line in a full-page burst that  *)
(* the controller breaks off: none is lost, doubled or out of place.       *)
THEOREM LinesArrive ==
  ASSUME ~ResetAllowed, margin_x = 0, FETCHW > 1, BLITTER_COPY_SIZE > 0, LinesInRows, WaitsSuffice
  PROVE  CardSpec /\ OffBetweenLines => []LineArrived
<1>1. /\ CardInv /\ RangeInv /\ PortInv /\ LineInv /\ [Clock]_cardVars
      /\ [WritesCapture /\ bus.op.value # 1 => cap.line_saved]_cardVars
      => CardInv' /\ RangeInv' /\ PortInv' /\ LineInv'
  <2> SUFFICES ASSUME CardInv, RangeInv, PortInv, LineInv, [Clock]_cardVars,
                      [WritesCapture /\ bus.op.value # 1 => cap.line_saved]_cardVars
               PROVE  CardInv' /\ RangeInv' /\ PortInv' /\ LineInv'
    OBVIOUS
  <2>1. CardInv' /\ RangeInv'  BY CardStep, RangesStep
  <2>2. CASE UNCHANGED cardVars
    BY <2>1, <2>2, PortKept, LineKept
  <2>3. CASE Clock /\ (WritesCapture /\ bus.op.value # 1 => cap.line_saved)
    <3>1. PortInv'  BY <2>1, <2>3, PortStep
    <3>2. LineInv'  BY <2>3, LineInvStep
    <3> QED  BY <2>1, <3>1, <3>2
  <2> QED  BY <2>1, <2>2, <2>3
<1>2. LineInv => LineArrived  BY DEF LineInv
<1> QED
  BY <1>1, <1>2, CardStarts, RangesStart, PortStarts, LineStarts, PTL DEF CardSpec, OffBetweenLines

LEMMA LineIsRight ==
  ASSUME margin_x = 0, LinesInRows, RangeInv, LineAt, LineArrived, LineAddressed
  PROVE  FetchedLineRight
<1> SUFFICES ASSUME arb = "READY", row_fetched, NEW i \in 0 .. FETCHW - 1 - margin_x
             PROVE  fetch_buffer[i] = mem[CellAt(pan_ptr + fetch_line_y * FETCHW + margin_x + i)]
  BY DEF FetchedLineRight
<1> DEFINE a == pan_ptr + fetch_line_y * FETCHW
<1>1. /\ FETCHW \in Nat /\ NCols \in Nat \ {0} /\ NCols = LastCol + 1 /\ LastCol \in Nat
      /\ fetch_line_y \in 0 .. Lines /\ pan_ptr \in {0, CaptureBase} /\ CaptureBase \in Nat
      /\ Lines \in Nat
  BY SizesAssumption, GeometryAssumption, HostAssumption DEF LineAt, RangeInv, HostTyped, NCols
<1>2. a \in Int  BY <1>1
<1>3. i \in 0 .. FETCHW - 1 /\ a + margin_x + i = a + i
  <2>1. margin_x \in Int /\ i \in Int  BY <1>1
  <2>2. \A m \in Int : m = 0 => FETCHW - 1 - m = FETCHW - 1 /\ a + m + i = a + i  BY <1>1, <1>2, <2>1
  <2>3. FETCHW - 1 - margin_x = FETCHW - 1 /\ a + margin_x + i = a + i  BY <2>1, <2>2, Zenon
  <2> QED  BY <2>3
<1>4. fetch_buffer[i] = LineWord(i)  BY <1>3 DEF LineArrived
<1>5. fetch_y = Addr(a)  BY DEF LineAddressed
<1>6. FetchCell = CellAt(a)  BY <1>2, <1>5, ColumnFacts DEF FetchCell
<1>7. CellAt(a)[3] + FETCHW <= NCols
  <2>1. (a % NCols) + FETCHW <= NCols  BY <1>1 DEF LinesInRows
  <2> QED  BY <1>2, <2>1, ColumnFacts
<1>8. CellAt(a + i) = LineCell(i)
  <2>1. CellAt(a)[3] \in Int  BY <1>1, <1>2, ColumnFacts
  <2>2. CellAt(a)[3] + i <= LastCol /\ i \in Nat  BY <1>1, <1>3, <1>7, <2>1
  <2>3. CellAt(a + i) = <<CellAt(a)[1], CellAt(a)[2], CellAt(a)[3] + i>>
    BY <1>2, <2>2, CellAlong
  <2> QED  BY <1>6, <2>3 DEF LineCell
<1> QED  BY <1>3, <1>4, <1>8 DEF LineWord

(* Every line declared fetched is the line that was asked for, at the      *)
(* address pan_ptr and the line number give.  It is stated for a RESET     *)
(* that leaves pan_ptr where it was: otherwise the one line already under  *)
(* way when RESET moves pan_ptr is still that of address 0.                *)
THEOREM LinesRight ==
  ASSUME ~ResetAllowed, margin_x = 0, FETCHW > 1, BLITTER_COPY_SIZE > 0, LinesInRows, WaitsSuffice,
         CaptureBase = 0
  PROVE  CardSpec /\ OffBetweenLines => []FetchedLineRight
<1>1. /\ CardInv /\ RangeInv /\ PortInv /\ LineInv /\ LineAddressed /\ [Clock]_cardVars
      /\ [WritesCapture /\ bus.op.value # 1 => cap.line_saved]_cardVars
      => CardInv' /\ RangeInv' /\ PortInv' /\ LineInv' /\ LineAddressed'
  <2> SUFFICES ASSUME CardInv, RangeInv, PortInv, LineInv, LineAddressed, [Clock]_cardVars,
                      [WritesCapture /\ bus.op.value # 1 => cap.line_saved]_cardVars
               PROVE  CardInv' /\ RangeInv' /\ PortInv' /\ LineInv' /\ LineAddressed'
    OBVIOUS
  <2>1. CardInv' /\ RangeInv'  BY CardStep, RangesStep
  <2>2. CASE UNCHANGED cardVars
    BY <2>1, <2>2, PortKept, LineKept
  <2>3. CASE Clock /\ (WritesCapture /\ bus.op.value # 1 => cap.line_saved)
    <3>1. PortInv'  BY <2>1, <2>3, PortStep
    <3>2. LineInv'  BY <2>3, LineInvStep
    <3>3. LineAt /\ LineAt'  BY <3>1 DEF PortInv
    <3>4. LineAddressed'  BY <2>3, <3>3, LineAddressedStep
    <3> QED  BY <2>1, <3>1, <3>2, <3>4
  <2> QED  BY <2>1, <2>2, <2>3
<1>2. RangeInv /\ PortInv /\ LineInv /\ LineAddressed => FetchedLineRight
  BY LineIsRight DEF PortInv, LineInv
<1> QED
  BY <1>1, <1>2, CardStarts, RangesStart, PortStarts, LineStarts, PTL DEF CardSpec, OffBetweenLines
=============================================================================
