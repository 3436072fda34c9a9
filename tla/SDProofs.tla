------------------------------ MODULE SDProofs ------------------------------
(***************************************************************************)
(* Theorems about mntsd.device, its controller and the memory card, for    *)
(* every size of a block and of the device, every set of callers, every    *)
(* count of retries and any number of cards pulled out and put in.         *)
(***************************************************************************)
EXTENDS SDDevice, TLAPS

Current == job.block + i                \* the block the task has reached
DataIn == SubSeq(buf, 1, DataBytes)     \* what a full buffer holds
Full == phase \in {"wr", "prog"} /\ cnt = TotalBytes
Moving == pc \in {"start", "byte", "ack"}

(* The registers, the job and the buffers have their shapes.               *)
RegNames == {"read", "write", "handshake", "addr_hi", "addr_lo", "data_in"}
RegShape == DOMAIN reg = RegNames
JobShape ==
  /\ DOMAIN job = {"op", "block", "len", "data"}
  /\ job.op \in {"read", "write"} /\ job.block \in Nat /\ job.len \in Nat
  /\ DOMAIN job.data = 1..job.len
Shapes ==
  /\ RegShape /\ JobShape /\ i \in 0..job.len
  /\ cells \in [Blocks -> Contents] /\ DOMAIN acked = Addresses
  /\ dataOut \in Wire /\ got \in Seq(Wire) /\ buf \in Seq(Wire)

(* The task serves a request of this behavior's callers.                   *)
Serving ==
  /\ callers \in Callers
  /\ dev = "io" =>
       /\ io \in callers.requests /\ Moves(io)
       /\ job.op = (IF Writes(io) THEN "write" ELSE "read")
       /\ job.block = FirstBlock(io) /\ job.len = BlockCount(io)
       /\ Writes(io) => job = JobOf(io)
       /\ Writes(io) => \A b \in BlocksOf(io) \cap Addresses : acked[b] = Unknown

(* The task's half: which registers are up in which loop.                  *)
Commands ==
  /\ reg.read => pc \in {"start", "byte"} /\ job.op = "read"
  /\ reg.write => pc = "byte" /\ job.op = "write"
  /\ reg.read \/ reg.write => x = 0 /\ AddrIn = Current
  /\ reg.handshake <=> pc = "ack"
  /\ Moving => i < job.len
  /\ pc = "start" => x = 0
  /\ pc = "busy" => problems = 0 /\ i = 0
  /\ pc = "start" /\ job.op = "write" => problems = 0
  /\ pc = "start" => got = <<>>
  /\ pc \in {"byte", "ack"} /\ job.op = "read" => Len(got) = IF pc = "ack" THEN x + 1 ELSE x

(* The controller's half: what its phase says about its other registers.   *)
Phased ==
  /\ hs => phase \in {"rd", "wr"}
  /\ ~hs => dataOut = Noise
  /\ phase \notin {"rd", "wr", "prog"} => cnt = 0
  /\ phase \notin {"wr", "prog"} => buf = <<>>
  /\ phase \in {"wr", "prog"} => Len(buf) = cnt /\ op = "write"
  /\ phase \in {"token", "rd"} => op = "read"
  /\ phase = "prog" => cnt = TotalBytes
  /\ phase = "rd" => addr \in Blocks
  /\ hs /\ phase = "rd" => dataOut = Noise \/ (cnt > 0 /\ dataOut = ByteOf(cells[addr], cnt))
  /\ hs /\ phase = "wr" => dataOut = Noise

(* A command the card can still answer is the one on the registers.        *)
CommandCurrent ==
  phase = "cmd" /\ card = "ready" =>
    /\ IF op = "read" THEN reg.read ELSE reg.write
    /\ addr = Current

(* While the task reads, the controller reads the block the task has       *)
(* reached or has just finished the one before; nothing is being written.  *)
PastBlock == phase = "wait" \/ (phase = "rd" /\ cnt = TotalBytes)
ReadCurrent ==
  job.op = "read" =>
    /\ Moving \/ (pc \in {"return", "idle"} /\ result = "OK" /\ job.len > 0) => phase \notin {"wr", "prog"}
    /\ Moving /\ phase \in {"token", "rd"} =>
         addr = Current \/ (phase = "rd" /\ cnt = TotalBytes /\ ~hs /\ reg.read)
    /\ pc \in {"byte", "ack"} =>
         \A k \in 1..Len(got) :
           \/ got[k] \in DataByte \cup {Noise}
           \/ /\ addr = Current /\ Current \in Blocks
              /\ \E half \in 1..CrcBytes :
                   got[k] = CrcByte(cells[Current], half) /\ (half = CrcBytes => PastBlock)
    /\ Moving \/ (pc = "return" /\ result = "OK") =>
         \A n \in 1..i : job.block + n - 1 \in Blocks /\ job.data[n] = cells[job.block + n - 1]

(* While the controller collects a block, task and controller are at the   *)
(* same byte of it.                                                        *)
Aligned ==
  /\ job.op = "write" /\ pc \in {"byte", "ack"} /\ addr = Current
  /\ cnt = IF pc = "ack" /\ ~hs THEN x + 1 ELSE x
  /\ \A k \in 1..cnt : buf[k] = ByteOf(job.data[i + 1], k)
  /\ pc = "ack" /\ hs => reg.data_in = ByteOf(job.data[i + 1], x + 1)
Collecting == phase = "wr" /\ cnt < TotalBytes => Aligned

(* A block that is being written is handed over as a whole, or the task    *)
(* has given up every byte of it: the count of problems shows it.          *)
Missed ==
  /\ ~reg.write /\ phase # "wr"
  /\ \E s \in {0, 1} : problems = (x + s + (IF pc = "ack" THEN 1 ELSE 0)) % ProblemValues
WriteCurrent ==
  job.op = "write" =>
    /\ Moving => phase \notin {"token", "rd"}
    /\ pc \in {"byte", "ack"} =>
         \/ problems \in {0, 1} /\ (reg.write \/ (phase = "wr" /\ Aligned))
         \/ Missed

(* A block handed over is one a caller meant for its address.  Nobody has  *)
(* been told of another content of it, and of the job it is the last: the  *)
(* one before, or the one that the task has just moved or failed to move.  *)
Delivered ==
  Full =>
    /\ ~hs /\ DataIn \in Meant(addr)
    /\ addr \in Blocks => acked[addr] \in {Unknown, DataIn}
    /\ job.op = "write" /\ (Moving \/ pc = "return") =>
         \/ phase = "wr" /\ pc = "ack" /\ Aligned
         \/ i > 0 /\ addr = Current - 1 /\ DataIn = job.data[i]
         \/ pc = "return" /\ result # "OK" /\ i < job.len /\ addr = Current

(* Content d of block b is stored, was dropped by the card, or is under way. *)
Safe(b, d) == cells[b] = d \/ b \in lost \/ (addr = b /\ Full /\ DataIn = d)
WrittenSafe ==
  /\ \A b \in Blocks : acked[b] # Unknown => Safe(b, acked[b])
  /\ job.op = "write" /\ (Moving \/ (pc = "return" /\ result = "OK")) =>
       \A n \in 1..i : job.block + n - 1 \in Blocks => Safe(job.block + n - 1, job.data[n])
Finished == pc = "return" /\ result = "OK" => i = job.len

SDInv ==
  /\ TypeOK /\ Shapes /\ Serving /\ Commands /\ Phased
  /\ CommandCurrent /\ ReadCurrent /\ Collecting /\ WriteCurrent
  /\ Delivered /\ WrittenSafe /\ Finished
  /\ NoForeignWrite /\ ReadRight
-----------------------------------------------------------------------------
(* The registers and the bytes of a block.                                 *)

LEMMA AddressSplit ==
  ASSUME NEW b \in Nat
  PROVE  /\ b \div LoSize \in Nat /\ b % LoSize \in 0..LoSize - 1
         /\ (b \div LoSize) * LoSize + (b % LoSize) = b
<1>1. LoSize \in Nat \ {0}  BY SDAssumption
<1> QED  BY <1>1

LEMMA AddressedReg ==
  ASSUME NEW r, DOMAIN r = RegNames, NEW b \in Nat
  PROVE  LET q == Addressed(r, b)
         IN  /\ DOMAIN q = RegNames /\ q.addr_hi \in Nat /\ q.addr_lo \in 0..LoSize - 1
             /\ q.addr_hi * LoSize + q.addr_lo = b
             /\ q.read = r.read /\ q.write = r.write /\ q.handshake = r.handshake
             /\ q.data_in = r.data_in
<1> DEFINE q == Addressed(r, b)
<1>1. /\ DOMAIN q = RegNames /\ q.addr_hi = b \div LoSize /\ q.addr_lo = b % LoSize
      /\ q.read = r.read /\ q.write = r.write /\ q.handshake = r.handshake
      /\ q.data_in = r.data_in
  BY DEF Addressed, RegNames
<1> QED  BY <1>1, AddressSplit

LEMMA CrcTellsApart ==
  ASSUME NEW d, NEW e, NEW h, NEW g, CrcByte(d, h) = CrcByte(e, g)
  PROVE  d = e /\ h = g
BY DEF CrcByte

LEMMA Sizes ==
  /\ DataBytes \in Nat \ {0} /\ CrcBytes = 2 /\ TotalBytes = DataBytes + 2
  /\ ProblemValues \in Nat \ {0, 1} /\ Blocks \subseteq Addresses /\ Addresses \subseteq Nat
  /\ SD_RETRY \in Nat \ {0}
<1>1. DataBytes \in Nat \ {0} /\ ProblemValues \in Nat \ {0} /\ TotalBytes = DataBytes + 2
  BY SDAssumption, DriverAssumption DEF TotalBytes, CrcBytes
<1>2. TotalBytes % ProblemValues # 0  BY DriverAssumption
<1>3. ProblemValues # 1  BY <1>1, <1>2
<1> QED  BY <1>1, <1>3, SDAssumption, CallersAssumption DEF CrcBytes

LEMMA BlockBytes ==
  ASSUME NEW c \in Contents, NEW k \in 1..TotalBytes
  PROVE  /\ ByteOf(c, k) \in Wire
         /\ k <= DataBytes => ByteOf(c, k) \in DataByte
         /\ k > DataBytes => ByteOf(c, k) = CrcByte(c, k - DataBytes) /\ k - DataBytes \in 1..CrcBytes
<1>1. CASE k <= DataBytes
  <2>1. k \in 1..DataBytes  BY <1>1
  <2> QED  BY <1>1, <2>1, Sizes DEF ByteOf, DataByte, Wire
<1>2. CASE k > DataBytes
  <2>1. k - DataBytes \in 1..CrcBytes  BY <1>2, Sizes
  <2> QED  BY <1>2, <2>1, Sizes DEF ByteOf, Wire
<1> QED  BY <1>1, <1>2, Sizes

LEMMA WholeBlock ==
  ASSUME NEW s \in Seq(Wire), Len(s) = TotalBytes, NEW c \in Contents,
         \A k \in 1..TotalBytes : s[k] = ByteOf(c, k)
  PROVE  SubSeq(s, 1, DataBytes) = c
<1>1. c = [k \in 1..DataBytes |-> c[k]]  BY ContentsAssumption
<1>2. SubSeq(s, 1, DataBytes) = [k \in 1..DataBytes |-> s[k]]  BY Sizes
<1>3. \A k \in 1..DataBytes : s[k] = c[k]  BY Sizes DEF ByteOf
<1> QED  BY <1>1, <1>2, <1>3

(* What the callers mean to write are contents, and so is what is written. *)
LEMMA MeantContents ==
  ASSUME callers \in Callers, NEW b \in Nat
  PROVE  Meant(b) \subseteq Contents
<1> SUFFICES ASSUME NEW d \in Meant(b)  PROVE d \in Contents
  OBVIOUS
<1>1. PICK r \in callers.requests : /\ Moves(r) /\ Writes(r) /\ b \in BlocksOf(r)
                                   /\ d = JobOf(r).data[b - FirstBlock(r) + 1]
  BY DEF Meant
<1>2. FirstBlock(r) \in Nat /\ BlockCount(r) \in Nat  BY <1>1, CallersAssumption
<1> DEFINE n == b - FirstBlock(r) + 1
<1>3. n \in 1..BlockCount(r)  BY <1>1, <1>2 DEF BlocksOf
<1>4. d = TagBlock(r.tag, n)  BY <1>1, <1>3 DEF JobOf
<1> QED  BY <1>1, <1>3, <1>4 DEF Contents

LEMMA JobContents ==
  ASSUME JobShape, Serving, dev = "io", job.op = "write", NEW n \in 1..job.len
  PROVE  /\ job.data[n] \in Contents /\ job.data[n] \in Meant(job.block + n - 1)
         /\ job.block + n - 1 \in BlocksOf(io)
<1>1. /\ io \in callers.requests /\ Moves(io) /\ Writes(io) /\ job = JobOf(io)
      /\ job.block = FirstBlock(io) /\ job.len = BlockCount(io) /\ callers \in Callers
  BY DEF Serving
<1>2. FirstBlock(io) \in Nat /\ BlockCount(io) \in Nat  BY <1>1 DEF JobShape
<1> DEFINE b == job.block + n - 1
<1>3. b \in BlocksOf(io) /\ b \in Nat /\ b - FirstBlock(io) + 1 = n  BY <1>1, <1>2 DEF BlocksOf
<1>4. job.data[n] \in Meant(b)  BY <1>1, <1>3 DEF Meant
<1> QED  BY <1>1, <1>3, <1>4, MeantContents

-----------------------------------------------------------------------------
(* Steps that change nothing the invariant speaks of.                      *)

SeenVars == <<sdVars, driverVars, dev, io, attempts, acked, callers>>

LEMMA MeantStays ==
  ASSUME callers' = callers
  PROVE  \A b : Meant(b)' = Meant(b)
BY DEF Meant

LEMMA UnseenStep ==
  ASSUME SDInv, UNCHANGED SeenVars
  PROVE  SDInv'
<1> USE DEF SDInv, SeenVars, sdVars, controllerVars, cardVars, driverVars
<1>1. TypeOK' /\ Shapes' /\ Serving' /\ Commands' /\ Phased'
  BY DEF TypeOK, Shapes, RegShape, JobShape, Serving, Commands, Moving, AddrIn, Current, Phased
<1>2. CommandCurrent' /\ ReadCurrent' /\ Collecting' /\ WriteCurrent'
  BY DEF CommandCurrent, ReadCurrent, Moving, Current, PastBlock, Collecting, Aligned, WriteCurrent, Missed
<1>3. Delivered' /\ WrittenSafe' /\ Finished'
  BY MeantStays DEF Delivered, Full, DataIn, Moving, Current, Aligned, WrittenSafe, Safe, Finished
<1>4. NoForeignWrite' /\ ReadRight'
  BY MeantStays DEF NoForeignWrite, ReadRight
<1> QED  BY <1>1, <1>2, <1>3, <1>4

LEMMA InitInv ==
  ASSUME Init
  PROVE  SDInv
<1> USE Sizes DEF Init, SDInit, DriverInit
<1>1. reg = [read |-> FALSE, write |-> FALSE, handshake |-> FALSE,
             addr_hi |-> 0, addr_lo |-> 0, data_in |-> Noise]
  OBVIOUS
<1>2. job = [op |-> "read", block |-> 0, len |-> 0, data |-> <<>>]  BY DEF NoJob
<1>3. OldCells \in [Blocks -> Contents]
  <2>1. \A b \in Blocks : OldCells[b] \in Contents  BY DEF Contents
  <2>2. OldCells = [b \in Blocks |-> OldCells[b]]  BY ContentsAssumption
  <2> QED  BY <2>1, <2>2
<1>4. TypeOK
  <2>1. reg.read \in BOOLEAN /\ reg.write \in BOOLEAN /\ reg.handshake \in BOOLEAN
    BY <1>1
  <2>2. reg.addr_hi \in Nat /\ reg.addr_lo \in 0..LoSize - 1  BY <1>1, SDAssumption
  <2>3. phase \in Phases /\ pc \in PollLoops  BY DEF Phases, PollLoops
  <2>4. hs \in BOOLEAN  OBVIOUS
  <2>5. /\ cnt \in 0..TotalBytes /\ x \in 0..TotalBytes - 1 /\ problems \in 0..ProblemValues - 1
        /\ attempts \in 0..SD_RETRY
    OBVIOUS
  <2>6. lost \subseteq Addresses /\ addr \in Nat  OBVIOUS
  <2>7. card \in {"out", "idle", "ready"} /\ op \in {"read", "write"}  OBVIOUS
  <2>8. result \in {"none", "OK", "TIMEOUT", "CRC"} /\ dev \in {"idle", "io"}  OBVIOUS
  <2>9. pc = "idle" <=> dev = "idle"  OBVIOUS
  <2> HIDE DEF Init, SDInit, DriverInit
  <2> QED  BY <2>1, <2>2, <2>3, <2>4, <2>5, <2>6, <2>7, <2>8, <2>9 DEF TypeOK
<1>5. Shapes
  <2>1. RegShape  BY <1>1 DEF RegShape, RegNames
  <2>2. JobShape /\ i \in 0..job.len  BY <1>2 DEF JobShape
  <2> QED  BY <1>3, <2>1, <2>2 DEF Shapes, Wire
<1>6. Serving /\ Commands /\ Phased /\ CommandCurrent /\ ReadCurrent /\ Collecting /\ WriteCurrent
  BY <1>1, <1>2 DEF Serving, Commands, Moving, Phased, CommandCurrent, ReadCurrent, Collecting, WriteCurrent
<1>7. Delivered /\ WrittenSafe /\ Finished /\ NoForeignWrite /\ ReadRight
  BY <1>1, <1>2 DEF Delivered, Full, WrittenSafe, Moving, Finished, NoForeignWrite, ReadRight
<1> QED  BY <1>4, <1>5, <1>6, <1>7 DEF SDInv

-----------------------------------------------------------------------------
(* Steps of the controller and of the card.                                *)

TaskVars == <<reg, driverVars, dev, io, attempts, acked, callers>>

LEMMA IdleMove ==
  ASSUME SDInv, UNCHANGED TaskVars, UNCHANGED <<hs, op, addr, cnt, buf, dataOut, cells, lost>>,
         phase \in {"start", "init", "cmd0", "acmd", "token"},
         phase' \in {"start", "init", "cmd0", "acmd", "wait"},
         card' \in {"out", "idle", "ready"}
  PROVE  SDInv'
<1> USE DEF SDInv, TaskVars, driverVars
<1>1. TypeOK' /\ Shapes' /\ Serving' /\ Commands'
  BY DEF TypeOK, Phases, Shapes, RegShape, JobShape, Serving, Commands, Moving, AddrIn, Current
<1>2. Phased'  BY DEF Phased
<1>3. CommandCurrent' /\ Collecting' /\ Delivered'  BY DEF CommandCurrent, Collecting, Delivered, Full
<1>4. ReadCurrent'  BY DEF ReadCurrent, Moving, Current, PastBlock
<1>5. WriteCurrent'  BY DEF WriteCurrent, Moving, Missed
<1>6. WrittenSafe' /\ Finished'  BY DEF WrittenSafe, Safe, Full, Moving, Finished
<1>7. NoForeignWrite' /\ ReadRight'  BY MeantStays DEF NoForeignWrite, ReadRight
<1> QED  BY <1>1, <1>2, <1>3, <1>4, <1>5, <1>6, <1>7

LEMMA CardChangeInv ==
  ASSUME SDInv, CardChange
  PROVE  SDInv'
<1> USE DEF SDInv
<1>0. /\ UNCHANGED TaskVars /\ UNCHANGED controllerVars /\ UNCHANGED <<cells, lost>>
      /\ card' \in {"out", "idle"}
  BY DEF CardChange, Remove, Insert, TaskVars, deviceVars, historyVars
<1> USE <1>0 DEF TaskVars, driverVars, controllerVars
<1>1. TypeOK' /\ Shapes' /\ Serving' /\ Commands' /\ Phased'
  BY DEF TypeOK, Shapes, RegShape, JobShape, Serving, Commands, Moving, AddrIn, Current, Phased
<1>2. CommandCurrent' /\ ReadCurrent' /\ Collecting' /\ WriteCurrent'
  BY DEF CommandCurrent, ReadCurrent, Moving, Current, PastBlock, Collecting, Aligned, WriteCurrent, Missed
<1>3. Delivered' /\ WrittenSafe' /\ Finished'
  BY MeantStays DEF Delivered, Full, DataIn, Moving, Current, Aligned, WrittenSafe, Safe, Finished
<1>4. NoForeignWrite' /\ ReadRight'
  BY MeantStays DEF NoForeignWrite, ReadRight
<1> QED  BY <1>1, <1>2, <1>3, <1>4

LEMMA TakeCommandInv ==
  ASSUME SDInv, UNCHANGED TaskVars, TakeCommand
  PROVE  SDInv'
<1> USE DEF SDInv, TaskVars, driverVars, cardVars
<1>0. AddrIn = Current /\ x = 0 /\ Current \in Nat
  BY Sizes DEF TakeCommand, Commands, Current, Shapes, JobShape
<1>1. TypeOK' /\ Shapes' /\ Serving' /\ Commands'
  BY <1>0 DEF TakeCommand, TypeOK, Phases, Shapes, RegShape, JobShape, Serving, Commands, Moving, AddrIn, Current
<1>2. Phased'  BY DEF TakeCommand, Phased, HandsDown
<1>3. CommandCurrent'  BY <1>0 DEF TakeCommand, CommandCurrent, Current
<1>4. Collecting' /\ Delivered'  BY DEF TakeCommand, Collecting, Delivered, Full
<1>5. ReadCurrent'
  <2>1. job.op = "read" => got = <<>>
    BY <1>0 DEF TakeCommand, Commands, Shapes
  <2> QED  BY <2>1 DEF TakeCommand, ReadCurrent, Moving, Current
<1>6. WriteCurrent'  BY DEF TakeCommand, WriteCurrent, Moving, Missed, Commands
<1>7. WrittenSafe' /\ Finished'  BY DEF TakeCommand, WrittenSafe, Safe, Full, Moving, Finished
<1>8. NoForeignWrite' /\ ReadRight'  BY MeantStays DEF TakeCommand, NoForeignWrite, ReadRight
<1> QED  BY <1>1, <1>2, <1>3, <1>4, <1>5, <1>6, <1>7, <1>8

LEMMA ResponseInv ==
  ASSUME SDInv, UNCHANGED TaskVars, Response
  PROVE  SDInv'
<1> USE DEF SDInv, TaskVars, driverVars, cardVars
<1>0. /\ addr = Current /\ IF op = "read" THEN reg.read ELSE reg.write
      /\ cnt = 0 /\ buf = <<>> /\ ~hs /\ op \in {"read", "write"}
  BY DEF Response, CommandCurrent, Phased, HandsDown, TypeOK
<1>1. TypeOK' /\ Shapes' /\ Serving' /\ Commands'
  BY DEF Response, GoTo, TypeOK, Phases, Shapes, RegShape, JobShape, Serving, Commands, Moving, AddrIn, Current
<1>2. Phased'  BY <1>0, Sizes DEF Response, GoTo, Phased, HandsDown
<1>3. CommandCurrent'  BY DEF Response, GoTo, CommandCurrent
<1>4. Collecting' /\ Delivered'
  <2>1. phase' = "wr" => job.op = "write" /\ pc = "byte" /\ x = 0
    BY <1>0 DEF Response, GoTo, Commands
  <2>2. phase' = "wr" => Aligned'  BY <1>0, <2>1 DEF Response, GoTo, Aligned, Current
  <2> QED  BY <1>0, <2>2, Sizes DEF Response, GoTo, Collecting, Delivered, Full
<1>5. ReadCurrent'
  <2>1. phase' # "wr" \/ job.op # "read"  BY <1>0 DEF Response, GoTo, Commands
  <2> QED  BY <1>0, <2>1 DEF Response, GoTo, ReadCurrent, Moving, Current, PastBlock
<1>6. WriteCurrent'
  <2>1. phase' = "token" => job.op = "read"  BY <1>0 DEF Response, GoTo, Commands
  <2>2. phase' = "wr" => reg.write  BY <1>0 DEF Response, GoTo
  <2> QED  BY <2>1, <2>2 DEF Response, GoTo, WriteCurrent, Moving, Missed
<1>7. WrittenSafe' /\ Finished'  BY DEF Response, GoTo, WrittenSafe, Safe, Full, Moving, Finished
<1>8. NoForeignWrite' /\ ReadRight'  BY MeantStays DEF Response, GoTo, NoForeignWrite, ReadRight
<1> QED  BY <1>1, <1>2, <1>3, <1>4, <1>5, <1>6, <1>7, <1>8

LEMMA StartTokenInv ==
  ASSUME SDInv, UNCHANGED TaskVars, StartToken
  PROVE  SDInv'
<1> USE DEF SDInv, TaskVars, driverVars, cardVars
<1>1. TypeOK' /\ Shapes' /\ Serving' /\ Commands'
  BY DEF StartToken, GoTo, TypeOK, Phases, Shapes, RegShape, JobShape, Serving, Commands, Moving, AddrIn, Current
<1>2. Phased'  BY DEF StartToken, GoTo, Phased, HandsDown
<1>3. CommandCurrent' /\ Collecting' /\ Delivered'
  BY DEF StartToken, GoTo, CommandCurrent, Collecting, Delivered, Full
<1>4. ReadCurrent'  BY DEF StartToken, GoTo, ReadCurrent, Moving, Current, PastBlock
<1>5. WriteCurrent'  BY DEF StartToken, GoTo, WriteCurrent, Moving, Missed
<1>6. WrittenSafe' /\ Finished'  BY DEF StartToken, GoTo, WrittenSafe, Safe, Full, Moving, Finished
<1>7. NoForeignWrite' /\ ReadRight'  BY MeantStays DEF StartToken, GoTo, NoForeignWrite, ReadRight
<1> QED  BY <1>1, <1>2, <1>3, <1>4, <1>5, <1>6, <1>7

LEMMA OfferByteInv ==
  ASSUME SDInv, UNCHANGED TaskVars, OfferByte
  PROVE  SDInv'
<1> USE DEF SDInv, TaskVars, driverVars, cardVars
<1>0. /\ phase = "rd" /\ addr \in Blocks /\ cells[addr] \in Contents
      /\ cnt' \in 1..TotalBytes /\ cnt' = cnt + 1 /\ cnt # TotalBytes /\ hs'
      /\ dataOut' = Noise \/ dataOut' = ByteOf(cells[addr], cnt')
  BY Sizes DEF OfferByte, Phased, Shapes, TypeOK
<1>1. dataOut' \in Wire  BY <1>0, BlockBytes DEF Wire
<1>2. TypeOK'  BY <1>0, Sizes DEF OfferByte, TypeOK
<1>3. Shapes' /\ Serving' /\ Commands'
  BY <1>1 DEF OfferByte, Shapes, RegShape, JobShape, Serving, Commands, Moving, AddrIn, Current
<1>4. Phased'  BY <1>0 DEF OfferByte, Phased
<1>5. CommandCurrent' /\ Collecting' /\ Delivered'
  BY DEF OfferByte, CommandCurrent, Collecting, Delivered, Full
<1>6. ReadCurrent'
  BY <1>0 DEF OfferByte, ReadCurrent, Moving, Current, PastBlock
<1>7. WriteCurrent'  BY DEF OfferByte, WriteCurrent, Moving, Missed
<1>8. WrittenSafe' /\ Finished'  BY DEF OfferByte, WrittenSafe, Safe, Full, Moving, Finished
<1>9. NoForeignWrite' /\ ReadRight'  BY MeantStays DEF OfferByte, NoForeignWrite, ReadRight
<1> QED  BY <1>2, <1>3, <1>4, <1>5, <1>6, <1>7, <1>8, <1>9

LEMMA ReadDoneInv ==
  ASSUME SDInv, UNCHANGED TaskVars, ReadDone
  PROVE  SDInv'
<1> USE DEF SDInv, TaskVars, driverVars, cardVars
<1>1. TypeOK' /\ Shapes' /\ Serving' /\ Commands'
  BY Sizes DEF ReadDone, TypeOK, Phases, Shapes, RegShape, JobShape, Serving, Commands, Moving, AddrIn, Current
<1>2. Phased'  BY DEF ReadDone, Phased, HandsDown
<1>3. CommandCurrent' /\ Collecting' /\ Delivered'
  BY DEF ReadDone, CommandCurrent, Collecting, Delivered, Full
<1>4. ReadCurrent'  BY DEF ReadDone, ReadCurrent, Moving, Current, PastBlock
<1>5. WriteCurrent'  BY DEF ReadDone, WriteCurrent, Moving, Missed
<1>6. WrittenSafe' /\ Finished'  BY DEF ReadDone, WrittenSafe, Safe, Full, Moving, Finished
<1>7. NoForeignWrite' /\ ReadRight'  BY MeantStays DEF ReadDone, NoForeignWrite, ReadRight
<1> QED  BY <1>1, <1>2, <1>3, <1>4, <1>5, <1>6, <1>7

LEMMA AskByteInv ==
  ASSUME SDInv, UNCHANGED TaskVars, AskByte
  PROVE  SDInv'
<1> USE DEF SDInv, TaskVars, driverVars, cardVars
<1>0. pc # "ack" /\ ~hs /\ phase = "wr" /\ dataOut = Noise /\ cnt # TotalBytes
  BY Sizes DEF AskByte, HandsDown, Commands, Phased, TypeOK
<1>1. TypeOK' /\ Shapes' /\ Serving' /\ Commands'
  BY DEF AskByte, TypeOK, Shapes, RegShape, JobShape, Serving, Commands, Moving, AddrIn, Current
<1>2. Phased'  BY <1>0 DEF AskByte, Phased
<1>3. Aligned => Aligned'  BY <1>0 DEF AskByte, Aligned, Current
<1>4. CommandCurrent' /\ Collecting' /\ Delivered'
  <2>1. phase' = "wr" /\ cnt' = cnt /\ cnt < TotalBytes  BY <1>0 DEF AskByte
  <2> QED  BY <1>0, <1>3, <2>1 DEF CommandCurrent, Collecting, Delivered, Full
<1>5. ReadCurrent'
  BY <1>0 DEF AskByte, ReadCurrent, Moving, Current, PastBlock
<1>6. WriteCurrent'  BY <1>3 DEF AskByte, WriteCurrent, Moving, Missed
<1>7. WrittenSafe' /\ Finished'
  BY DEF AskByte, WrittenSafe, Safe, Full, DataIn, Moving, Finished
<1>8. NoForeignWrite' /\ ReadRight'  BY MeantStays DEF AskByte, NoForeignWrite, ReadRight
<1> QED  BY <1>1, <1>2, <1>4, <1>5, <1>6, <1>7, <1>8

LEMMA WriteDoneInv ==
  ASSUME SDInv, UNCHANGED TaskVars, WriteDone
  PROVE  SDInv'
<1> USE DEF SDInv, TaskVars, driverVars, cardVars
<1>0. pc # "ack" /\ ~hs /\ phase = "wr" /\ phase' = "prog" /\ Full /\ Full' /\ cnt = TotalBytes
  BY DEF WriteDone, GoTo, HandsDown, Commands, Full
<1>1. TypeOK' /\ Shapes' /\ Serving' /\ Commands'
  BY DEF WriteDone, GoTo, TypeOK, Phases, Shapes, RegShape, JobShape, Serving, Commands, Moving, AddrIn, Current
<1>2. Phased'  BY <1>0 DEF WriteDone, GoTo, Phased
<1>3. CommandCurrent' /\ Collecting'  BY <1>0 DEF CommandCurrent, Collecting
<1>4. Delivered'
  BY <1>0, MeantStays DEF WriteDone, GoTo, Delivered, DataIn, Moving, Current
<1>5. ReadCurrent'
  BY <1>0 DEF WriteDone, GoTo, ReadCurrent, Moving, Current, PastBlock
<1>6. WriteCurrent'
  <2>1. ~Aligned  BY <1>0, Sizes DEF Aligned, TypeOK
  <2> QED  BY <1>0, <2>1 DEF WriteDone, GoTo, WriteCurrent, Moving, Missed
<1>7. WrittenSafe' /\ Finished'
  BY <1>0 DEF WriteDone, GoTo, WrittenSafe, Safe, DataIn, Moving, Finished
<1>8. NoForeignWrite' /\ ReadRight'  BY MeantStays DEF WriteDone, GoTo, NoForeignWrite, ReadRight
<1> QED  BY <1>1, <1>2, <1>3, <1>4, <1>5, <1>6, <1>7, <1>8

(* The host's byte is taken while task and controller are at the same byte *)
(* of the block; with the last one the block is whole.                     *)
LEMMA ByteTaken ==
  ASSUME SDInv, UNCHANGED TaskVars, Acknowledged, phase = "wr"
  PROVE  /\ Aligned' /\ cnt' \in 1..TotalBytes /\ cnt < TotalBytes
         /\ dev = "io" /\ buf' \in Seq(Wire) /\ Len(buf') = cnt'
         /\ cnt' = TotalBytes => DataIn' = job.data[i + 1]
<1> USE DEF SDInv, TaskVars, driverVars
<1>0. hs /\ reg.handshake /\ pc = "ack" /\ cnt' = cnt + 1 /\ buf' = Append(buf, reg.data_in)
      /\ phase' = "wr" /\ addr' = addr
  BY DEF Acknowledged, Commands
<1>0a. hs' = FALSE  BY DEF Acknowledged
<1>1. cnt \in 0..TotalBytes - 1 /\ cnt < TotalBytes /\ dev = "io"
  BY <1>0, Sizes DEF TypeOK, Delivered, Full
<1>2. Aligned  BY <1>1 DEF Collecting
<1>3. /\ cnt = x /\ job.op = "write" /\ addr = Current
      /\ reg.data_in = ByteOf(job.data[i + 1], x + 1)
      /\ \A k \in 1..cnt : buf[k] = ByteOf(job.data[i + 1], k)
  BY <1>0, <1>2 DEF Aligned
<1>4. i + 1 \in 1..job.len  BY <1>0 DEF Commands, Moving, Shapes, JobShape
<1>5. job.data[i + 1] \in Contents  BY <1>1, <1>3, <1>4, JobContents DEF Shapes
<1>6. reg.data_in \in Wire  BY <1>1, <1>3, <1>5, BlockBytes, Sizes
<1>7. buf \in Seq(Wire) /\ Len(buf) = cnt  BY <1>0 DEF Shapes, Phased, Acknowledged
<1>8. /\ buf' \in Seq(Wire) /\ Len(buf') = cnt'
      /\ \A k \in 1..cnt' : buf'[k] = IF k = cnt' THEN reg.data_in ELSE buf[k]
  BY <1>0, <1>1, <1>6, <1>7, Sizes
<1>9. \A k \in 1..cnt' : buf'[k] = ByteOf(job.data[i + 1], k)
  BY <1>0, <1>1, <1>3, <1>8, Sizes
<1>10. Aligned'  BY <1>0, <1>0a, <1>3, <1>9 DEF Aligned, Current
<1>11. ASSUME cnt' = TotalBytes  PROVE DataIn' = job.data[i + 1]
  BY <1>5, <1>8, <1>9, <1>11, WholeBlock DEF DataIn
<1> QED  BY <1>0, <1>1, <1>8, <1>10, <1>11, Sizes

LEMMA AcknowledgedInv ==
  ASSUME SDInv, UNCHANGED TaskVars, Acknowledged
  PROVE  SDInv'
<1> USE DEF SDInv, TaskVars, driverVars, cardVars
<1>0. /\ hs /\ reg.handshake /\ pc = "ack" /\ phase' = phase /\ addr' = addr /\ op' = op
      /\ dataOut' = Noise /\ UNCHANGED <<card, cells, lost>>
      /\ phase \in {"rd", "wr"}
  BY DEF Acknowledged, Commands, Phased
<1>0a. hs' = FALSE  BY DEF Acknowledged
<1>1. phase # "wr" => cnt' = cnt /\ buf' = buf  BY DEF Acknowledged
<1>2. phase = "wr" => /\ Aligned' /\ cnt' \in 1..TotalBytes /\ cnt < TotalBytes
                      /\ dev = "io" /\ buf' \in Seq(Wire) /\ Len(buf') = cnt'
                      /\ cnt' = TotalBytes => DataIn' = job.data[i + 1]
  BY ByteTaken
<1>3. TypeOK'
  <2>1. cnt' \in 0..TotalBytes  BY <1>1, <1>2 DEF TypeOK
  <2> QED  BY <1>0, <1>0a, <2>1 DEF TypeOK
<1>4. Shapes'
  <2>1. buf' \in Seq(Wire) /\ dataOut' \in Wire  BY <1>0, <1>1, <1>2 DEF Shapes, Wire
  <2> QED  BY <1>0, <2>1 DEF Shapes, RegShape, JobShape
<1>5. Serving' /\ Commands'  BY DEF Serving, Commands, Moving, AddrIn, Current
<1>6. Phased'  BY <1>0, <1>0a, <1>1, <1>2 DEF Phased
<1>7. CommandCurrent' /\ Collecting'  BY <1>0, <1>2 DEF CommandCurrent, Collecting
<1>8. ReadCurrent'  BY <1>0, <1>0a, <1>1 DEF ReadCurrent, Moving, Current, PastBlock
<1>9. WriteCurrent'
  <2>1. phase = "wr" => Aligned'  BY <1>2
  <2> QED  BY <1>0, <2>1 DEF WriteCurrent, Moving, Missed
<1>10. Delivered'
  <2> SUFFICES ASSUME Full'  PROVE /\ ~hs' /\ (DataIn \in Meant(addr))'
                                   /\ addr \in Blocks => acked[addr] \in {Unknown, DataIn'}
                                   /\ Aligned' /\ pc' = "ack" /\ phase' = "wr"
    BY <1>0 DEF Delivered
  <2>1. phase = "wr" /\ cnt' = TotalBytes  BY <1>0 DEF Full
  <2>2. /\ job.op = "write" /\ addr = Current /\ dev = "io" /\ DataIn' = job.data[i + 1]
    BY <1>0, <1>2, <2>1 DEF Aligned, Current
  <2>3. i + 1 \in 1..job.len /\ Current = job.block + (i + 1) - 1
    BY <1>0, <2>2 DEF Commands, Moving, Shapes, JobShape, Current
  <2>4. DataIn' \in Meant(addr) /\ addr \in BlocksOf(io)  BY <2>2, <2>3, JobContents DEF Shapes
  <2>5. addr \in Blocks => acked[addr] = Unknown
    BY <2>2, <2>4, Sizes DEF Serving
  <2> QED  BY <1>0, <1>0a, <1>2, <2>1, <2>4, <2>5, MeantStays
<1>11. WrittenSafe'
  <2>1. ~Full  BY <1>0 DEF Delivered
  <2> QED  BY <1>0, <2>1 DEF WrittenSafe, Safe, Moving
<1>12. Finished' /\ NoForeignWrite' /\ ReadRight'
  BY <1>0, MeantStays DEF Finished, NoForeignWrite, ReadRight
<1> QED  BY <1>3, <1>4, <1>5, <1>6, <1>7, <1>8, <1>9, <1>10, <1>11, <1>12

(* What becomes of a block in the buffer: it replaces what was meant for   *)
(* the same address, or it is lost.                                        *)
LEMMA Settled ==
  ASSUME SDInv, phase = "prog", Settle, callers' = callers
  PROVE  /\ cells' \in [Blocks -> Contents] /\ lost' \subseteq Addresses
         /\ NoForeignWrite'
         /\ \A b \in Blocks : \A d :
              Safe(b, d) /\ (b = addr => d = DataIn) => cells'[b] = d \/ b \in lost'
<1> USE DEF SDInv
<1>1. /\ Full /\ DataIn \in Meant(addr) /\ addr \in Nat /\ cells \in [Blocks -> Contents]
      /\ lost \subseteq Addresses /\ Blocks \subseteq Addresses
  BY Sizes DEF Phased, Full, Delivered, TypeOK, Shapes
<1>2. DataIn \in Contents  BY <1>1, MeantContents DEF Serving
<1>3. CASE addr \in Blocks /\ cells' = [cells EXCEPT ![addr] = DataIn] /\ lost' = lost \ {addr}
  <2>1. cells' \in [Blocks -> Contents] /\ lost' \subseteq Addresses  BY <1>1, <1>2, <1>3
  <2>2. \A b \in Blocks : cells'[b] = IF b = addr THEN DataIn ELSE cells[b]  BY <1>1, <1>3
  <2>3. NoForeignWrite'  BY <1>1, <2>2, MeantStays DEF NoForeignWrite
  <2>4. ASSUME NEW b \in Blocks, NEW d, Safe(b, d), b = addr => d = DataIn
        PROVE  cells'[b] = d \/ b \in lost'
    BY <1>3, <2>2, <2>4 DEF Safe
  <2> QED  BY <2>1, <2>3, <2>4
<1>4. CASE lost' = lost \cup ({addr} \cap Blocks) /\ cells' = cells
  <2>1. cells' \in [Blocks -> Contents] /\ lost' \subseteq Addresses  BY <1>1, <1>4
  <2>2. NoForeignWrite'  BY <1>4, MeantStays DEF NoForeignWrite
  <2>3. ASSUME NEW b \in Blocks, NEW d, Safe(b, d), b = addr => d = DataIn
        PROVE  cells'[b] = d \/ b \in lost'
    BY <1>4, <2>3 DEF Safe
  <2> QED  BY <2>1, <2>2, <2>3
<1> QED  BY <1>3, <1>4 DEF Settle, DataIn

LEMMA ProgrammedInv ==
  ASSUME SDInv, UNCHANGED TaskVars, Programmed
  PROVE  SDInv'
<1> USE DEF SDInv, TaskVars, driverVars
<1>0. /\ phase = "prog" /\ Settle /\ phase' = "wait" /\ cnt' = 0 /\ buf' = <<>> /\ ~hs
      /\ UNCHANGED <<hs, op, addr, dataOut, card>>
  BY DEF Programmed, HandsDown
<1>1. /\ cells' \in [Blocks -> Contents] /\ lost' \subseteq Addresses
      /\ NoForeignWrite'
      /\ \A b \in Blocks : \A d :
           Safe(b, d) /\ (b = addr => d = DataIn) => cells'[b] = d \/ b \in lost'
  BY <1>0, Settled
<1>2. Full  BY <1>0 DEF Phased, Full
<1>3. TypeOK' /\ Shapes'
  BY <1>0, <1>1, Sizes DEF TypeOK, Phases, Shapes, RegShape, JobShape
<1>4. Serving' /\ Commands'  BY DEF Serving, Commands, Moving, AddrIn, Current
<1>5. Phased' /\ CommandCurrent' /\ Collecting' /\ Delivered'
  BY <1>0 DEF Phased, CommandCurrent, Collecting, Delivered, Full
<1>6. ReadCurrent' /\ ReadRight'
  <2>1. job.op = "read" => ~Moving /\ ~(pc \in {"return", "idle"} /\ result = "OK" /\ job.len > 0)
    BY <1>0 DEF ReadCurrent
  <2>2. job.op = "read" /\ result = "OK" /\ pc \in {"return", "idle"} => job.len = 0 /\ i = 0
    BY <2>1 DEF Shapes, JobShape
  <2>3. ReadCurrent'  BY <1>0, <2>1, <2>2 DEF ReadCurrent, Moving, Current
  <2>4. ReadRight'  BY <2>2 DEF ReadRight, TypeOK
  <2> QED  BY <2>3, <2>4
<1>7. WriteCurrent'  BY <1>0 DEF WriteCurrent, Moving, Missed
<1>8. WrittenSafe'
  <2>1. ASSUME NEW b \in Blocks, acked[b] # Unknown  PROVE Safe(b, acked[b])'
    <3>1. b = addr => acked[b] = DataIn  BY <1>2, <2>1 DEF Delivered
    <3> QED  BY <1>1, <2>1, <3>1 DEF WrittenSafe, Safe
  <2>2. ASSUME job.op = "write", Moving \/ (pc = "return" /\ result = "OK"),
               NEW n \in 1..i, job.block + n - 1 \in Blocks
        PROVE  Safe(job.block + n - 1, job.data[n])'
    <3>1. job.block + n - 1 = addr => n = i /\ job.data[n] = DataIn
      BY <1>0, <1>2, <2>2 DEF Delivered, Current, Shapes, JobShape
    <3>2. Safe(job.block + n - 1, job.data[n])  BY <2>2 DEF WrittenSafe
    <3> QED  BY <1>1, <2>2, <3>1, <3>2 DEF Safe
  <2> QED  BY <2>1, <2>2 DEF WrittenSafe, Moving
<1>9. Finished'  BY DEF Finished
<1> QED  BY <1>1, <1>3, <1>4, <1>5, <1>6, <1>7, <1>8, <1>9

LEMMA ControlInv ==
  ASSUME SDInv, Control
  PROVE  SDInv'
<1>1. UNCHANGED TaskVars /\ ControllerStep
  BY DEF Control, ControllerStep, TaskVars, deviceVars, historyVars
<1>2. CASE StartInit \/ SendCmd0 \/ Cmd0Answered \/ Initialised \/ InitError \/ ErrorToken
  <2>1. UNCHANGED <<hs, op, addr, cnt, buf, dataOut, cells, lost>>
    BY <1>2 DEF StartInit, SendCmd0, Cmd0Answered, Initialised, InitError, ErrorToken, GoTo, cardVars
  <2>2. /\ phase \in {"start", "init", "cmd0", "acmd", "token"}
        /\ phase' \in {"start", "init", "cmd0", "acmd", "wait"}
    BY <1>2 DEF StartInit, SendCmd0, Cmd0Answered, Initialised, InitError, ErrorToken, GoTo
  <2>3. card' \in {"out", "idle", "ready"}
    BY <1>2 DEF StartInit, SendCmd0, Cmd0Answered, Initialised, InitError, ErrorToken, cardVars, SDInv, TypeOK
  <2> QED  BY <1>1, <2>1, <2>2, <2>3, IdleMove
<1> QED
  BY <1>1, <1>2, TakeCommandInv, ResponseInv, StartTokenInv, OfferByteInv, ReadDoneInv, AskByteInv,
     AcknowledgedInv, WriteDoneInv, ProgrammedInv
  DEF ControllerStep

-----------------------------------------------------------------------------
(* A reset of the controller.                                              *)

LEMMA AfterReset ==
  ASSUME SDInv, ResetController
  PROVE  /\ phase' = "start" /\ ~Full' /\ addr' = addr /\ cnt' \in 0..TotalBytes /\ hs' \in BOOLEAN
         /\ op' \in {"read", "write"} /\ card' = card /\ buf' \in Seq(Wire) /\ dataOut' \in Wire
         /\ Phased' /\ CommandCurrent' /\ Collecting' /\ Delivered'
<1>1. /\ phase' = "start" /\ addr' = addr /\ op' = op /\ card' = card /\ cnt' = 0 /\ buf' = <<>>
      /\ dataOut' = Noise
  BY DEF ResetController
<1>2. hs' = FALSE  BY DEF ResetController
<1>3. ~Full'  BY <1>1 DEF Full
<1>4. Phased'  BY <1>1, <1>2 DEF Phased
<1>5. CommandCurrent' /\ Collecting'  BY <1>1 DEF CommandCurrent, Collecting
<1>6. Delivered'  BY <1>3 DEF Delivered
<1>7. hs' \in BOOLEAN  BY <1>2
<1>8. cnt' \in 0..TotalBytes /\ op' \in {"read", "write"} /\ buf' \in Seq(Wire) /\ dataOut' \in Wire
  BY <1>1, Sizes DEF SDInv, TypeOK, Wire
<1> QED  BY <1>1, <1>3, <1>4, <1>5, <1>6, <1>7, <1>8

LEMMA ResetSettles ==
  ASSUME SDInv, ResetController, callers' = callers,
         phase = "wr" /\ Full /\ addr \in Blocks => acked[addr] = Unknown
  PROVE  /\ cells' \in [Blocks -> Contents] /\ lost' \subseteq Addresses
         /\ NoForeignWrite'
         /\ \A b \in Blocks : acked[b] # Unknown => cells'[b] = acked[b] \/ b \in lost'
<1> USE DEF SDInv
<1>1. CASE phase = "prog"
  <2>1. Settle /\ Full  BY <1>1 DEF ResetController, Phased, Full
  <2>2. \A b \in Blocks : acked[b] # Unknown => Safe(b, acked[b]) /\ (b = addr => acked[b] = DataIn)
    BY <2>1 DEF WrittenSafe, Delivered
  <2> QED  BY <1>1, <2>1, <2>2, Settled
<1>2. CASE phase # "prog"
  <2>1. cells' = cells /\ lost' = lost  BY <1>2 DEF ResetController
  <2>2. NoForeignWrite'  BY <2>1, MeantStays DEF NoForeignWrite
  <2>3. \A b \in Blocks : acked[b] # Unknown => cells[b] = acked[b] \/ b \in lost
    BY <1>2 DEF WrittenSafe, Safe, Full
  <2> QED  BY <2>1, <2>2, <2>3 DEF TypeOK, Shapes
<1> QED  BY <1>1, <1>2

-----------------------------------------------------------------------------
(* Steps of the task.  The registers after each way of writing them.       *)

LEMMA QuietReg ==
  ASSUME NEW r, DOMAIN r = RegNames
  PROVE  /\ DOMAIN Quiet(r) = RegNames
         /\ Quiet(r).read = FALSE /\ Quiet(r).write = FALSE /\ Quiet(r).handshake = FALSE
         /\ Quiet(r).addr_hi = r.addr_hi /\ Quiet(r).addr_lo = r.addr_lo
BY DEF Quiet, RegNames

LEMMA ClearedReg ==
  ASSUME RegShape
  PROVE  /\ DOMAIN ClearedRegs = RegNames
         /\ ClearedRegs.read = FALSE /\ ClearedRegs.write = FALSE /\ ClearedRegs.handshake = FALSE
         /\ ClearedRegs.addr_hi \in Nat /\ ClearedRegs.addr_lo \in 0..LoSize - 1
<1> DEFINE q == Quiet(reg)
<1>1. DOMAIN q = RegNames /\ q.read = FALSE /\ q.write = FALSE /\ q.handshake = FALSE
  BY QuietReg DEF RegShape
<1> HIDE DEF q
<1>2. LET a == Addressed(q, 0)
      IN  /\ DOMAIN a = RegNames /\ a.addr_hi \in Nat /\ a.addr_lo \in 0..LoSize - 1
          /\ a.read = q.read /\ a.write = q.write /\ a.handshake = q.handshake
  BY <1>1, AddressedReg
<1> QED  BY <1>1, <1>2 DEF ClearedRegs, q

LEMMA LoweredReg ==
  ASSUME RegShape
  PROVE  /\ DOMAIN Lowered = RegNames
         /\ Lowered.read = reg.read /\ Lowered.write = reg.write /\ Lowered.handshake = FALSE
         /\ Lowered.addr_hi = reg.addr_hi /\ Lowered.addr_lo = reg.addr_lo
BY DEF RegShape, RegNames, Lowered

(* The registers with the command of a read, of a write.                   *)
Reading(r, b) == [Addressed(r, b) EXCEPT !.handshake = FALSE, !.read = TRUE]

LEMMA ReadReg ==
  ASSUME NEW r, DOMAIN r = RegNames, NEW b \in Nat
  PROVE  LET q == Reading(r, b) IN
         /\ DOMAIN q = RegNames
         /\ q.read = TRUE /\ q.write = r.write /\ q.handshake = FALSE
         /\ q.addr_hi \in Nat /\ q.addr_lo \in 0..LoSize - 1 /\ q.addr_hi * LoSize + q.addr_lo = b
<1> DEFINE a == Addressed(r, b)
<1>1. /\ DOMAIN a = RegNames /\ a.addr_hi \in Nat /\ a.addr_lo \in 0..LoSize - 1
      /\ a.addr_hi * LoSize + a.addr_lo = b /\ a.write = r.write
  BY AddressedReg
<1> HIDE DEF a
<1> QED  BY <1>1 DEF RegNames, a, Reading

Writing(r, b) == [Addressed(r, b) EXCEPT !.handshake = FALSE, !.write = TRUE]

LEMMA WriteReg ==
  ASSUME NEW r, DOMAIN r = RegNames, NEW b \in Nat
  PROVE  LET q == Writing(r, b) IN
         /\ DOMAIN q = RegNames
         /\ q.read = r.read /\ q.write = TRUE /\ q.handshake = FALSE
         /\ q.addr_hi \in Nat /\ q.addr_lo \in 0..LoSize - 1 /\ q.addr_hi * LoSize + q.addr_lo = b
<1> DEFINE a == Addressed(r, b)
<1>1. /\ DOMAIN a = RegNames /\ a.addr_hi \in Nat /\ a.addr_lo \in 0..LoSize - 1
      /\ a.addr_hi * LoSize + a.addr_lo = b /\ a.read = r.read
  BY AddressedReg
<1> HIDE DEF a
<1> QED  BY <1>1 DEF RegNames, a, Writing

RegTyped ==
  /\ reg.read \in BOOLEAN /\ reg.write \in BOOLEAN /\ reg.handshake \in BOOLEAN
  /\ reg.addr_hi \in Nat /\ reg.addr_lo \in 0..LoSize - 1

(* The top of the loop over the blocks.                                    *)
LEMMA BlockBegins ==
  ASSUME SDInv, JobShape', job'.op = job.op, job'.block = job.block, job'.len = job.len,
         NEW n \in 0..job.len, NEW r, DOMAIN r = RegNames,
         r.read = FALSE, r.write = FALSE, r.handshake = FALSE,
         r.addr_hi \in Nat, r.addr_lo \in 0..LoSize - 1,
         NextBlock(n, r), pc' = "start" /\ job.op = "write" => problems' = 0
  PROVE  /\ i' = n /\ x' = 0 /\ got' = <<>>
         /\ pc' = (IF n = job.len THEN "return" ELSE "start")
         /\ result' = (IF n = job.len THEN "OK" ELSE result)
         /\ RegShape' /\ RegTyped' /\ Commands' /\ ~reg.write'
         /\ reg.read' <=> (n # job.len /\ job.op = "read")
<1>0. JobShape  BY DEF SDInv, Shapes
<1>1. i' = n /\ x' = 0 /\ got' = <<>>  BY DEF NextBlock
<1>2. CASE n = job.len
  <2>1. pc' = "return" /\ result' = "OK" /\ reg' = r  BY <1>2 DEF NextBlock, Return
  <2>2. RegShape' /\ RegTyped'  BY <2>1 DEF RegShape, RegTyped
  <2>3. Commands'  BY <2>1 DEF Commands, Moving
  <2> QED  BY <1>1, <1>2, <2>1, <2>2, <2>3
<1>3. CASE n # job.len /\ job.op = "write"
  <2>1. pc' = "start" /\ result' = result /\ reg' = r  BY <1>3 DEF NextBlock
  <2>2. RegShape' /\ RegTyped'  BY <2>1 DEF RegShape, RegTyped
  <2>3. n < job.len  BY <1>0, <1>3 DEF JobShape
  <2>4. Commands'  BY <1>1, <1>3, <2>1, <2>3 DEF Commands, Moving
  <2> QED  BY <1>1, <1>3, <2>1, <2>2, <2>4
<1>4. CASE n # job.len /\ job.op = "read"
  <2>1. pc' = "start" /\ result' = result
        /\ reg' = Reading(r, job.block + n)
    BY <1>4 DEF NextBlock, Reading
  <2>2. job.block + n \in Nat /\ n < job.len  BY <1>0, <1>4 DEF JobShape
  <2>3. /\ DOMAIN reg' = RegNames
        /\ reg'.read = TRUE /\ reg'.write = FALSE /\ reg'.handshake = FALSE
        /\ reg'.addr_hi \in Nat /\ reg'.addr_lo \in 0..LoSize - 1
        /\ reg'.addr_hi * LoSize + reg'.addr_lo = job.block + n
    BY <2>1, <2>2, ReadReg
  <2>4. RegShape' /\ RegTyped'  BY <2>3 DEF RegShape, RegTyped
  <2>5. AddrIn' = Current'  BY <1>1, <2>3 DEF AddrIn, Current
  <2>6. reg.read' = TRUE /\ reg.write' = FALSE /\ reg.handshake' = FALSE  BY <2>3
  <2>7. Commands'  BY <1>1, <1>4, <2>1, <2>2, <2>5, <2>6 DEF Commands, Moving
  <2> QED  BY <1>1, <1>4, <2>1, <2>4, <2>6, <2>7
<1> QED  BY <1>0, <1>2, <1>3, <1>4 DEF JobShape

LEMMA BusyEndsInv ==
  ASSUME SDInv, Drive, BusyEnds
  PROVE  SDInv'
<1> USE DEF SDInv
<1>0. /\ pc = "busy" /\ ~Busy /\ NextBlock(0, reg) /\ UNCHANGED <<job, problems>>
      /\ UNCHANGED controllerVars /\ UNCHANGED cardVars
      /\ UNCHANGED <<dev, io, attempts, acked, callers>>
  BY DEF BusyEnds, Drive, deviceVars, historyVars
<1>1. phase \notin {"wr", "prog", "token", "rd"} /\ problems = 0 /\ i = 0  BY <1>0 DEF Busy, Commands
<1>2. /\ reg.read = FALSE /\ reg.write = FALSE /\ reg.handshake = FALSE
      /\ reg.addr_hi \in Nat /\ reg.addr_lo \in 0..LoSize - 1
  BY <1>0 DEF Commands, TypeOK
<1>3. JobShape /\ JobShape' /\ 0 \in 0..job.len  BY <1>0 DEF Shapes, JobShape
<1>4. /\ i' = 0 /\ x' = 0 /\ got' = <<>>
      /\ pc' = (IF 0 = job.len THEN "return" ELSE "start")
      /\ result' = (IF 0 = job.len THEN "OK" ELSE result)
      /\ RegShape' /\ RegTyped' /\ Commands'
  BY <1>0, <1>1, <1>2, <1>3, BlockBegins DEF Shapes, RegShape
<1>5. TypeOK'
  <2>1. pc' \in PollLoops /\ result' \in {"none", "OK", "TIMEOUT", "CRC"} /\ pc' # "idle" /\ dev' # "idle"
    BY <1>0, <1>4 DEF TypeOK, PollLoops
  <2> QED  BY <1>0, <1>4, <2>1, Sizes DEF TypeOK, RegTyped, controllerVars, cardVars
<1>6. Shapes' /\ Serving'
  BY <1>0, <1>3, <1>4 DEF Shapes, JobShape, Serving, controllerVars, cardVars
<1>7. Phased'  BY <1>0 DEF Phased, controllerVars, cardVars
<1>8. CommandCurrent'
  <2>1. ~(phase = "cmd" /\ card = "ready")  BY <1>2 DEF CommandCurrent
  <2> QED  BY <1>0, <2>1 DEF CommandCurrent, controllerVars, cardVars
<1>9. Collecting' /\ Delivered'  BY <1>0, <1>1 DEF Collecting, Delivered, Full, controllerVars
<1>10. ReadCurrent'  BY <1>0, <1>1, <1>4 DEF ReadCurrent, Moving, controllerVars
<1>11. WriteCurrent'  BY <1>0, <1>1, <1>4 DEF WriteCurrent, Moving, controllerVars
<1>12. WrittenSafe'
  BY <1>0, <1>1, <1>4 DEF WrittenSafe, Safe, Full, Moving, controllerVars, cardVars
<1>13. Finished'  BY <1>0, <1>4 DEF Finished
<1>14. NoForeignWrite' /\ ReadRight'
  BY <1>0, MeantStays DEF NoForeignWrite, ReadRight, TypeOK, cardVars
<1> QED  BY <1>4, <1>5, <1>6, <1>7, <1>8, <1>9, <1>10, <1>11, <1>12, <1>13, <1>14

LEMMA BusyResetInv ==
  ASSUME SDInv, Drive, BusyReset
  PROVE  SDInv'
<1> USE DEF SDInv
<1>0. /\ pc = "busy" /\ GivesUp /\ NextBlock(0, ClearedRegs) /\ ResetController
      /\ UNCHANGED <<job, problems>> /\ UNCHANGED <<dev, io, attempts, acked, callers>>
  BY DEF BusyReset, Drive, deviceVars, historyVars
<1>1. problems = 0 /\ i = 0 /\ reg.handshake = FALSE  BY <1>0 DEF Commands, TypeOK
<1>2. /\ DOMAIN ClearedRegs = RegNames
      /\ ClearedRegs.read = FALSE /\ ClearedRegs.write = FALSE /\ ClearedRegs.handshake = FALSE
      /\ ClearedRegs.addr_hi \in Nat /\ ClearedRegs.addr_lo \in 0..LoSize - 1
  BY ClearedReg DEF Shapes
<1>3. JobShape /\ JobShape' /\ 0 \in 0..job.len  BY <1>0 DEF Shapes, JobShape
<1>4. /\ i' = 0 /\ x' = 0 /\ got' = <<>>
      /\ pc' = (IF 0 = job.len THEN "return" ELSE "start")
      /\ result' = (IF 0 = job.len THEN "OK" ELSE result)
      /\ RegShape' /\ RegTyped' /\ Commands'
  BY <1>0, <1>1, <1>2, <1>3, BlockBegins
<1>5. /\ phase' = "start" /\ ~Full' /\ addr' = addr /\ cnt' \in 0..TotalBytes /\ hs' \in BOOLEAN
      /\ op' \in {"read", "write"} /\ card' = card /\ buf' \in Seq(Wire) /\ dataOut' \in Wire
      /\ Phased' /\ CommandCurrent' /\ Collecting' /\ Delivered'
  BY <1>0, AfterReset
\* A block on its way into the buffer or out of it keeps the poll alive.
<1>6. ~(phase = "wr" /\ Full)  BY <1>0, <1>1 DEF GivesUp, Prompt, HandsDown, Delivered
<1>7. /\ cells' \in [Blocks -> Contents] /\ lost' \subseteq Addresses
      /\ NoForeignWrite'
      /\ \A b \in Blocks : acked[b] # Unknown => cells'[b] = acked[b] \/ b \in lost'
  BY <1>0, <1>6, ResetSettles
<1>8. TypeOK'
  <2>1. pc' \in PollLoops /\ result' \in {"none", "OK", "TIMEOUT", "CRC"} /\ pc' # "idle" /\ dev' # "idle"
    BY <1>0, <1>4 DEF TypeOK, PollLoops
  <2>2. phase' \in Phases  BY <1>5 DEF Phases
  <2> QED  BY <1>0, <1>4, <1>5, <1>7, <2>1, <2>2, Sizes DEF TypeOK, RegTyped
<1>9. Shapes' /\ Serving'
  BY <1>0, <1>3, <1>4, <1>5, <1>7 DEF Shapes, JobShape, Serving
<1>10. ReadCurrent'  BY <1>0, <1>4, <1>5 DEF ReadCurrent, Moving
<1>11. WriteCurrent'  BY <1>0, <1>4, <1>5 DEF WriteCurrent, Moving
<1>12. WrittenSafe'  BY <1>0, <1>4, <1>7 DEF WrittenSafe, Safe, Moving
<1>13. Finished'  BY <1>0, <1>4 DEF Finished
<1>14. ReadRight'  BY <1>0 DEF ReadRight, TypeOK
<1> QED  BY <1>4, <1>5, <1>7, <1>8, <1>9, <1>10, <1>11, <1>12, <1>13, <1>14

LEMMA ProblemTyped ==
  ASSUME NEW p \in Nat
  PROVE  (p + 1) % ProblemValues \in 0..ProblemValues - 1
BY Sizes

(* Nothing that the controller would do by itself is given up.             *)
LEMMA NotGivenUp ==
  ASSUME SDInv, GivesUp, pc # "ack", ~hs
  PROVE  phase \notin {"rd", "wr"} /\ ~(phase = "cmd" /\ card = "ready")
BY DEF SDInv, GivesUp, Prompt, HandsDown, Commands

(* Without a command on the registers the card has none to answer.         *)
LEMMA NoCommand ==
  ASSUME SDInv, ~reg.read, ~reg.write
  PROVE  ~(phase = "cmd" /\ card = "ready")
BY DEF SDInv, CommandCurrent

LEMMA ReadStartsInv ==
  ASSUME SDInv, Drive, ReadStarts
  PROVE  SDInv'
<1> USE DEF SDInv
<1>0. /\ pc = "start" /\ pc' = "byte" /\ job.op = "read"
      /\ problems' = (IF Busy THEN problems ELSE Problem)
      /\ UNCHANGED <<job, i, x, got, result, reg>>
      /\ UNCHANGED controllerVars /\ UNCHANGED cardVars
      /\ UNCHANGED <<dev, io, attempts, acked, callers>>
  BY DEF ReadStarts, Drive, deviceVars, historyVars
<1>1. phase \notin {"wr", "prog"} /\ got = <<>> /\ x = 0  BY <1>0 DEF ReadCurrent, Moving, Commands
<1> USE <1>0 DEF controllerVars, cardVars
<1>2. TypeOK'
  <2>1. problems' \in 0..ProblemValues - 1  BY ProblemTyped DEF TypeOK, Problem
  <2> QED  BY <2>1 DEF TypeOK, PollLoops
<1>3. Shapes' /\ Serving'  BY DEF Shapes, RegShape, JobShape, Serving
<1>4. Commands'  BY <1>1 DEF Commands, Moving, AddrIn, Current
<1>5. Phased' /\ CommandCurrent'  BY DEF Phased, CommandCurrent, Current
<1>6. Collecting' /\ Delivered' /\ WriteCurrent'  BY <1>1 DEF Collecting, Delivered, Full, WriteCurrent
<1>7. ReadCurrent'  BY <1>1 DEF ReadCurrent, Moving, Current
<1>8. WrittenSafe' /\ Finished'  BY DEF WrittenSafe, Safe, Full, DataIn, Finished
<1>9. NoForeignWrite' /\ ReadRight'  BY MeantStays DEF NoForeignWrite, ReadRight
<1> QED  BY <1>2, <1>3, <1>4, <1>5, <1>6, <1>7, <1>8, <1>9

LEMMA WriteStartsInv ==
  ASSUME SDInv, Drive, WriteStarts
  PROVE  SDInv'
<1> USE DEF SDInv
<1>0. /\ pc = "start" /\ pc' = "byte" /\ job.op = "write"
      /\ problems' = (IF ~Busy THEN problems ELSE Problem)
      /\ reg' = Writing(reg, job.block + i)
      /\ UNCHANGED <<job, i, x, got, result>>
      /\ UNCHANGED controllerVars /\ UNCHANGED cardVars
      /\ UNCHANGED <<dev, io, attempts, acked, callers>>
  BY DEF WriteStarts, Writing, Drive, deviceVars, historyVars
<1>1. /\ problems = 0 /\ x = 0 /\ i < job.len /\ ~reg.read /\ ~reg.write
      /\ RegShape /\ job.block + i \in Nat
  BY <1>0 DEF Commands, Moving, Shapes, JobShape
<1>2. reg.read = FALSE  BY <1>1 DEF TypeOK
<1>3. /\ DOMAIN reg' = RegNames
      /\ reg'.read = FALSE /\ reg'.write = TRUE /\ reg'.handshake = FALSE
      /\ reg'.addr_hi \in Nat /\ reg'.addr_lo \in 0..LoSize - 1
      /\ reg'.addr_hi * LoSize + reg'.addr_lo = job.block + i
  BY <1>0, <1>1, <1>2, WriteReg DEF RegShape
<1>4. RegShape' /\ RegTyped' /\ AddrIn' = Current'
  BY <1>0, <1>3 DEF RegShape, RegTyped, AddrIn, Current
<1>5. reg.read' = FALSE /\ reg.write' = TRUE /\ reg.handshake' = FALSE  BY <1>3
<1>6. problems' \in {0, 1} /\ problems' \in 0..ProblemValues - 1
  <2>1. problems' = 0 \/ problems' = (0 + 1) % ProblemValues  BY <1>0, <1>1 DEF Problem
  <2>2. (0 + 1) % ProblemValues = 1  BY Sizes
  <2> QED  BY <2>1, <2>2, Sizes
<1>7. phase \notin {"token", "rd"} /\ ~Aligned /\ ~(phase = "cmd" /\ card = "ready")
  BY <1>0, <1>1, NoCommand DEF WriteCurrent, Moving, Aligned
<1> USE <1>0 DEF controllerVars, cardVars
<1>8. TypeOK'
  BY <1>4, <1>6 DEF TypeOK, PollLoops, RegTyped
<1>9. Shapes' /\ Serving'  BY <1>4 DEF Shapes, JobShape, Serving
<1>10. Commands'  BY <1>1, <1>4, <1>5 DEF Commands, Moving
<1>11. Phased' /\ CommandCurrent'  BY <1>7 DEF Phased, CommandCurrent
<1>12. Collecting'  BY <1>7 DEF Collecting
<1>13. Delivered'
  <2>1. UNCHANGED <<Full, DataIn, Current>> /\ Moving /\ Moving'  BY DEF Full, DataIn, Current, Moving
  <2> QED  BY <1>7, <2>1, MeantStays DEF Delivered
<1>14. ReadCurrent'  BY DEF ReadCurrent
<1>15. WriteCurrent'  BY <1>5, <1>6, <1>7 DEF WriteCurrent, Moving
<1>16. WrittenSafe' /\ Finished'  BY DEF WrittenSafe, Safe, Full, DataIn, Moving, Finished
<1>17. NoForeignWrite' /\ ReadRight'  BY MeantStays DEF NoForeignWrite, ReadRight
<1> QED  BY <1>8, <1>9, <1>10, <1>11, <1>12, <1>13, <1>14, <1>15, <1>16, <1>17

(* A byte of a read: what the controller offers is a byte of the block the *)
(* task has reached; without an offer it is no byte of any block.          *)
LEMMA ReadByteInv ==
  ASSUME SDInv, Drive, MoveByte, job.op = "read"
  PROVE  SDInv'
<1> USE DEF SDInv
<1>0. /\ pc = "byte" /\ (hs \/ GivesUp) /\ pc' = "ack"
      /\ problems' = (IF hs THEN problems ELSE Problem)
      /\ reg' = [reg EXCEPT !.read = FALSE, !.handshake = TRUE]
      /\ got' = Append(got, dataOut)
      /\ UNCHANGED <<job, i, x, result>>
      /\ UNCHANGED controllerVars /\ UNCHANGED cardVars
      /\ UNCHANGED <<dev, io, attempts, acked, callers>>
  BY DEF MoveByte, Drive, deviceVars, historyVars
<1>1. /\ DOMAIN reg' = RegNames /\ reg'.read = FALSE /\ reg'.handshake = TRUE
      /\ reg'.write = reg.write /\ reg'.addr_hi = reg.addr_hi /\ reg'.addr_lo = reg.addr_lo
  BY <1>0 DEF Shapes, RegShape, RegNames
<1>2. RegShape' /\ reg.read' = FALSE /\ reg.handshake' = TRUE /\ reg.write' = reg.write
  BY <1>1 DEF RegShape
<1>3. /\ ~reg.write /\ i < job.len /\ Len(got) = x /\ got \in Seq(Wire) /\ dataOut \in Wire
      /\ phase \notin {"wr", "prog"} /\ x \in Nat
  BY <1>0 DEF Commands, Moving, Shapes, ReadCurrent, TypeOK
<1>4. ~(phase = "cmd" /\ card = "ready")
  BY <1>0, NotGivenUp DEF Phased
<1>5. phase \in {"token", "rd"} => addr = Current
  <2>1. CASE hs  BY <1>0, <2>1 DEF ReadCurrent, Moving
  <2>2. CASE ~hs  BY <1>0, <2>2, NotGivenUp DEF ReadCurrent, Moving
  <2> QED  BY <2>1, <2>2
<1>6. /\ got' \in Seq(Wire) /\ Len(got') = x + 1
      /\ \A k \in 1..Len(got') : got'[k] = IF k = x + 1 THEN dataOut ELSE got[k]
  BY <1>0, <1>3
<1>7. \/ dataOut \in DataByte \cup {Noise}
      \/ /\ addr = Current /\ Current \in Blocks
         /\ \E half \in 1..CrcBytes :
              dataOut = CrcByte(cells[Current], half) /\ (half = CrcBytes => PastBlock)
  <2>1. CASE dataOut = Noise  BY <2>1
  <2>2. CASE dataOut # Noise
    <3>1. hs /\ phase = "rd" /\ cnt > 0 /\ dataOut = ByteOf(cells[addr], cnt) /\ addr \in Blocks
      BY <1>3, <2>2 DEF Phased
    <3>2. cells[addr] \in Contents /\ cnt \in 1..TotalBytes /\ addr = Current
      BY <1>5, <3>1, Sizes DEF Shapes, TypeOK
    <3>3. CASE cnt <= DataBytes  BY <3>1, <3>2, <3>3, BlockBytes
    <3>4. CASE cnt > DataBytes
      <4>1. dataOut = CrcByte(cells[addr], cnt - DataBytes) /\ cnt - DataBytes \in 1..CrcBytes
        BY <3>1, <3>2, <3>4, BlockBytes
      <4>2. cnt - DataBytes = CrcBytes => PastBlock  BY <3>1, <3>2, Sizes DEF PastBlock
      <4> QED  BY <3>1, <3>2, <4>1, <4>2
    <3> QED  BY <3>2, <3>3, <3>4, Sizes
  <2> QED  BY <2>1, <2>2
<1> USE <1>0 DEF controllerVars, cardVars
<1>8. TypeOK'
  <2>1. problems' \in 0..ProblemValues - 1  BY ProblemTyped DEF TypeOK, Problem
  <2>2. RegTyped'  BY <1>1 DEF RegTyped, TypeOK
  <2> QED  BY <2>1, <2>2 DEF TypeOK, PollLoops, RegTyped
<1>9. Shapes' /\ Serving'  BY <1>2, <1>6 DEF Shapes, JobShape, Serving
<1>10. Commands'  BY <1>2, <1>3, <1>6 DEF Commands, Moving
<1>11. Phased' /\ CommandCurrent'  BY <1>4 DEF Phased, CommandCurrent
<1>12. Collecting' /\ Delivered' /\ WriteCurrent'  BY <1>3 DEF Collecting, Delivered, Full, WriteCurrent
<1>13. ReadCurrent'
  <2>1. \A k \in 1..Len(got') :
           \/ got'[k] \in DataByte \cup {Noise}
           \/ /\ addr = Current /\ Current \in Blocks
              /\ \E half \in 1..CrcBytes :
                   got'[k] = CrcByte(cells[Current], half) /\ (half = CrcBytes => PastBlock)
    <3> SUFFICES ASSUME NEW k \in 1..Len(got'), k # x + 1
                 PROVE  k \in 1..Len(got) /\ got'[k] = got[k]
      BY <1>6, <1>7 DEF ReadCurrent
    <3> QED  BY <1>3, <1>6
  <2>2. UNCHANGED <<Current, PastBlock>>  BY DEF Current, PastBlock
  <2> QED  BY <1>3, <1>5, <2>1, <2>2 DEF ReadCurrent, Moving
<1>14. WrittenSafe' /\ Finished'  BY DEF WrittenSafe, Safe, Full, DataIn, Finished
<1>15. NoForeignWrite' /\ ReadRight'  BY MeantStays DEF NoForeignWrite, ReadRight
<1> QED  BY <1>8, <1>9, <1>10, <1>11, <1>12, <1>13, <1>14, <1>15

LEMMA Remainder ==
  ASSUME NEW p \in Nat \ {0}, NEW q \in Nat, NEW r \in 0..p - 1, NEW a, a = p * q + r
  PROVE  a % p = r
<1> DEFINE q2 == a \div p
           r2 == a % p
<1>1. a \in Nat  OBVIOUS
<1>2. q2 \in Nat /\ r2 \in 0..p - 1 /\ a = p * q2 + r2  BY <1>1
<1> HIDE DEF q2, r2
<1>3. CASE q2 < q
  <2>1. PICK k \in Nat : q = q2 + 1 + k
    <3>1. q - q2 - 1 \in Nat /\ q = q2 + 1 + (q - q2 - 1)  BY <1>2, <1>3
    <3> QED  BY <3>1
  <2>2. p * q = p * q2 + p + p * k /\ p * k \in Nat /\ p * q2 \in Nat  BY <1>2, <2>1
  <2> QED  BY <1>2, <2>2
<1>4. CASE q2 > q
  <2>1. PICK k \in Nat : q2 = q + 1 + k
    <3>1. q2 - q - 1 \in Nat /\ q2 = q + 1 + (q2 - q - 1)  BY <1>2, <1>4
    <3> QED  BY <3>1
  <2>2. p * q2 = p * q + p + p * k /\ p * k \in Nat /\ p * q \in Nat  BY <1>2, <2>1
  <2> QED  BY <1>2, <2>2
<1>5. CASE q2 = q
  <2>1. p * q \in Nat  OBVIOUS
  <2> QED  BY <1>2, <1>5, <2>1 DEF r2
<1> QED  BY <1>2, <1>3, <1>4, <1>5

LEMMA ModStep ==
  ASSUME NEW a \in Nat
  PROVE  ((a % ProblemValues) + 1) % ProblemValues = (a + 1) % ProblemValues
<1> DEFINE p == ProblemValues
           q == a \div p
           r == a % p
<1>1. p \in Nat \ {0, 1}  BY Sizes
<1> HIDE DEF p
<1>2. q \in Nat /\ r \in 0..p - 1 /\ a = p * q + r  BY <1>1
<1> HIDE DEF q, r
<1>3. CASE r + 1 < p
  <2>1. r + 1 \in 0..p - 1 /\ a + 1 = p * q + (r + 1) /\ r + 1 = p * 0 + (r + 1)
    BY <1>1, <1>2, <1>3
  <2>2. (a + 1) % p = r + 1 /\ (r + 1) % p = r + 1  BY <1>1, <1>2, <2>1, Remainder
  <2> QED  BY <2>2 DEF p, r
<1>4. CASE r + 1 = p
  <2>1. a + 1 = p * (q + 1) + 0 /\ r + 1 = p * 1 + 0 /\ 0 \in 0..p - 1
    BY <1>1, <1>2, <1>4
  <2>2. (a + 1) % p = 0 /\ (r + 1) % p = 0  BY <1>1, <1>2, <2>1, Remainder
  <2> QED  BY <2>2 DEF p, r
<1> QED  BY <1>1, <1>2, <1>3, <1>4

(* A byte of a write: with the controller's handshake up it is the byte    *)
(* the controller is at, otherwise the block is given up from its first.   *)
LEMMA WriteByteInv ==
  ASSUME SDInv, Drive, MoveByte, job.op = "write"
  PROVE  SDInv'
<1> USE DEF SDInv
<1>0. /\ pc = "byte" /\ (hs \/ GivesUp) /\ pc' = "ack"
      /\ problems' = (IF hs THEN problems ELSE Problem)
      /\ reg' = [reg EXCEPT !.write = FALSE, !.handshake = TRUE,
                            !.data_in = ByteOf(job.data[i + 1], x + 1)]
      /\ UNCHANGED <<got, job, i, x, result>>
      /\ UNCHANGED controllerVars /\ UNCHANGED cardVars
      /\ UNCHANGED <<dev, io, attempts, acked, callers>>
  BY DEF MoveByte, Drive, deviceVars, historyVars
<1>1. /\ DOMAIN reg' = RegNames /\ reg'.write = FALSE /\ reg'.handshake = TRUE
      /\ reg'.read = reg.read /\ reg'.addr_hi = reg.addr_hi /\ reg'.addr_lo = reg.addr_lo
      /\ reg'.data_in = ByteOf(job.data[i + 1], x + 1)
  BY <1>0 DEF Shapes, RegShape, RegNames
<1>2. /\ RegShape' /\ reg.write' = FALSE /\ reg.handshake' = TRUE /\ reg.read' = reg.read
      /\ reg.data_in' = ByteOf(job.data[i + 1], x + 1)
  BY <1>1 DEF RegShape
<1>3. /\ ~reg.read /\ i < job.len /\ phase \notin {"token", "rd"} /\ x \in Nat /\ cnt \in Nat
  BY <1>0, Sizes DEF Commands, Moving, WriteCurrent, TypeOK
<1>4. ~(phase = "cmd" /\ card = "ready")
  BY <1>0, NotGivenUp DEF Phased
<1>5. problems' \in 0..ProblemValues - 1  BY <1>0, ProblemTyped DEF TypeOK, Problem
<1>6. ASSUME hs  PROVE Aligned' /\ problems' \in {0, 1} /\ phase = "wr"
  <2>1. phase = "wr" /\ cnt < TotalBytes /\ problems' = problems
    BY <1>0, <1>3, <1>6, Sizes DEF Phased, Delivered, Full, TypeOK
  <2>2. Aligned /\ problems \in {0, 1}
    BY <1>0, <2>1 DEF Collecting, WriteCurrent, Missed
  <2>3. Aligned'  BY <1>0, <1>2, <1>6, <2>2 DEF Aligned, Current, controllerVars
  <2> QED  BY <2>1, <2>2, <2>3
<1>7. ASSUME ~hs  PROVE Missed' /\ phase # "wr"
  <2>1. phase # "wr" /\ problems' = Problem  BY <1>0, <1>7, NotGivenUp
  <2>2. PICK s \in {0, 1} : problems = (x + s) % ProblemValues
    <3>1. CASE problems \in {0, 1} /\ reg.write
      <4>1. x = 0  BY <3>1 DEF Commands
      <4>2. problems = (0 + problems) % ProblemValues  BY <3>1, Sizes
      <4> QED  BY <3>1, <4>1, <4>2
    <3>2. CASE Missed  BY <1>0, <1>3, <3>2 DEF Missed
    <3> QED  BY <1>0, <2>1, <3>1, <3>2 DEF WriteCurrent
  <2>3. problems' = (x + s + 1) % ProblemValues  BY <1>3, <2>1, <2>2, ModStep DEF Problem
  <2>4. Missed'  BY <1>0, <1>2, <2>1, <2>3 DEF Missed, controllerVars
  <2> QED  BY <2>1, <2>4
<1>8. /\ phase = "wr" => Aligned'
      /\ (problems' \in {0, 1} /\ phase = "wr") \/ Missed'
  BY <1>6, <1>7
<1> USE <1>0 DEF controllerVars, cardVars
<1>10. TypeOK'
  <2>2. RegTyped'  BY <1>1 DEF RegTyped, TypeOK
  <2> QED  BY <1>5, <2>2 DEF TypeOK, PollLoops, RegTyped
<1>11. Shapes' /\ Serving'  BY <1>2 DEF Shapes, JobShape, Serving
<1>12. Commands'  BY <1>2, <1>3 DEF Commands, Moving
<1>13. Phased' /\ CommandCurrent'  BY <1>4 DEF Phased, CommandCurrent
<1>14. Collecting'  BY <1>8 DEF Collecting
<1>15. ReadCurrent'  BY DEF ReadCurrent
<1>16. WriteCurrent'  BY <1>3, <1>8 DEF WriteCurrent, Moving
<1>17. Delivered'
  <2>1. UNCHANGED <<Full, DataIn, Current>> /\ Moving /\ Moving'  BY DEF Full, DataIn, Current, Moving
  <2> QED  BY <2>1, MeantStays DEF Delivered
<1>18. WrittenSafe' /\ Finished'  BY DEF WrittenSafe, Safe, Full, DataIn, Moving, Finished
<1>19. NoForeignWrite' /\ ReadRight'  BY MeantStays DEF NoForeignWrite, ReadRight
<1> QED  BY <1>10, <1>11, <1>12, <1>13, <1>14, <1>15, <1>16, <1>17, <1>18, <1>19

LEMMA ByteMovedInv ==
  ASSUME SDInv, Drive, ByteMoved
  PROVE  SDInv'
<1> USE DEF SDInv
<1>0. /\ pc = "ack" /\ ~hs /\ x + 1 < TotalBytes /\ x' = x + 1 /\ pc' = "byte" /\ reg' = Lowered
      /\ UNCHANGED <<got, job, i, problems, result>>
      /\ UNCHANGED controllerVars /\ UNCHANGED cardVars
      /\ UNCHANGED <<dev, io, attempts, acked, callers>>
  BY DEF ByteMoved, Drive, deviceVars, historyVars
<1>1. /\ DOMAIN reg' = RegNames /\ reg'.read = reg.read /\ reg'.handshake = FALSE
      /\ reg'.write = reg.write /\ reg'.addr_hi = reg.addr_hi /\ reg'.addr_lo = reg.addr_lo
  BY <1>0, LoweredReg DEF Shapes
<1>2. RegShape' /\ reg.read' = reg.read /\ reg.handshake' = FALSE /\ reg.write' = reg.write
  BY <1>1 DEF RegShape
<1>3. ~reg.read /\ ~reg.write /\ i < job.len /\ x \in 0..TotalBytes - 1 /\ cnt \in 0..TotalBytes
  BY <1>0 DEF Commands, Moving, TypeOK
<1>4. ~(phase = "cmd" /\ card = "ready")  BY <1>3, NoCommand
<1>5. Aligned => Aligned'  BY <1>0 DEF Aligned, Current, controllerVars
<1>6. Missed => Missed'
  <2>1. ASSUME NEW s \in {0, 1}, problems = (x + s + 1) % ProblemValues
        PROVE  problems = (x' + s + 0) % ProblemValues
    <3>1. x + s + 1 = x' + s + 0  BY <1>0, <1>3, Sizes
    <3> QED  BY <2>1, <3>1
  <2> QED  BY <1>0, <1>2, <2>1 DEF Missed, controllerVars
<1>7. ~(Full /\ Aligned)  BY <1>0, <1>3, Sizes DEF Full, Aligned
<1> USE <1>0 DEF controllerVars, cardVars
<1>8. TypeOK'
  <2>1. RegTyped'  BY <1>1 DEF RegTyped, TypeOK
  <2>2. x' \in 0..TotalBytes - 1  BY <1>3, Sizes
  <2> QED  BY <2>1, <2>2 DEF TypeOK, PollLoops, RegTyped
<1>9. Shapes' /\ Serving'  BY <1>2 DEF Shapes, JobShape, Serving
<1>10. Commands'  BY <1>2, <1>3 DEF Commands, Moving
<1>11. Phased' /\ CommandCurrent'  BY <1>4 DEF Phased, CommandCurrent
<1>12. Collecting'  BY <1>5 DEF Collecting
<1>13. ReadCurrent'  BY <1>2 DEF ReadCurrent, Moving, Current, PastBlock
<1>14. WriteCurrent'  BY <1>3, <1>5, <1>6 DEF WriteCurrent, Moving
<1>15. Delivered'
  <2>1. UNCHANGED <<Full, DataIn, Current>> /\ Moving /\ Moving'  BY DEF Full, DataIn, Current, Moving
  <2> QED  BY <1>7, <2>1, MeantStays DEF Delivered
<1>16. WrittenSafe' /\ Finished'  BY DEF WrittenSafe, Safe, Full, DataIn, Moving, Finished
<1>17. NoForeignWrite' /\ ReadRight'  BY MeantStays DEF NoForeignWrite, ReadRight
<1> QED  BY <1>8, <1>9, <1>10, <1>11, <1>12, <1>13, <1>14, <1>15, <1>16, <1>17

(* The end of a block: what the task knows when it counts no problem.      *)
LEMMA BlockSurelyWritten ==
  ASSUME SDInv, pc = "ack", ~hs, x + 1 = TotalBytes, problems = 0, job.op = "write"
  PROVE  /\ Aligned /\ cnt = TotalBytes /\ phase = "wr" /\ Full
         /\ addr = Current /\ DataIn = job.data[i + 1]
<1> USE DEF SDInv
<1>1. ~Missed
  <2>1. ASSUME NEW s \in {0, 1}, problems = (x + s + 1) % ProblemValues  PROVE FALSE
    <3>1. x + s + 1 = TotalBytes \/ x + s + 1 = TotalBytes + 1  BY Sizes DEF TypeOK
    <3> QED  BY <2>1, <3>1, DriverAssumption
  <2> QED  BY <2>1 DEF Missed
<1>2. phase = "wr" /\ Aligned  BY <1>1 DEF WriteCurrent, Commands
<1>3. cnt = TotalBytes /\ Full /\ addr = Current /\ \A k \in 1..cnt : buf[k] = ByteOf(job.data[i + 1], k)
  BY <1>2 DEF Aligned, Full
<1>4. i + 1 \in 1..job.len /\ dev = "io"  BY DEF Commands, Moving, Shapes, JobShape, TypeOK
<1>5. job.data[i + 1] \in Contents  BY <1>4, JobContents DEF Shapes
<1>6. buf \in Seq(Wire) /\ Len(buf) = TotalBytes  BY <1>2, <1>3 DEF Shapes, Phased
<1> QED  BY <1>2, <1>3, <1>5, <1>6, WholeBlock DEF DataIn

LEMMA BlockSurelyRead ==
  ASSUME SDInv, pc = "ack", ~hs, x + 1 = TotalBytes, CrcRight, job.op = "read"
  PROVE  /\ SubSeq(got, 1, DataBytes) = cells[Current] /\ Current \in Blocks /\ addr = Current
         /\ PastBlock
<1> USE DEF SDInv
<1> DEFINE data == SubSeq(got, 1, DataBytes)
<1>1. got \in Seq(Wire) /\ Len(got) = TotalBytes  BY DEF Shapes, Commands
<1>2. data \in [1..DataBytes -> Wire]
  <2>1. data = [k \in 1..DataBytes |-> got[k]]  BY <1>1, Sizes
  <2>2. \A k \in 1..DataBytes : got[k] \in Wire  BY <1>1, Sizes
  <2> QED  BY <2>1, <2>2
<1> HIDE DEF data
<1>3. 2 \in 1..CrcBytes /\ DataBytes + 2 = TotalBytes /\ TotalBytes \in 1..Len(got)
  BY <1>1, Sizes
<1>4. got[TotalBytes] = CrcByte(data, 2)  BY <1>3 DEF CrcRight, data
<1>5. got[TotalBytes] \notin DataByte \cup {Noise}  BY <1>2, <1>3, <1>4, CrcAssumption
<1>6. /\ addr = Current /\ Current \in Blocks
      /\ \E half \in 1..CrcBytes :
           got[TotalBytes] = CrcByte(cells[Current], half) /\ (half = CrcBytes => PastBlock)
  BY <1>3, <1>5 DEF ReadCurrent
<1>7. PICK half \in 1..CrcBytes :
        got[TotalBytes] = CrcByte(cells[Current], half) /\ (half = CrcBytes => PastBlock)
  BY <1>6
<1>8. data = cells[Current] /\ 2 = half  BY <1>4, <1>7, CrcTellsApart
<1> QED  BY <1>6, <1>7, <1>8, Sizes DEF data

(* What the task keeps of the block in the caller's memory.                *)
LEMMA KeptJob ==
  ASSUME JobShape, i + 1 \in 1..job.len, job' = Kept
  PROVE  /\ JobShape' /\ job'.op = job.op /\ job'.block = job.block /\ job'.len = job.len
         /\ job.op = "write" => job' = job
         /\ job.op = "read" => \A n \in 1..job.len :
              job'.data[n] = IF n = i + 1 THEN SubSeq(got, 1, DataBytes) ELSE job.data[n]
<1>1. CASE job.op = "write"  BY <1>1 DEF Kept, JobShape
<1>2. CASE job.op = "read"
  <2> DEFINE d == [job.data EXCEPT ![i + 1] = SubSeq(got, 1, DataBytes)]
  <2>1. DOMAIN d = 1..job.len
        /\ \A n \in 1..job.len : d[n] = IF n = i + 1 THEN SubSeq(got, 1, DataBytes) ELSE job.data[n]
    BY DEF JobShape
  <2>2. job' = [job EXCEPT !.data = d]  BY <1>2 DEF Kept
  <2> HIDE DEF d
  <2>3. /\ DOMAIN job' = DOMAIN job /\ job'.op = job.op /\ job'.block = job.block
        /\ job'.len = job.len /\ job'.data = d
    BY <2>2 DEF JobShape
  <2> QED  BY <1>2, <2>1, <2>3 DEF JobShape
<1> QED  BY <1>1, <1>2 DEF JobShape

LEMMA BlockFailedInv ==
  ASSUME SDInv, Drive, pc = "ack", ~hs, x + 1 = TotalBytes, job' = Kept, reg' = Lowered,
         NEW code \in {"TIMEOUT", "CRC"}, Return(code), UNCHANGED <<i, x, got, problems>>,
         UNCHANGED controllerVars, UNCHANGED cardVars
  PROVE  SDInv'
<1> USE DEF SDInv
<1>0. /\ pc' = "return" /\ result' = code /\ UNCHANGED <<dev, io, attempts, acked, callers>>
      /\ dev = "io"
  BY DEF Drive, Return, deviceVars, historyVars, TypeOK
<1>1. /\ DOMAIN reg' = RegNames /\ reg'.read = reg.read /\ reg'.handshake = FALSE
      /\ reg'.write = reg.write /\ reg'.addr_hi = reg.addr_hi /\ reg'.addr_lo = reg.addr_lo
  BY LoweredReg DEF Shapes
<1>2. RegShape' /\ reg.read' = reg.read /\ reg.handshake' = FALSE /\ reg.write' = reg.write
  BY <1>1 DEF RegShape
<1>3. ~reg.read /\ ~reg.write /\ i < job.len /\ i + 1 \in 1..job.len
  BY DEF Commands, Moving, Shapes, JobShape
<1>4. ~(phase = "cmd" /\ card = "ready")  BY <1>3, NoCommand
<1>5. /\ JobShape' /\ job'.op = job.op /\ job'.block = job.block /\ job'.len = job.len
      /\ job.op = "write" => job' = job
  BY <1>3, KeptJob DEF Shapes
<1>6. job.op \in {"read", "write"}  BY DEF Shapes, JobShape
<1>7. Aligned => cnt = TotalBytes  BY DEF Aligned
<1> USE <1>0 DEF controllerVars, cardVars
<1>8. TypeOK'
  <2>1. RegTyped'  BY <1>1 DEF RegTyped, TypeOK
  <2> QED  BY <2>1 DEF TypeOK, PollLoops, RegTyped
<1>9. Shapes'  BY <1>2, <1>5 DEF Shapes
<1>10. Serving'  BY <1>5 DEF Serving
<1>11. Commands'  BY <1>2, <1>3 DEF Commands, Moving
<1>12. Phased' /\ CommandCurrent'  BY <1>4 DEF Phased, CommandCurrent
<1>13. Collecting'  BY <1>7, Sizes DEF Collecting, TypeOK
<1>14. ReadCurrent' /\ WriteCurrent'  BY DEF ReadCurrent, WriteCurrent, Moving
<1>15. Delivered'
  <2>1. UNCHANGED <<Full, DataIn>> /\ Moving  BY DEF Full, DataIn, Moving
  <2>2. job.op = "write" => UNCHANGED Current  BY <1>5 DEF Current
  <2> QED  BY <1>3, <1>5, <2>1, <2>2, MeantStays DEF Delivered, Aligned
<1>16. WrittenSafe' /\ Finished'  BY DEF WrittenSafe, Safe, Full, DataIn, Moving, Finished
<1>17. NoForeignWrite' /\ ReadRight'  BY MeantStays DEF NoForeignWrite, ReadRight
<1> QED  BY <1>8, <1>9, <1>10, <1>11, <1>12, <1>13, <1>14, <1>15, <1>16, <1>17

LEMMA BlockDoneInv ==
  ASSUME SDInv, Drive, pc = "ack", ~hs, x + 1 = TotalBytes, job' = Kept,
         problems = 0, job.op = "read" => CrcRight, NextBlock(i + 1, Lowered),
         problems' = 0, UNCHANGED controllerVars, UNCHANGED cardVars
  PROVE  SDInv'
<1> USE DEF SDInv
<1>0. UNCHANGED <<dev, io, attempts, acked, callers>> /\ dev = "io"
  BY DEF Drive, deviceVars, historyVars, TypeOK
<1>1. ~reg.read /\ ~reg.write /\ i + 1 \in 1..job.len /\ i + 1 \in 0..job.len /\ i \in Nat
  BY DEF Commands, Moving, Shapes, JobShape
<1>2. /\ DOMAIN Lowered = RegNames /\ Lowered.read = FALSE /\ Lowered.handshake = FALSE
      /\ Lowered.write = FALSE /\ Lowered.addr_hi \in Nat /\ Lowered.addr_lo \in 0..LoSize - 1
  BY <1>1, LoweredReg DEF Shapes, TypeOK
<1>3. ~(phase = "cmd" /\ card = "ready")  BY <1>1, NoCommand
<1>4. /\ JobShape' /\ job'.op = job.op /\ job'.block = job.block /\ job'.len = job.len
      /\ job.op = "write" => job' = job
      /\ job.op = "read" => \A n \in 1..job.len :
           job'.data[n] = IF n = i + 1 THEN SubSeq(got, 1, DataBytes) ELSE job.data[n]
  BY <1>1, KeptJob DEF Shapes
<1>5. job.op \in {"read", "write"} /\ job.block \in Nat /\ job.len \in Nat  BY DEF Shapes, JobShape
<1>6. /\ i' = i + 1 /\ x' = 0 /\ got' = <<>>
      /\ pc' = (IF i + 1 = job.len THEN "return" ELSE "start")
      /\ result' = (IF i + 1 = job.len THEN "OK" ELSE result)
      /\ RegShape' /\ RegTyped' /\ Commands'
      /\ reg.read' <=> (i + 1 # job.len /\ job.op = "read")
  BY <1>1, <1>2, <1>4, BlockBegins
<1>7. job.op = "read" =>
        /\ SubSeq(got, 1, DataBytes) = cells[Current] /\ Current \in Blocks /\ addr = Current
        /\ PastBlock /\ phase \notin {"wr", "prog"}
  BY BlockSurelyRead DEF PastBlock
<1>8. job.op = "write" =>
        /\ cnt = TotalBytes /\ phase = "wr" /\ Full /\ addr = Current /\ DataIn = job.data[i + 1]
  BY BlockSurelyWritten
<1> USE <1>0 DEF controllerVars, cardVars
<1>9. TypeOK'
  <2>1. pc' \in PollLoops /\ pc' # "idle" /\ result' \in {"none", "OK", "TIMEOUT", "CRC"}
    BY <1>6 DEF TypeOK, PollLoops
  <2> QED  BY <1>6, <2>1, Sizes DEF TypeOK, RegTyped
<1>10. Shapes'  BY <1>1, <1>4, <1>6 DEF Shapes
<1>11. Serving'  BY <1>4 DEF Serving
<1>12. Phased' /\ CommandCurrent'  BY <1>3 DEF Phased, CommandCurrent
<1>13. Collecting'  BY <1>5, <1>7, <1>8, Sizes DEF Collecting
<1>14. ReadCurrent'
  <2> SUFFICES ASSUME job.op = "read"  PROVE ReadCurrent'
    BY <1>4 DEF ReadCurrent
  <2>1. phase \in {"token", "rd"} => phase = "rd" /\ cnt = TotalBytes  BY <1>7 DEF PastBlock
  <2>2. Moving' => reg.read'  BY <1>6 DEF Moving
  <2>3. ASSUME NEW n \in 1..i + 1
        PROVE  job.block + n - 1 \in Blocks /\ job'.data[n] = cells[job.block + n - 1]
    <3>1. CASE n = i + 1
      <4>1. job.block + n - 1 = Current  BY <1>1, <1>5, <3>1 DEF Current
      <4> QED  BY <1>1, <1>4, <1>7, <3>1, <4>1
    <3>2. CASE n # i + 1
      <4>1. n \in 1..i /\ n \in 1..job.len  BY <1>1, <1>5, <3>2
      <4>2. job.block + n - 1 \in Blocks /\ job.data[n] = cells[job.block + n - 1]
        BY <4>1 DEF ReadCurrent, Moving
      <4> QED  BY <1>4, <3>2, <4>1, <4>2
    <3> QED  BY <3>1, <3>2
  <2> QED  BY <1>4, <1>6, <1>7, <2>1, <2>2, <2>3 DEF ReadCurrent, Moving
<1>15. WriteCurrent'  BY <1>4, <1>6, <1>8 DEF WriteCurrent, Moving
<1>16. Delivered'
  <2>1. UNCHANGED <<Full, DataIn>>  BY DEF Full, DataIn
  <2>2. job.op = "read" => ~Full  BY <1>7 DEF Full
  <2>3. Current' = Current + 1 /\ i' > 0 /\ Current = Current' - 1
    BY <1>1, <1>4, <1>5, <1>6 DEF Current
  <2> QED  BY <1>4, <1>5, <1>6, <1>8, <2>1, <2>2, <2>3, MeantStays DEF Delivered
<1>17. WrittenSafe'
  <2>1. UNCHANGED <<Full, DataIn>>  BY DEF Full, DataIn
  <2>2. \A b, d : Safe(b, d)' <=> Safe(b, d)  BY <2>1 DEF Safe
  <2>3. ASSUME job.op = "write", NEW n \in 1..i + 1, job.block + n - 1 \in Blocks
        PROVE  Safe(job.block + n - 1, job.data[n])
    <3>1. CASE n = i + 1
      <4>1. job.block + n - 1 = Current  BY <1>1, <1>5, <3>1 DEF Current
      <4> QED  BY <1>8, <2>3, <3>1, <4>1 DEF Safe
    <3>2. CASE n # i + 1
      <4>1. n \in 1..i  BY <1>1, <3>2
      <4> QED  BY <2>3, <4>1 DEF WrittenSafe, Moving
    <3> QED  BY <3>1, <3>2
  <2> QED  BY <1>4, <1>6, <2>2, <2>3 DEF WrittenSafe
<1>18. Finished'  BY <1>4, <1>6 DEF Finished
<1>19. NoForeignWrite' /\ ReadRight'  BY MeantStays DEF NoForeignWrite, ReadRight
<1> QED  BY <1>6, <1>9, <1>10, <1>11, <1>12, <1>13, <1>14, <1>15, <1>16, <1>17, <1>18, <1>19

LEMMA BlockMovedInv ==
  ASSUME SDInv, Drive, BlockMoved
  PROVE  SDInv'
<1>0. /\ pc = "ack" /\ ~hs /\ x + 1 = TotalBytes /\ job' = Kept
      /\ UNCHANGED controllerVars /\ UNCHANGED cardVars
  BY DEF BlockMoved
<1>1. CASE problems = 0 /\ (job.op = "read" => CrcRight)
  <2>1. NextBlock(i + 1, Lowered) /\ problems' = 0  BY <1>1 DEF BlockMoved
  <2> QED  BY <1>0, <1>1, <2>1, BlockDoneInv
<1>2. CASE ~(problems = 0 /\ (job.op = "read" => CrcRight))
  <2> DEFINE code == IF problems # 0 THEN "TIMEOUT" ELSE "CRC"
  <2>1. Return(code) /\ reg' = Lowered /\ UNCHANGED <<i, x, got>>  BY <1>2 DEF BlockMoved
  <2>2. code \in {"TIMEOUT", "CRC"}  OBVIOUS
  <2>3. problems' = problems  BY <2>1 DEF BlockMoved, Return
  <2> HIDE DEF code
  <2> QED  BY <1>0, <2>1, <2>2, <2>3, BlockFailedInv
<1> QED  BY <1>1, <1>2

LEMMA DriveInv ==
  ASSUME SDInv, Drive
  PROVE  SDInv'
<1>1. job.op \in {"read", "write"}  BY DEF SDInv, Shapes, JobShape
<1> QED
  BY <1>1, BusyEndsInv, BusyResetInv, ReadStartsInv, WriteStartsInv, ReadByteInv, WriteByteInv,
     ByteMovedInv, BlockMovedInv
  DEF Drive, DriverStep

-----------------------------------------------------------------------------
(* The beginning and the end of a request.                                 *)

(* A block that a failed write has left in the buffer is one of that write, *)
(* of which nobody has been told yet: a reset may drop it.                 *)
LEMMA NobodyWasTold ==
  ASSUME SDInv, pc = "return", job.op = "write", Full, addr \in Blocks
  PROVE  acked[addr] = Unknown
<1> USE DEF SDInv
<1>1. dev = "io" /\ JobShape /\ i \in 0..job.len  BY DEF TypeOK, Shapes
<1>2. \/ i > 0 /\ addr = Current - 1
      \/ i < job.len /\ addr = Current
  BY DEF Delivered
<1>3. PICK n \in 1..job.len : addr = job.block + n - 1
  <2>1. CASE i > 0 /\ addr = Current - 1
    <3>1. i \in 1..job.len /\ addr = job.block + i - 1  BY <1>1, <2>1 DEF Current, JobShape
    <3> QED  BY <3>1
  <2>2. CASE i < job.len /\ addr = Current
    <3>1. i + 1 \in 1..job.len /\ addr = job.block + (i + 1) - 1  BY <1>1, <2>2 DEF Current, JobShape
    <3> QED  BY <3>1
  <2> QED  BY <1>2, <2>1, <2>2
<1>4. addr \in BlocksOf(io)  BY <1>1, <1>3, JobContents
<1>5. Writes(io)  BY <1>1 DEF Serving
<1> QED  BY <1>1, <1>4, <1>5, Sizes DEF Serving

LEMMA RetryInv ==
  ASSUME SDInv, Retry, UNCHANGED <<callers, changes>>
  PROVE  SDInv'
<1> USE DEF SDInv
<1>0. /\ pc = "return" /\ Writes(io) /\ attempts > 1 /\ attempts' = attempts - 1
      /\ ResetController /\ reg' = Quiet(ClearedRegs) /\ pc' = "busy"
      /\ i' = 0 /\ x' = 0 /\ problems' = 0 /\ got' = <<>> /\ result' = "none"
      /\ UNCHANGED <<job, dev, io, acked, callers>>
  BY DEF Retry, Writes, historyVars
<1>1. dev = "io" /\ job.op = "write" /\ JobShape /\ RegShape  BY <1>0 DEF TypeOK, Serving, Shapes
<1>2. /\ DOMAIN ClearedRegs = RegNames
      /\ ClearedRegs.addr_hi \in Nat /\ ClearedRegs.addr_lo \in 0..LoSize - 1
  BY <1>1, ClearedReg
<1>3. /\ DOMAIN reg' = RegNames
      /\ reg'.read = FALSE /\ reg'.write = FALSE /\ reg'.handshake = FALSE
      /\ reg'.addr_hi \in Nat /\ reg'.addr_lo \in 0..LoSize - 1
  BY <1>0, <1>2, QuietReg
<1>4. RegShape' /\ RegTyped' /\ reg.read' = FALSE /\ reg.write' = FALSE /\ reg.handshake' = FALSE
  BY <1>3 DEF RegShape, RegTyped
<1>5. /\ phase' = "start" /\ ~Full' /\ addr' = addr /\ cnt' \in 0..TotalBytes /\ hs' \in BOOLEAN
      /\ op' \in {"read", "write"} /\ card' = card /\ buf' \in Seq(Wire) /\ dataOut' \in Wire
      /\ Phased' /\ CommandCurrent' /\ Collecting' /\ Delivered'
  BY <1>0, AfterReset
<1>6. /\ cells' \in [Blocks -> Contents] /\ lost' \subseteq Addresses
      /\ NoForeignWrite'
      /\ \A b \in Blocks : acked[b] # Unknown => cells'[b] = acked[b] \/ b \in lost'
  BY <1>0, <1>1, NobodyWasTold, ResetSettles
<1>7. TypeOK'
  <2>1. phase' \in Phases /\ pc' \in PollLoops  BY <1>0, <1>5 DEF Phases, PollLoops
  <2>2. attempts' \in 0..SD_RETRY  BY <1>0, Sizes DEF TypeOK
  <2> QED  BY <1>0, <1>1, <1>4, <1>5, <1>6, <2>1, <2>2, Sizes DEF TypeOK, RegTyped
<1>8. Shapes' /\ Serving'
  BY <1>0, <1>1, <1>4, <1>5, <1>6 DEF Shapes, JobShape, Serving
<1>9. Commands'  BY <1>0, <1>4 DEF Commands, Moving
<1>10. ReadCurrent' /\ WriteCurrent' /\ Finished'
  BY <1>0 DEF ReadCurrent, WriteCurrent, Moving, Finished
<1>11. WrittenSafe'  BY <1>0, <1>6 DEF WrittenSafe, Safe, Moving
<1>12. ReadRight'  BY <1>0, <1>1 DEF ReadRight
<1> QED  BY <1>5, <1>6, <1>7, <1>8, <1>9, <1>10, <1>11, <1>12

LEMMA EndTransferInv ==
  ASSUME SDInv, EndTransfer, UNCHANGED <<callers, changes>>
  PROVE  SDInv'
<1> USE DEF SDInv
<1> DEFINE resets == result # "OK" /\ io.command \in TrackdiskWrites
<1>0. /\ pc = "return" /\ pc' = "idle" /\ dev' = "idle" /\ attempts' = 0
      /\ IF resets THEN ResetController /\ reg' = ClearedRegs
                   ELSE UNCHANGED reg /\ UNCHANGED controllerVars /\ UNCHANGED cardVars
      /\ i' = 0 /\ x' = 0 /\ problems' = 0 /\ got' = <<>>
      /\ UNCHANGED <<result, callers>>
  BY DEF EndTransfer, Reply
<1>1. /\ acked' = [b \in Addresses |->
            IF result = "OK" /\ Writes(io) /\ b \in BlocksOf(io)
            THEN job.data[b - FirstBlock(io) + 1] ELSE acked[b]]
      /\ job' = IF result = "OK" /\ ~Writes(io) THEN job ELSE NoJob
  BY DEF EndTransfer
<1>2. /\ dev = "io" /\ JobShape /\ RegShape /\ i \in 0..job.len
      /\ job.op = (IF Writes(io) THEN "write" ELSE "read")
      /\ job.block = FirstBlock(io) /\ job.len = BlockCount(io)
  BY <1>0 DEF TypeOK, Serving, Shapes
<1>3. RegShape' /\ RegTyped' /\ ~reg.read' /\ ~reg.write' /\ ~reg.handshake'
  <2>1. CASE resets  BY <1>0, <1>2, <2>1, ClearedReg DEF RegShape, RegTyped
  <2>2. CASE ~resets
    <3>1. ~reg.read /\ ~reg.write /\ ~reg.handshake  BY <1>0 DEF Commands
    <3> QED  BY <1>0, <1>2, <2>2, <3>1 DEF RegShape, RegTyped, TypeOK
  <2> QED  BY <2>1, <2>2
<1>4. JobShape' /\ job'.op \in {"read", "write"} /\ 0 \in 0..job'.len
  BY <1>1, <1>2 DEF JobShape, NoJob
\* A block of a write that is reported done: the job's content is acked.
<1>5. ASSUME NEW b \in Blocks, result = "OK", Writes(io), b \in BlocksOf(io)
      PROVE  /\ acked'[b] = job.data[b - job.block + 1] /\ b - job.block + 1 \in 1..i
             /\ Safe(b, acked'[b])
             /\ b = addr /\ Full => acked'[b] = DataIn
  <2>1. acked'[b] = job.data[b - job.block + 1]  BY <1>1, <1>2, <1>5, Sizes
  <2> DEFINE n == b - job.block + 1
  <2>2. n \in 1..i /\ job.block + n - 1 = b
    BY <1>0, <1>2, <1>5, Sizes DEF BlocksOf, Finished, JobShape
  <2>3. Safe(job.block + n - 1, job.data[n])
    BY <1>0, <1>2, <1>5, <2>2 DEF WrittenSafe
  <2>4. Full => addr = job.block + i - 1 /\ DataIn = job.data[i]
    BY <1>0, <1>2, <1>5 DEF Delivered, Current, JobShape
  <2>5. b = addr /\ Full => n = i  BY <1>2, <2>2, <2>4 DEF JobShape
  <2> QED  BY <2>1, <2>2, <2>3, <2>4, <2>5
<1>6. ASSUME NEW b \in Blocks, ~(result = "OK" /\ Writes(io) /\ b \in BlocksOf(io))
      PROVE  acked'[b] = acked[b]
  BY <1>1, <1>6, Sizes
<1>7. DOMAIN acked' = Addresses  BY <1>1
<1>8. CASE resets
  <2>1. /\ phase' = "start" /\ ~Full' /\ addr' = addr /\ cnt' \in 0..TotalBytes /\ hs' \in BOOLEAN
        /\ op' \in {"read", "write"} /\ card' = card /\ buf' \in Seq(Wire) /\ dataOut' \in Wire
        /\ Phased' /\ CommandCurrent' /\ Collecting' /\ Delivered'
    BY <1>0, <1>8, AfterReset
  <2>2. job.op = "write" /\ result # "OK"  BY <1>2, <1>8 DEF Writes
  <2>3. /\ cells' \in [Blocks -> Contents] /\ lost' \subseteq Addresses
        /\ NoForeignWrite'
        /\ \A b \in Blocks : acked[b] # Unknown => cells'[b] = acked[b] \/ b \in lost'
    BY <1>0, <1>8, <2>2, NobodyWasTold, ResetSettles
  <2>4. TypeOK'
    <3>1. phase' \in Phases /\ pc' \in PollLoops  BY <1>0, <2>1 DEF Phases, PollLoops
    <3> QED  BY <1>0, <1>3, <2>1, <2>3, <3>1, Sizes DEF TypeOK, RegTyped
  <2>5. Shapes' /\ Serving'
    BY <1>0, <1>3, <1>4, <1>7, <2>1, <2>3 DEF Shapes, Serving
  <2>6. Commands'  BY <1>0, <1>3 DEF Commands, Moving
  <2>7. ReadCurrent' /\ WriteCurrent' /\ Finished' /\ ReadRight'
    BY <1>0, <2>2 DEF ReadCurrent, WriteCurrent, Moving, Finished, ReadRight
  <2>8. WrittenSafe'  BY <1>0, <1>6, <2>2, <2>3 DEF WrittenSafe, Safe, Moving
  <2> QED  BY <2>1, <2>3, <2>4, <2>5, <2>6, <2>7, <2>8
<1>9. CASE ~resets
  <2>0. UNCHANGED controllerVars /\ UNCHANGED cardVars /\ UNCHANGED <<Full, DataIn>>
    BY <1>0, <1>9 DEF controllerVars, Full, DataIn
  <2>1. ~(phase = "cmd" /\ card = "ready")
    BY <1>0, NoCommand DEF Commands
  <2> USE <2>0 DEF controllerVars, cardVars
  <2>2. TypeOK'
    <3>1. pc' \in PollLoops  BY <1>0 DEF PollLoops
    <3> QED  BY <1>0, <1>3, <3>1, Sizes DEF TypeOK, RegTyped
  <2>3. Shapes' /\ Serving'
    BY <1>0, <1>3, <1>4, <1>7 DEF Shapes, Serving
  <2>4. Commands'  BY <1>0, <1>3 DEF Commands, Moving
  <2>5. Phased' /\ CommandCurrent' /\ Collecting'
    BY <1>0, <2>1 DEF Phased, CommandCurrent, Collecting, Aligned
  <2>6. Delivered'
    BY <1>0, <1>5, <1>6, MeantStays DEF Delivered, Moving
  <2>7. job'.op = "read" /\ job'.len > 0 /\ result = "OK" => job' = job /\ job.op = "read"
    BY <1>1, <1>2 DEF NoJob
  <2>8. ReadCurrent' /\ WriteCurrent' /\ Finished'
    BY <1>0, <2>7 DEF ReadCurrent, WriteCurrent, Moving, Finished
  <2>9. ReadRight'
    <3> SUFFICES ASSUME result = "OK", job'.op = "read", NEW n \in 1..job'.len
                 PROVE  /\ job'.block + n - 1 \in Blocks
                        /\ job'.data[n] = cells[job'.block + n - 1]
      BY <1>0 DEF ReadRight
    <3>1. job'.len > 0  BY <1>4 DEF JobShape
    <3>2. job' = job /\ job.op = "read"  BY <2>7, <3>1
    <3>3. i = job.len  BY <1>0 DEF Finished
    <3> QED  BY <1>0, <3>2, <3>3 DEF ReadCurrent
  <2>10. WrittenSafe'
    <3>1. \A b, d : Safe(b, d)' <=> Safe(b, d)  BY DEF Safe
    <3>2. ASSUME NEW b \in Blocks, acked'[b] # Unknown  PROVE Safe(b, acked'[b])
      BY <1>5, <1>6, <3>2 DEF WrittenSafe
    <3> QED  BY <1>0, <3>1, <3>2 DEF WrittenSafe, Moving
  <2>11. NoForeignWrite'  BY <1>0, MeantStays DEF NoForeignWrite
  <2> QED  BY <2>2, <2>3, <2>4, <2>5, <2>6, <2>8, <2>9, <2>10, <2>11
<1> QED  BY <1>8, <1>9

LEMMA BeginIOTransferInv ==
  ASSUME SDInv, NEW r \in callers.requests, BeginIOTransfer(r), UNCHANGED <<callers, changes>>
  PROVE  SDInv'
<1> USE DEF SDInv
<1>0. /\ dev = "idle" /\ Moves(r) /\ io' = r /\ dev' = "io"
      /\ job' = JobOf(r) /\ reg' = Quiet(reg) /\ pc' = "busy"
      /\ i' = 0 /\ x' = 0 /\ problems' = 0 /\ got' = <<>> /\ result' = "none"
      /\ attempts' \in {SD_RETRY, 1}
      /\ UNCHANGED controllerVars /\ UNCHANGED cardVars /\ UNCHANGED callers
  BY DEF BeginIOTransfer, Sent, Call
<1>1. acked' = [b \in Addresses |-> IF Writes(r) /\ b \in BlocksOf(r) THEN Unknown ELSE acked[b]]
  BY DEF BeginIOTransfer
<1>2. pc = "idle" /\ RegShape /\ ~reg.read /\ ~reg.write /\ callers \in Callers
  BY <1>0 DEF TypeOK, Commands, Shapes, Serving
<1>3. FirstBlock(r) \in Nat /\ BlockCount(r) \in Nat  BY <1>0, <1>2, CallersAssumption
<1>4. /\ JobShape' /\ job'.op = (IF Writes(r) THEN "write" ELSE "read")
      /\ job'.block = FirstBlock(r) /\ job'.len = BlockCount(r)
  BY <1>0, <1>3 DEF JobShape, JobOf
<1>5. /\ DOMAIN reg' = RegNames
      /\ reg'.read = FALSE /\ reg'.write = FALSE /\ reg'.handshake = FALSE
      /\ reg'.addr_hi = reg.addr_hi /\ reg'.addr_lo = reg.addr_lo
  BY <1>0, <1>2, QuietReg DEF RegShape
<1>6. RegShape' /\ RegTyped' /\ ~reg.read' /\ ~reg.write' /\ ~reg.handshake'
  BY <1>5 DEF RegShape, RegTyped, TypeOK
<1>7. /\ DOMAIN acked' = Addresses
      /\ \A b \in Addresses : acked'[b] \in {Unknown, acked[b]}
      /\ Writes(r) => \A b \in BlocksOf(r) \cap Addresses : acked'[b] = Unknown
  BY <1>1
<1>8. ~(phase = "cmd" /\ card = "ready")  BY <1>2, NoCommand
<1>9. UNCHANGED <<Full, DataIn>>  BY <1>0 DEF Full, DataIn, controllerVars
<1> USE <1>0 DEF controllerVars, cardVars
<1>10. TypeOK'
  <2>1. attempts' \in 0..SD_RETRY /\ pc' \in PollLoops  BY Sizes DEF PollLoops
  <2> QED  BY <1>6, <2>1, Sizes DEF TypeOK, RegTyped
<1>11. Shapes'
  <2>1. 0 \in 0..job'.len  BY <1>3, <1>4
  <2> QED  BY <1>4, <1>6, <1>7, <2>1 DEF Shapes
<1>12. Serving'  BY <1>2, <1>4, <1>7 DEF Serving
<1>13. Commands'  BY <1>6 DEF Commands, Moving
<1>14. Phased' /\ CommandCurrent'  BY <1>8 DEF Phased, CommandCurrent
<1>15. Collecting'  BY <1>2 DEF Collecting, Aligned
<1>16. ReadCurrent' /\ WriteCurrent' /\ Finished' /\ ReadRight'
  BY DEF ReadCurrent, WriteCurrent, Moving, Finished, ReadRight
<1>17. Delivered'  BY <1>7, <1>9, MeantStays, Sizes DEF Delivered, Moving
<1>18. WrittenSafe'
  <2>1. \A b, d : Safe(b, d)' <=> Safe(b, d)  BY <1>9 DEF Safe
  <2>2. \A b \in Blocks : acked'[b] # Unknown => acked'[b] = acked[b]  BY <1>7, Sizes
  <2> QED  BY <2>1, <2>2 DEF WrittenSafe, Moving
<1>19. NoForeignWrite'  BY MeantStays DEF NoForeignWrite
<1> QED  BY <1>10, <1>11, <1>12, <1>13, <1>14, <1>15, <1>16, <1>17, <1>18, <1>19

LEMMA ServeInv ==
  ASSUME SDInv, Serve
  PROVE  SDInv'
<1>1. UNCHANGED <<callers, changes>>  BY DEF Serve
<1>2. ASSUME NEW r \in callers.requests, BeginIORefused(r) \/ BeginIOStatus(r) \/ BeginIOInform(r)
      PROVE  SDInv'
  <2>1. /\ dev = "idle" /\ dev' = "idle" /\ io' = io
        /\ UNCHANGED sdVars /\ UNCHANGED driverVars /\ UNCHANGED <<attempts, acked>>
    <3>1. CASE BeginIORefused(r)
      BY <3>1 DEF BeginIORefused, Sent, Reply, historyVars
    <3>2. CASE BeginIOStatus(r)
      BY <3>2 DEF BeginIOStatus, Sent, Reply, historyVars, Moves, IsTrackdisk, ScsiMoves
    <3>3. CASE BeginIOInform(r)
      BY <3>3 DEF BeginIOInform, Sent, Reply
    <3> QED  BY <1>2, <3>1, <3>2, <3>3
  <2> QED  BY <1>1, <2>1, UnseenStep DEF SeenVars
<1>3. ASSUME AbortIO \/ (\E n \in 0..1 : Open(n))  PROVE SDInv'
  <2>1. UNCHANGED SeenVars  BY <1>1, <1>3 DEF AbortIO, Open, SeenVars, historyVars
  <2> QED  BY <2>1, UnseenStep
<1> QED  BY <1>1, <1>2, <1>3, BeginIOTransferInv DEF Serve

LEMMA NextInv ==
  ASSUME SDInv, [Next]_vars
  PROVE  SDInv'
<1>1. CASE UNCHANGED vars
  <2>1. UNCHANGED SeenVars  BY <1>1 DEF vars, SeenVars, deviceVars, historyVars
  <2> QED  BY <2>1, UnseenStep
<1>2. CASE Finish  BY <1>2, RetryInv, EndTransferInv DEF Finish
<1> QED  BY <1>1, <1>2, ServeInv, DriveInv, ControlInv, CardChangeInv DEF Next

-----------------------------------------------------------------------------
(* What SCSI replies tell of the card.                                     *)

(* A number is its bytes, most significant first. *)
LEMMA Digits ==
  ASSUME NEW n \in Nat
  PROVE  /\ n \div ByteValues \in Nat /\ n % ByteValues \in 0..ByteValues - 1
         /\ (n \div ByteValues) * ByteValues + (n % ByteValues) = n
<1>1. ByteValues \in Nat \ {0}  BY GeometryAssumption
<1> QED  BY <1>1

LEMMA SmallQuotient ==
  ASSUME NEW n \in Nat, NEW m \in Nat, n < m * ByteValues
  PROVE  n \div ByteValues < m
<1> DEFINE q == n \div ByteValues
           d == n % ByteValues
<1>1. q \in Nat /\ d \in Nat /\ q * ByteValues + d = n /\ ByteValues \in Nat \ {0}
  BY Digits, GeometryAssumption
<1> HIDE DEF q, d
<1>2. SUFFICES ASSUME q >= m  PROVE FALSE  BY <1>1 DEF q
<1>3. q * ByteValues >= m * ByteValues  BY <1>1, <1>2
<1> QED  BY <1>1, <1>3

LEMMA OneByte ==
  ASSUME NEW n \in Nat, n < ByteValues
  PROVE  ByteAt(n, 0) = n /\ n \div ByteValues = 0
<1>1. ByteValues \in Nat \ {0} /\ n < 1 * ByteValues  BY GeometryAssumption
<1>2. n \div ByteValues < 1  BY <1>1, SmallQuotient
<1>3. n \div ByteValues = 0 /\ n % ByteValues = n
  <2> DEFINE q == n \div ByteValues
             d == n % ByteValues
  <2>1. q \in Nat /\ d \in Nat /\ q * ByteValues + d = n /\ q < 1  BY Digits, <1>2
  <2> HIDE DEF q, d
  <2>2. q = 0  BY <2>1
  <2>3. 0 * ByteValues = 0  BY <1>1
  <2>4. d = n  BY <2>1, <2>2, <2>3
  <2> QED  BY <2>2, <2>4 DEF q, d
<1> QED  BY <1>3 DEF ByteAt, Shifted

LEMMA TwoBytes ==
  ASSUME NEW n \in Nat, n < ByteValues * ByteValues
  PROVE  ByteAt(n, 1) * ByteValues + ByteAt(n, 0) = n
<1>1. ByteValues \in Nat  BY GeometryAssumption
<1>2. n \div ByteValues \in Nat /\ n \div ByteValues < ByteValues  BY <1>1, SmallQuotient, Digits
<1>3. (n \div ByteValues) % ByteValues = n \div ByteValues  BY <1>2, OneByte DEF ByteAt, Shifted
<1>4. ByteAt(n, 1) = n \div ByteValues /\ ByteAt(n, 0) = n % ByteValues  BY <1>3 DEF ByteAt, Shifted
<1> QED  BY <1>4, Digits

LEMMA MoreBytes ==
  ASSUME NEW n \in Nat, n < ThreeBytes
  PROVE  /\ (ByteAt(n, 2) * ByteValues + ByteAt(n, 1)) * ByteValues + ByteAt(n, 0) = n
         /\ ByteAt(n, 3) = 0
<1> DEFINE q == n \div ByteValues
<1>1. ByteValues \in Nat /\ ByteValues * ByteValues \in Nat  BY GeometryAssumption
<1>2. q \in Nat /\ q < ByteValues * ByteValues  BY <1>1, SmallQuotient, Digits DEF ThreeBytes
<1>3. /\ ByteAt(n, 2) = ByteAt(q, 1) /\ ByteAt(n, 1) = ByteAt(q, 0) /\ ByteAt(n, 0) = n % ByteValues
      /\ ByteAt(n, 3) = ((q \div ByteValues) \div ByteValues) % ByteValues
  BY DEF ByteAt, Shifted
<1>4. q * ByteValues + (n % ByteValues) = n  BY Digits
<1>5. q \div ByteValues \in Nat /\ q \div ByteValues < ByteValues
  BY <1>1, <1>2, SmallQuotient, Digits
<1>6. (q \div ByteValues) \div ByteValues = 0  BY <1>5, OneByte
<1>7. 0 \in Nat /\ 0 < ByteValues  BY GeometryAssumption
<1>8. 0 % ByteValues = 0  BY <1>7, OneByte DEF ByteAt, Shifted
<1> HIDE DEF q
<1>9. ByteAt(q, 1) * ByteValues + ByteAt(q, 0) = q  BY <1>2, TwoBytes
<1> QED  BY <1>3, <1>4, <1>6, <1>8, <1>9

(* The facts of the card, in the sizes its geometry makes.                 *)
TrueFacts ==
  {<<"blocks", MaxBlock>>, <<"size", SD_SECTOR_BYTES>>, <<"cyls", SD_CYLS>>,
   <<"heads", SD_HEADS>>, <<"sectors", SD_TRACK_SECTORS>>}
ToldTrue == told \subseteq TrueFacts

LEMMA Capacity == MaxBlock \in Nat \ {0} /\ SD_SECTOR_BYTES \in Nat /\ SD_SECTOR_BYTES < ThreeBytes
<1>1. /\ ByteValues \in Nat /\ ByteValues * ByteValues \in Nat /\ ByteValues >= 1 /\ ThreeBytes \in Nat
      /\ SD_HEADS \in Nat \ {0} /\ SD_TRACK_SECTORS \in Nat \ {0} /\ SD_CYLS \in Nat \ {0}
  BY GeometryAssumption DEF ThreeBytes
<1>2. SD_CYLS * SD_HEADS \in Nat \ {0}  BY <1>1
<1>3. (SD_CYLS * SD_HEADS) * SD_TRACK_SECTORS \in Nat \ {0}  BY <1>1, <1>2
<1>4. MaxBlock \in Nat \ {0}  BY <1>3 DEF MaxBlock
<1> DEFINE s == ByteValues * ByteValues
<1>5. s \in Nat /\ SD_SECTOR_BYTES \in Nat /\ SD_SECTOR_BYTES < s  BY <1>1, GeometryAssumption
<1> HIDE DEF s
<1>6. s <= s * ByteValues /\ s * ByteValues \in Nat  BY <1>1, <1>5
<1>7. ThreeBytes = s * ByteValues  BY DEF ThreeBytes, s
<1> QED  BY <1>4, <1>5, <1>6, <1>7, <1>1

LEMMA CapacityFacts ==
  ASSUME NEW r, NEW bytes, r.scsi = "READ_CAPACITY", bytes = [k \in 0..7 |-> CapacityByte(k)]
  PROVE  Facts(r, bytes) \subseteq TrueFacts
<1> DEFINE last == MaxBlock - 1
<1>1. /\ last \in Nat /\ last < ThreeBytes /\ last + 1 = MaxBlock
      /\ ByteValues \in Nat
  BY Capacity, GeometryAssumption DEF ThreeBytes
<1>2. /\ bytes[0] = ByteAt(last, 3) /\ bytes[1] = ByteAt(last, 2) /\ bytes[2] = ByteAt(last, 1)
      /\ bytes[3] = ByteAt(last, 0)
  BY DEF CapacityByte
<1>3. /\ bytes[4] = ByteAt(SD_SECTOR_BYTES, 3) /\ bytes[5] = ByteAt(SD_SECTOR_BYTES, 2)
      /\ bytes[6] = ByteAt(SD_SECTOR_BYTES, 1) /\ bytes[7] = ByteAt(SD_SECTOR_BYTES, 0)
  BY DEF CapacityByte
<1> HIDE DEF last
<1>4. ASSUME NEW n \in Nat, NEW from \in {0, 4}, n < ThreeBytes,
             bytes[from] = ByteAt(n, 3), bytes[from + 1] = ByteAt(n, 2),
             bytes[from + 2] = ByteAt(n, 1), bytes[from + 3] = ByteAt(n, 0)
      PROVE  Number(bytes, from, 4) = n
  <2>1. ByteAt(n, 3) * ByteValues + ByteAt(n, 2) = ByteAt(n, 2)
    <3>1. ByteAt(n, 2) \in Nat
      <4>1. Shifted(n, 2) \in Nat  BY Digits DEF Shifted
      <4> QED  BY <4>1, Digits DEF ByteAt
    <3>2. ByteAt(n, 3) = 0 /\ 0 * ByteValues = 0  BY <1>1, <1>4, MoreBytes
    <3> QED  BY <3>1, <3>2
  <2>2. (ByteAt(n, 2) * ByteValues + ByteAt(n, 1)) * ByteValues + ByteAt(n, 0) = n
    BY <1>4, MoreBytes
  <2> QED  BY <1>4, <2>1, <2>2 DEF Number
<1>5. Number(bytes, 0, 4) = last
  BY <1>1, <1>2, <1>4
<1>6. Number(bytes, 4, 4) = SD_SECTOR_BYTES
  BY <1>3, <1>4, Capacity
<1>7. Facts(r, bytes) \subseteq {<<"blocks", MaxBlock>>, <<"size", SD_SECTOR_BYTES>>}
  BY <1>1, <1>5, <1>6 DEF Facts, Learns
<1> QED  BY <1>7 DEF TrueFacts

LEMMA SenseFacts ==
  ASSUME NEW r, NEW bytes, NEW top \in Nat, r.scsi = "MODE_SENSE", r.page \in {3, 4}, top >= 11,
         bytes = [k \in 0..top |-> ModeByte(r.page, k)]
  PROVE  Facts(r, bytes) \subseteq TrueFacts
<1>1. DOMAIN bytes = 0..top  OBVIOUS
<1>2. /\ MaxBlock \in Nat /\ MaxBlock < ThreeBytes /\ DescribedBlocks = MaxBlock
      /\ SD_SECTOR_BYTES \in Nat /\ SD_SECTOR_BYTES < ByteValues * ByteValues
      /\ SD_TRACK_SECTORS \in Nat /\ SD_TRACK_SECTORS < ByteValues * ByteValues
      /\ SD_HEADS \in Nat /\ SD_HEADS < ByteValues /\ SD_CYLS \in Nat /\ SD_CYLS < ThreeBytes
      /\ ByteValues \in Nat \ {0} /\ ThreeBytes \in Nat
  BY Capacity, GeometryAssumption DEF DescribedBlocks, ThreeBytes
<1>3. SD_HEADS < ByteValues * ByteValues
  <2>1. ByteValues <= ByteValues * ByteValues /\ ByteValues * ByteValues \in Nat  BY <1>2
  <2> QED  BY <1>2, <2>1
<1>4. Learns(bytes, "blocks", 4, 3) \subseteq {<<"blocks", MaxBlock>>}
  <2>1. bytes[4] = ByteAt(MaxBlock, 2) /\ bytes[5] = ByteAt(MaxBlock, 1) /\ bytes[6] = ByteAt(MaxBlock, 0)
    BY <1>2 DEF ModeByte, ModeHeaderByte
  <2>2. Number(bytes, 4, 3) = MaxBlock  BY <1>2, <2>1, MoreBytes DEF Number
  <2> QED  BY <2>2 DEF Learns
<1>5. Learns(bytes, "size", 10, 2) \subseteq {<<"size", SD_SECTOR_BYTES>>}
  <2>1. bytes[10] = ByteAt(SD_SECTOR_BYTES, 1) /\ bytes[11] = ByteAt(SD_SECTOR_BYTES, 0)
    BY DEF ModeByte, ModeHeaderByte
  <2>2. Number(bytes, 10, 2) = SD_SECTOR_BYTES  BY <1>2, <2>1, TwoBytes DEF Number
  <2> QED  BY <2>2 DEF Learns
<1>6. CASE r.page = 3
  <2>1. Learns(bytes, "heads", 14, 2) \subseteq {<<"heads", SD_HEADS>>}
    <3>1. CASE 15 \in 0..top
      <4>1. bytes[14] = ByteAt(SD_HEADS, 1) /\ bytes[15] = ByteAt(SD_HEADS, 0)
        BY <1>6, <3>1 DEF ModeByte, FormatPageByte
      <4>2. Number(bytes, 14, 2) = SD_HEADS  BY <1>2, <1>3, <4>1, TwoBytes DEF Number
      <4> QED  BY <4>2 DEF Learns
    <3>2. CASE 15 \notin 0..top  BY <1>1, <3>2 DEF Learns
    <3> QED  BY <3>1, <3>2
  <2>2. Learns(bytes, "sectors", 22, 2) \subseteq {<<"sectors", SD_TRACK_SECTORS>>}
    <3>1. CASE 23 \in 0..top
      <4>1. bytes[22] = ByteAt(SD_TRACK_SECTORS, 1) /\ bytes[23] = ByteAt(SD_TRACK_SECTORS, 0)
        BY <1>6, <3>1 DEF ModeByte, FormatPageByte
      <4>2. Number(bytes, 22, 2) = SD_TRACK_SECTORS  BY <1>2, <4>1, TwoBytes DEF Number
      <4> QED  BY <4>2 DEF Learns
    <3>2. CASE 23 \notin 0..top  BY <1>1, <3>2 DEF Learns
    <3> QED  BY <3>1, <3>2
  <2>3. Learns(bytes, "size", 24, 2) \subseteq {<<"size", SD_SECTOR_BYTES>>}
    <3>1. CASE 25 \in 0..top
      <4>1. bytes[24] = ByteAt(SD_SECTOR_BYTES, 1) /\ bytes[25] = ByteAt(SD_SECTOR_BYTES, 0)
        BY <1>6, <3>1 DEF ModeByte, FormatPageByte
      <4>2. Number(bytes, 24, 2) = SD_SECTOR_BYTES  BY <1>2, <4>1, TwoBytes DEF Number
      <4> QED  BY <4>2 DEF Learns
    <3>2. CASE 25 \notin 0..top  BY <1>1, <3>2 DEF Learns
    <3> QED  BY <3>1, <3>2
  <2>4. Facts(r, bytes) =
          Learns(bytes, "blocks", 4, 3) \cup Learns(bytes, "size", 10, 2)
          \cup (Learns(bytes, "heads", 14, 2) \cup Learns(bytes, "sectors", 22, 2)
                \cup Learns(bytes, "size", 24, 2))
    BY <1>6 DEF Facts
  <2> QED  BY <1>4, <1>5, <2>1, <2>2, <2>3, <2>4 DEF TrueFacts
<1>7. CASE r.page = 4
  <2>1. Learns(bytes, "cyls", 14, 3) \subseteq {<<"cyls", SD_CYLS>>}
    <3>1. CASE 16 \in 0..top
      <4>1. bytes[14] = ByteAt(SD_CYLS, 2) /\ bytes[15] = ByteAt(SD_CYLS, 1) /\ bytes[16] = ByteAt(SD_CYLS, 0)
        BY <1>7, <3>1 DEF ModeByte, GeometryPageByte
      <4>2. Number(bytes, 14, 3) = SD_CYLS  BY <1>2, <4>1, MoreBytes DEF Number
      <4> QED  BY <4>2 DEF Learns
    <3>2. CASE 16 \notin 0..top  BY <1>1, <3>2 DEF Learns
    <3> QED  BY <3>1, <3>2
  <2>2. Learns(bytes, "heads", 17, 1) \subseteq {<<"heads", SD_HEADS>>}
    <3>1. CASE 17 \in 0..top
      <4>1. bytes[17] = SD_HEADS  BY <1>7, <3>1 DEF ModeByte, GeometryPageByte
      <4> QED  BY <4>1 DEF Learns, Number
    <3>2. CASE 17 \notin 0..top  BY <1>1, <3>2 DEF Learns
    <3> QED  BY <3>1, <3>2
  <2>3. Facts(r, bytes) =
          Learns(bytes, "blocks", 4, 3) \cup Learns(bytes, "size", 10, 2)
          \cup (Learns(bytes, "cyls", 14, 3) \cup Learns(bytes, "heads", 17, 1))
    BY <1>7 DEF Facts
  <2> QED  BY <1>4, <1>5, <2>1, <2>2, <2>3 DEF TrueFacts
<1> QED  BY <1>6, <1>7

LEMMA InformTells ==
  ASSUME SDInv, ToldTrue, NEW r \in callers.requests, BeginIOInform(r)
  PROVE  ToldTrue'
<1> DEFINE answer == Inform(r)
<1>1. told' = told \cup (IF answer.error = "OK" THEN Facts(r, answer.bytes) ELSE {}) /\ IsScsi(r)
  BY DEF BeginIOInform
<1>2. ASSUME answer.error = "OK"  PROVE Facts(r, answer.bytes) \subseteq TrueFacts
  <2>1. CASE r.scsi = "READ_CAPACITY"
    <3>1. answer.bytes = [k \in 0..7 |-> CapacityByte(k)]  BY <1>2, <2>1 DEF Inform
    <3> QED  BY <2>1, <3>1, CapacityFacts
  <2>2. CASE r.scsi = "MODE_SENSE"
    <3>1. r.length \in Nat /\ callers \in Callers
      BY <1>1, <2>2, GeometryAssumption DEF SDInv, Serving
    <3> DEFINE top == (IF r.length > 12 THEN r.length ELSE 12) - 1
    <3>2. r.page \in {3, 4} /\ answer.bytes = [k \in 0..top |-> ModeByte(r.page, k)]
      BY <1>2, <2>2 DEF Inform
    <3>3. top \in Nat /\ top >= 11  BY <3>1
    <3> HIDE DEF top, answer
    <3> QED  BY <2>2, <3>2, <3>3, SenseFacts
  <2>3. CASE r.scsi \notin {"READ_CAPACITY", "MODE_SENSE"}  BY <2>3 DEF Facts
  <2> QED  BY <2>1, <2>2, <2>3
<1> HIDE DEF answer
<1> QED  BY <1>1, <1>2 DEF ToldTrue

LEMMA ToldTrueStep ==
  ASSUME SDInv, ToldTrue, [Next]_vars
  PROVE  ToldTrue'
<1>1. ASSUME told' = told  PROVE ToldTrue'  BY <1>1 DEF ToldTrue
<1>2. CASE Serve
  <2>1. CASE \E r \in callers.requests : BeginIOInform(r)  BY <2>1, InformTells
  <2>2. CASE \E r \in callers.requests : BeginIORefused(r) \/ BeginIOStatus(r) \/ BeginIOTransfer(r)
    BY <1>1, <2>2 DEF BeginIORefused, BeginIOStatus, BeginIOTransfer, historyVars
  <2>3. CASE AbortIO \/ (\E n \in 0..1 : Open(n))  BY <1>1, <2>3 DEF AbortIO, Open, historyVars
  <2> QED  BY <1>2, <2>1, <2>2, <2>3 DEF Serve
<1>3. CASE Finish  BY <1>1, <1>3 DEF Finish, Retry, EndTransfer, historyVars
<1>4. CASE Drive \/ Control \/ CardChange  BY <1>1, <1>4 DEF Drive, Control, CardChange, historyVars
<1>5. CASE UNCHANGED vars  BY <1>1, <1>5 DEF vars, historyVars
<1> QED  BY <1>2, <1>3, <1>4, <1>5 DEF Next

-----------------------------------------------------------------------------
(* The theorems.                                                           *)

THEOREM SDInvariant == Spec => []SDInv
<1> QED  BY InitInv, NextInv, PTL DEF Spec

(* Every register, counter and phase of the driver, the controller and the *)
(* memory card keeps to its range.                                         *)
THEOREM SDTypeCorrect == Spec => []TypeOK
<1>1. SDInv => TypeOK  BY DEF SDInv
<1> QED  BY <1>1, SDInvariant, PTL

(* A read that is reported done has stored in the caller's memory what the *)
(* card holds, for every block size, every count of problems that does not *)
(* divide the bytes of a block, and any faults of the card: sdcmd_read_    *)
(* blocks never takes a timeout or a reset for data.                       *)
THEOREM ReadAlwaysRight == Spec => []ReadRight
<1>1. SDInv => ReadRight  BY DEF SDInv
<1> QED  BY <1>1, SDInvariant, PTL

(* The card only ever holds whole blocks that a caller meant for their     *)
(* address: sdcmd_write_blocks never shifts, mixes or misplaces one.       *)
THEOREM NothingForeignWritten == Spec => []NoForeignWrite
<1>1. SDInv => NoForeignWrite  BY DEF SDInv
<1> QED  BY <1>1, SDInvariant, PTL

(* A write that was reported done is on the card, dropped by the card, or  *)
(* in the controller's buffer: no reset of the driver drops it.            *)
THEOREM WritesAlwaysStored == Spec => []WrittenIsStored
<1>1. SDInv => WrittenIsStored
  <2> SUFFICES ASSUME SDInv, NEW b \in Blocks, acked[b] # Unknown
               PROVE  cells[b] = acked[b] \/ b \in lost \/ OnItsWay(b)
    BY DEF WrittenIsStored
  <2>1. Safe(b, acked[b])  BY DEF SDInv, WrittenSafe
  <2>2. Full => op = "write"  BY DEF SDInv, Phased, Full
  <2> QED  BY <2>1, <2>2 DEF Safe, Full, DataIn, OnItsWay
<1> QED  BY <1>1, SDInvariant, PTL

(* READ CAPACITY and the two pages of MODE SENSE tell one capacity and one *)
(* block size, for every geometry that fits their fields: no byte of the   *)
(* replies is out of its place, whatever order the questions come in.      *)
THEOREM GeometryAlwaysAgrees == Spec => []GeometryAgrees
<1>1. Init => ToldTrue  BY DEF Init, ToldTrue
<1>2. SDInv /\ ToldTrue /\ [Next]_vars => ToldTrue'  BY ToldTrueStep
<1>3. ToldTrue => GeometryAgrees
  <2> SUFFICES ASSUME ToldTrue, NEW f \in told, NEW c \in told, NEW h \in told, NEW s \in told
               PROVE  /\ f[1] = "blocks" /\ c[1] = "cyls" /\ h[1] = "heads" /\ s[1] = "sectors"
                           => f[2] = c[2] * h[2] * s[2]
                      /\ f[1] = "size" => f[2] = SD_SECTOR_BYTES
    BY DEF GeometryAgrees
  <2>1. f \in TrueFacts /\ c \in TrueFacts /\ h \in TrueFacts /\ s \in TrueFacts  BY DEF ToldTrue
  <2>2. f[1] = "size" => f[2] = SD_SECTOR_BYTES  BY <2>1 DEF TrueFacts
  <2>3. /\ f[1] = "blocks" => f[2] = MaxBlock
        /\ c[1] = "cyls" => c[2] = SD_CYLS
        /\ h[1] = "heads" => h[2] = SD_HEADS
        /\ s[1] = "sectors" => s[2] = SD_TRACK_SECTORS
    BY <2>1 DEF TrueFacts
  <2> QED  BY <2>2, <2>3 DEF MaxBlock
<1> QED  BY <1>1, <1>2, <1>3, SDInvariant, PTL DEF Spec

=============================================================================
