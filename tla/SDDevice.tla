------------------------------ MODULE SDDevice ------------------------------
(***************************************************************************)
(* mntsd.device (mntsd_device.c).  BeginIO runs in the caller's task from  *)
(* the request to its reply: trackdisk commands and SCSI commands, of      *)
(* which reads and writes go through SDDriver.  A request is a record of   *)
(* the fields the device reads; its memory is named by a tag, the content  *)
(* a write hands over.                                                     *)
(***************************************************************************)
EXTENDS SDDriver

CONSTANTS
  Callers,                            \* what callers may send, and if they abort
  TagBlock(_, _),                     \* block n of the memory of a tag
  SD_RETRY,                           \* attempts of a write (10)
  SD_HEADS, SD_CYLS, SD_TRACK_SECTORS,
  ByteValues,                         \* values of a byte of a SCSI reply (256)
  MaxChanges                          \* bound: times a card is pulled out or put in

VARIABLES
  dev,        \* "idle", or "io" between BeginIO and its reply
  io,         \* the request that is being served
  ioError,    \* io_Error of the request, which callers use again and again
  ioActual,   \* io_Actual
  attempts,   \* retries left
  unit,       \* opened, and the motor as TD_MOTOR left it
  reply,      \* bytes a SCSI command has stored in the caller's memory
  acked,      \* history: the content whose write was last reported done
  told,       \* history: what SCSI replies have told of the card's geometry
  callers,    \* the callers of this behavior
  changes     \* times a card has been pulled out or put in

deviceVars == <<dev, io, ioError, ioActual, attempts, unit, reply>>
historyVars == <<acked, told>>
vars == <<sdVars, driverVars, deviceVars, historyVars, callers, changes>>

SD_SECTOR_BYTES == DataBytes
MaxBlock == SD_CYLS * SD_HEADS * SD_TRACK_SECTORS  \* maxblocks
Unknown == <<>>

TrackdiskReads == {"CMD_READ"}
TrackdiskWrites == {"CMD_WRITE", "TD_FORMAT"}
Nothing == {"CMD_CLEAR", "CMD_UPDATE", "TD_PROTSTATUS", "TD_REMOVE", "TD_CHANGESTATE"}
ChangeNum == 1        \* sdu_ChangeNum, counted once by SD_InitUnit
DirectAccess == 0     \* DG_DIRECT_ACCESS
ScsiSize == 30        \* sizeof(struct SCSICmd)

IsTrackdisk(r) == r.command \in TrackdiskReads \cup TrackdiskWrites
IsScsi(r) == r.command = "HD_SCSICMD"
ScsiMoves(r) == IsScsi(r) /\ r.scsi \in {"READ6", "WRITE6"}
Moves(r) == IsTrackdisk(r) \/ ScsiMoves(r)
Writes(r) == r.command \in TrackdiskWrites \/ (IsScsi(r) /\ r.scsi = "WRITE6")

(* The blocks of a request: offset and length in bytes, or block and count. *)
FirstBlock(r) == IF IsScsi(r) THEN r.block ELSE r.offset \div SD_SECTOR_BYTES
BlockCount(r) == IF IsScsi(r) THEN r.blocks ELSE r.length \div SD_SECTOR_BYTES
-----------------------------------------------------------------------------
(* Checks before the card is touched: SD_ReadWrite and READ(6), WRITE(6).  *)
(* SD_ReadWrite compares 32-bit sums with 0xffffffff, which refuses none.  *)
TrackdiskCheck(r) ==
  IF r.tag = "null" THEN "BADADDRESS"
  ELSE IF r.length < SD_SECTOR_BYTES THEN "BADLENGTH" ELSE "OK"
ScsiCheck(r) ==
  IF r.cmdlen < 6 THEN "BADLENGTH"
  ELSE IF r.block + r.blocks > MaxBlock THEN "BADADDRESS"
  ELSE IF r.length < r.blocks * SD_SECTOR_BYTES THEN "BADLENGTH"
  ELSE IF r.tag = "null" THEN "BADADDRESS" ELSE "OK"
Checked(r) == IF IsScsi(r) THEN ScsiCheck(r) ELSE TrackdiskCheck(r)

(* sderr as io_Error: SD_ReadWrite looks at its flags, a SCSI command has  *)
(* one answer for all.                                                     *)
ErrorOf(r, sderr) ==
  CASE sderr = "OK" -> "OK"
    [] sderr # "OK" /\ IsScsi(r) -> "BadStatus"
    [] sderr = "TIMEOUT" /\ ~IsScsi(r) -> "DiskChanged"
    [] sderr = "CRC" /\ ~IsScsi(r) -> "BadSecSum"

(* Byte k of n, counted from the least significant one. *)
Shifted(n, k) ==
  CASE k = 0 -> n
    [] k = 1 -> n \div ByteValues
    [] k = 2 -> (n \div ByteValues) \div ByteValues
    [] k = 3 -> ((n \div ByteValues) \div ByteValues) \div ByteValues
ByteAt(n, k) == Shifted(n, k) % ByteValues

(* INQUIRY stores as many bytes as the caller has room for. *)
InquiryByte(k) ==
  CASE k = 0 -> 0                        \* direct-access device
    [] k = 1 -> 128                      \* removable
    [] k = 3 -> 2                        \* response data format
    [] k = 4 -> 44 - 4                   \* additional length
    [] k \in 8..15 -> <<"vendor", k - 8>>
    [] k \in 16..31 -> <<"product", k - 16>>
    [] k \in 32..35 -> <<"revision", k - 32>>
    [] k \in 36..43 -> <<"1", 0>>
    [] OTHER -> 0

CapacityByte_Count(k) == IF k < 4 THEN ByteAt(MaxBlock, 3 - k) ELSE ByteAt(SD_SECTOR_BYTES, 7 - k)
CapacityByte(k) == IF k < 4 THEN ByteAt(MaxBlock - 1, 3 - k) ELSE ByteAt(SD_SECTOR_BYTES, 7 - k)

(* MODE SENSE: header, block descriptor, then a page.  The descriptor has  *)
(* three bytes for the blocks, and says so many if there are more.         *)
PageLength == 22
ThreeBytes == ByteValues * ByteValues * ByteValues
DescribedBlocks == IF MaxBlock > ThreeBytes THEN ThreeBytes - 1 ELSE MaxBlock
ModeHeaderByte(k) ==
  CASE k = 0 -> 3 + 8 + PageLength
    [] k = 3 -> 8
    [] k \in 4..6 -> ByteAt(DescribedBlocks, 6 - k)
    [] k \in 10..11 -> ByteAt(SD_SECTOR_BYTES, 11 - k)
    [] OTHER -> 0
FormatPageByte(k) ==
  CASE k = 0 -> 3
    [] k = 1 -> PageLength
    [] k \in 2..3 -> ByteAt(SD_HEADS, 3 - k)
    [] k \in 10..11 -> ByteAt(SD_TRACK_SECTORS, 11 - k)
    [] k \in 12..13 -> ByteAt(SD_SECTOR_BYTES, 13 - k)
    [] k = 20 -> 96                      \* hard sectors, removable
    [] OTHER -> 0
GeometryPageByte(k) ==
  CASE k = 0 -> 4
    [] k = 1 -> PageLength
    [] k \in 2..4 -> ByteAt(SD_CYLS, 4 - k)
    [] k = 5 -> SD_HEADS
    [] OTHER -> 0
ModeByte(page, k) ==
  IF k < 12 THEN ModeHeaderByte(k)
  ELSE IF page = 3 THEN FormatPageByte(k - 12) ELSE GeometryPageByte(k - 12)

(* The number that n bytes of a reply make, as a caller decodes it. *)
Number(bytes, from, n) ==
  LET two == bytes[from] * ByteValues + bytes[from + 1]
      three == two * ByteValues + bytes[from + 2]
  IN  CASE n = 1 -> bytes[from]
        [] n = 2 -> two
        [] n = 3 -> three
        [] n = 4 -> three * ByteValues + bytes[from + 3]

(* What a caller learns of the card from a reply, as far as it is there.   *)
Learns(bytes, fact, from, n) ==
  IF from + n - 1 \in DOMAIN bytes THEN {<<fact, Number(bytes, from, n)>>} ELSE {}
Facts(r, bytes) ==
  CASE r.scsi = "READ_CAPACITY" ->
         {<<"blocks", Number(bytes, 0, 4) + 1>>} \cup Learns(bytes, "size", 4, 4)
    [] r.scsi = "MODE_SENSE" ->
         Learns(bytes, "blocks", 4, 3) \cup Learns(bytes, "size", 10, 2)
         \cup (IF r.page = 3
               THEN Learns(bytes, "heads", 14, 2) \cup Learns(bytes, "sectors", 22, 2)
                    \cup Learns(bytes, "size", 24, 2)
               ELSE Learns(bytes, "cyls", 14, 3) \cup Learns(bytes, "heads", 17, 1))
    [] OTHER -> {}

(* SD_PerformSCSI without card traffic: what is stored, from byte 0, and   *)
(* how it ends.  A page that is not known has the header stored already.   *)
Inform(r) ==
  LET known == r.page \in {3, 4}
  IN  CASE r.scsi = "TEST_UNIT_READY" -> [error |-> "OK", bytes |-> <<>>]
        [] r.scsi = "INQUIRY" ->
             [error |-> "OK", bytes |-> [k \in 0..r.length - 1 |-> InquiryByte(k)]]
        [] r.scsi = "READ_CAPACITY" ->
             IF r.cmdlen < 10 \/ r.block # 0 THEN [error |-> "BadStatus", bytes |-> <<>>]
             ELSE IF r.length < 8 THEN [error |-> "BADLENGTH", bytes |-> <<>>]
             ELSE [error |-> "OK", bytes |-> [k \in 0..7 |-> CapacityByte(k)]]
        [] r.scsi = "MODE_SENSE" ->
             [error |-> IF known THEN "OK" ELSE "BadStatus",
              bytes |-> [k \in 0..(IF known /\ r.length > 12 THEN r.length ELSE 12) - 1 |-> ModeByte(r.page, k)]]
        [] OTHER -> [error |-> "NOCMD", bytes |-> <<>>]
-----------------------------------------------------------------------------
Reply(error, actual) ==
  /\ dev' = "idle" /\ ioError' = error /\ ioActual' = actual

Refuses(r) ==
  \/ ioError = "ABORTED"
  \/ Moves(r) /\ Checked(r) # "OK"
  \/ IsScsi(r) /\ r.cmdlen < 6

(* A new request, in a structure that keeps io_Error from its last use. *)
NoRequest == [command |-> "none"]
Sent(r) == dev = "idle" /\ io' = IF Moves(r) /\ ~Refuses(r) THEN r ELSE io

(* Requests that end at once: refused ones, and those that need no card.   *)
(* Which refusals clear io_Actual differs from check to check.             *)
ClearsActual(r) ==
  \/ IsTrackdisk(r) /\ Checked(r) = "BADLENGTH"
  \/ IsScsi(r) /\ r.cmdlen >= 6
BeginIORefused(r) ==
  /\ Sent(r) /\ Refuses(r) /\ reply' = <<>>
  /\ IF ioError = "ABORTED" THEN Reply("ABORTED", ioActual)
     ELSE Reply(Checked(r), IF ClearsActual(r) THEN 0 ELSE ioActual)
  /\ UNCHANGED <<unit, attempts, sdVars, driverVars, historyVars>>
BeginIOStatus(r) ==
  /\ Sent(r) /\ ~Refuses(r) /\ ~Moves(r) /\ ~IsScsi(r) /\ reply' = <<>>
  /\ CASE r.command \in Nothing -> Reply("OK", 0)
       [] r.command = "TD_CHANGENUM" -> Reply("OK", ChangeNum)
       [] r.command = "TD_GETDRIVETYPE" -> Reply("OK", DirectAccess)
       [] r.command = "TD_MOTOR" -> Reply("OK", unit.motor)
       [] OTHER -> Reply("NOCMD", ioActual)
  /\ unit' = IF r.command = "TD_MOTOR" THEN [unit EXCEPT !.motor = IF r.length = 0 THEN 0 ELSE 1]
             ELSE unit
  /\ UNCHANGED <<attempts, sdVars, driverVars, historyVars>>
BeginIOInform(r) ==
  /\ Sent(r) /\ ~Refuses(r) /\ ~Moves(r) /\ IsScsi(r)
  /\ LET answer == Inform(r)
     IN  /\ reply' = answer.bytes
         /\ Reply(answer.error, IF answer.error = "OK" THEN ScsiSize ELSE 0)
         /\ told' = told \cup (IF answer.error = "OK" THEN Facts(r, answer.bytes) ELSE {})
  /\ UNCHANGED <<unit, attempts, sdVars, driverVars, acked>>

JobOf(r) ==
  [op |-> IF Writes(r) THEN "write" ELSE "read", block |-> FirstBlock(r), len |-> BlockCount(r),
   data |-> [n \in 1..BlockCount(r) |-> TagBlock(r.tag, n)]]
BlocksOf(r) == FirstBlock(r)..(FirstBlock(r) + BlockCount(r) - 1)

(* What a block can hold: what it held at first, or what a caller writes.   *)
Contents ==
  {OldCells[b] : b \in Blocks} \cup
  UNION {UNION {{TagBlock(r.tag, n) : n \in 1..BlockCount(r)} :
                  r \in {q \in c.requests : Moves(q) /\ Writes(q)}} : c \in Callers}
DataByte == UNION {{c[k] : k \in 1..DataBytes} : c \in Contents}
Wire == {Noise} \cup DataByte \cup {CrcByte(c, half) : c \in Contents, half \in 1..CrcBytes}

ASSUME CallersAssumption ==
  /\ SD_RETRY \in Nat \ {0}
  /\ \A c \in Callers : \A r \in c.requests : Moves(r) => FirstBlock(r) \in Nat /\ BlockCount(r) \in Nat
(* The geometry fits the fields of the replies that tell of it, and lengths *)
(* are naturals; one below 12 would wrap, and no caller gives MODE SENSE so *)
(* little room.                                                             *)
ASSUME GeometryAssumption ==
  /\ ByteValues \in Nat \ {0, 1}
  /\ SD_HEADS \in 1..ByteValues - 1
  /\ SD_TRACK_SECTORS \in 1..ByteValues * ByteValues - 1
  /\ SD_SECTOR_BYTES \in 1..ByteValues * ByteValues - 1
  /\ SD_CYLS \in 1..ThreeBytes - 1 /\ MaxBlock < ThreeBytes
  /\ \A c \in Callers : \A r \in c.requests :
       IsScsi(r) /\ r.scsi \in {"READ_CAPACITY", "MODE_SENSE"} =>
         r.length \in Nat /\ (r.scsi = "MODE_SENSE" => r.length >= 12)
ASSUME ContentsAssumption ==
  /\ OldCells = [b \in Blocks |-> OldCells[b]]
  /\ \A c \in Contents : c = [k \in 1..DataBytes |-> c[k]] /\ c # Unknown
(* A CRC is never mistaken for a byte of data, whatever it was made of.     *)
ASSUME CrcAssumption ==
  \A data \in [1..DataBytes -> Wire], half \in 1..CrcBytes :
    CrcByte(data, half) \notin DataByte \cup {Noise}

(* A read or write: into sdcmd_read_blocks or sdcmd_write_blocks. *)
BeginIOTransfer(r) ==
  /\ Sent(r) /\ ~Refuses(r) /\ Moves(r) /\ reply' = <<>>
  /\ dev' = "io" /\ Call(JobOf(r))
  /\ attempts' = IF r.command \in TrackdiskWrites THEN SD_RETRY ELSE 1
  /\ acked' = [b \in Addresses |-> IF Writes(r) /\ b \in BlocksOf(r) THEN Unknown ELSE acked[b]]
  /\ UNCHANGED <<ioError, ioActual, unit, told, controllerVars, cardVars>>

(* A trackdisk write that failed is tried again after a reset. *)
Retry ==
  /\ pc = "return" /\ result # "OK" /\ io.command \in TrackdiskWrites /\ attempts > 1
  /\ attempts' = attempts - 1 /\ ResetController
  /\ reg' = Quiet(ClearedRegs) /\ pc' = "busy"
  /\ i' = 0 /\ x' = 0 /\ problems' = 0 /\ got' = <<>> /\ result' = "none"
  /\ UNCHANGED <<job, dev, io, ioError, ioActual, unit, reply, historyVars>>

(* The reply.  The last failure of a trackdisk write resets once more. *)
EndTransfer ==
  /\ pc = "return" /\ ~(result # "OK" /\ io.command \in TrackdiskWrites /\ attempts > 1)
  /\ IF result # "OK" /\ io.command \in TrackdiskWrites
     THEN ResetController /\ reg' = ClearedRegs
     ELSE UNCHANGED <<reg, controllerVars, cardVars>>
  /\ Reply(ErrorOf(io, result),
           IF result # "OK" THEN 0 ELSE IF IsScsi(io) THEN ScsiSize ELSE io.length)
  /\ acked' = [b \in Addresses |->
       IF result = "OK" /\ Writes(io) /\ b \in BlocksOf(io)
       THEN job.data[b - FirstBlock(io) + 1] ELSE acked[b]]
  /\ pc' = "idle" /\ attempts' = 0 /\ i' = 0 /\ x' = 0 /\ problems' = 0 /\ got' = <<>>
  \* of the caller's memory only what a read has filled is looked at again
  /\ job' = IF result = "OK" /\ ~Writes(io) THEN job ELSE NoJob
  /\ io' = NoRequest /\ UNCHANGED <<result, unit, reply, told>>

(* AbortIO only marks the request, OpenDevice clears the mark. *)
AbortIO ==
  /\ ioError' = "ABORTED"
  /\ UNCHANGED <<sdVars, driverVars, dev, io, ioActual, attempts, unit, reply, historyVars>>
Open(n) ==
  /\ dev = "idle"
  /\ ioError' = IF n = 0 THEN "OK" ELSE "OPENFAIL"
  /\ unit' = IF n = 0 THEN [unit EXCEPT !.open = TRUE] ELSE unit
  /\ UNCHANGED <<sdVars, driverVars, dev, io, ioActual, attempts, reply, historyVars>>

CardChange ==
  /\ changes < MaxChanges /\ changes' = changes + 1
  /\ Remove \/ Insert
  /\ UNCHANGED <<driverVars, deviceVars, historyVars, callers>>

Finish == (Retry \/ EndTransfer) /\ UNCHANGED <<callers, changes>>
Serve ==
  /\ UNCHANGED <<callers, changes>>
  /\ \/ \E r \in callers.requests : BeginIORefused(r) \/ BeginIOStatus(r) \/ BeginIOInform(r) \/ BeginIOTransfer(r)
     \/ callers.abort /\ AbortIO
     \/ callers.abort /\ \E n \in 0..1 : Open(n)
Drive == DriverStep /\ UNCHANGED <<deviceVars, historyVars, callers, changes>>
Control == ControllerStep /\ UNCHANGED <<driverVars, deviceVars, historyVars, callers, changes>>
Next == Serve \/ Finish \/ Drive \/ Control \/ CardChange

(* __UserDevInit resets the controller and opens unit 0 for nobody. *)
Init ==
  /\ SDInit /\ DriverInit /\ changes = 0 /\ callers \in Callers
  /\ dev = "idle" /\ io = NoRequest /\ ioError = "OK" /\ ioActual = 0 /\ attempts = 0
  /\ unit = [open |-> FALSE, motor |-> 0] /\ reply = <<>>
  /\ acked = [b \in Addresses |-> Unknown] /\ told = {}

Spec == Init /\ [][Next]_vars
(* The controller makes the steps that wait for nobody, and the task runs: *)
(* the timer of a poll counts all its turns, also those at which the       *)
(* controller was about to move, so that giving up takes strong fairness.  *)
FairSpec ==
  /\ Spec
  /\ SF_vars(Drive) /\ WF_vars(Finish)
  /\ WF_vars(Prompt /\ Control)
-----------------------------------------------------------------------------
(* Types of everything but the bytes themselves. *)
TypeOK ==
  /\ phase \in Phases /\ hs \in BOOLEAN /\ op \in {"read", "write"} /\ addr \in Nat
  /\ cnt \in 0..TotalBytes /\ card \in {"out", "idle", "ready"}
  /\ lost \subseteq Addresses
  /\ reg.read \in BOOLEAN /\ reg.write \in BOOLEAN /\ reg.handshake \in BOOLEAN
  /\ reg.addr_hi \in Nat /\ reg.addr_lo \in 0..LoSize - 1
  /\ pc \in PollLoops /\ x \in 0..TotalBytes - 1 /\ problems \in 0..ProblemValues - 1
  /\ result \in {"none", "OK", "TIMEOUT", "CRC"}
  /\ dev \in {"idle", "io"} /\ attempts \in 0..SD_RETRY
  /\ pc = "idle" <=> dev = "idle"

(* A read that is reported done has stored what the card holds in the      *)
(* caller's memory: timeouts, a reset in mid-block, a card pulled out and  *)
(* the counter of problems going round do not pass for data.               *)
ReadRight ==
  dev = "idle" /\ result = "OK" /\ job.op = "read" =>
    \A n \in 1..job.len : /\ job.block + n - 1 \in Blocks
                          /\ job.data[n] = cells[job.block + n - 1]

(* What a caller of this behavior may write to block b. *)
Meant(b) ==
  {JobOf(r).data[b - FirstBlock(r) + 1] :
     r \in {q \in callers.requests : Moves(q) /\ Writes(q) /\ b \in BlocksOf(q)}}
(* A block of the card holds its old content or one that was meant for it: *)
(* never half a block, a shifted one, one of another address.              *)
NoForeignWrite == \A b \in Blocks : cells[b] \in {OldCells[b]} \cup Meant(b)

(* A write that is reported done is on the card or on its way there, unless *)
(* the card itself has dropped it: the driver's resets lose none.           *)
OnItsWay(b) ==
  /\ op = "write" /\ addr = b /\ phase \in {"wr", "prog"} /\ cnt = TotalBytes
  /\ SubSeq(buf, 1, DataBytes) = acked[b]
WrittenIsStored ==
  \A b \in Blocks : acked[b] # Unknown => cells[b] = acked[b] \/ b \in lost \/ OnItsWay(b)

(* "You can't ignore any errors that occur" (the header of SDCard.vhd):     *)
(* once the controller waits for the next command, a write that was         *)
(* reported done is no block that the memory card rejected.                 *)
ErrorsNotIgnored == phase = "wait" => \A b \in Blocks : acked[b] # Unknown => b \notin lost

(* Every request ends, whatever the controller and the card do: all polls  *)
(* are bounded, and so are the attempts.                                   *)
RequestEnds == dev = "io" ~> dev = "idle"

(* What a caller works out from the replies agrees: the last block of READ *)
(* CAPACITY, the block count of the block descriptor and the product of    *)
(* the geometry on mode pages 3 and 4 are one capacity, in one block size. *)
GeometryAgrees ==
  \A f \in told, c \in told, h \in told, s \in told :
    /\ f[1] = "blocks" /\ c[1] = "cyls" /\ h[1] = "heads" /\ s[1] = "sectors"
         => f[2] = c[2] * h[2] * s[2]
    /\ f[1] = "size" => f[2] = SD_SECTOR_BYTES
=============================================================================
