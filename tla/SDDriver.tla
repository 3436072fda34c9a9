------------------------------ MODULE SDDriver ------------------------------
(***************************************************************************)
(* sdcmd_read_blocks and sdcmd_write_blocks (mntsd_cmd.c): the caller's    *)
(* task polls the controller's registers, moves every byte by the double   *)
(* handshake and gives up on a poll after LOOP_TIMEOUT turns.  What the    *)
(* task writes between two polls is one step.                              *)
(***************************************************************************)
EXTENDS SDController

CONSTANTS
  ProblemValues   \* values of the uint8 that counts the problems of a block

ASSUME DriverAssumption ==
  /\ ProblemValues \in Nat \ {0}
  \* as 514 and 515 are no multiples of 256: a silent card is noticed
  /\ TotalBytes % ProblemValues # 0 /\ (TotalBytes + 1) % ProblemValues # 0

VARIABLES
  pc,        \* the loop the task is in
  job,       \* the arguments: op, block, len and the caller's memory
  i,         \* the block it has reached
  x,         \* the byte of that block
  problems,  \* polls given up
  got,       \* the bytes of that block read so far
  result     \* what the function returned

driverVars == <<pc, job, i, x, problems, got, result>>

PollLoops == {"idle", "busy", "start", "byte", "ack", "return"}

Problem == (problems + 1) % ProblemValues
GivesUp == ~Prompt

Addressed_NoMask(r, b) == [r EXCEPT !.addr_hi = b \div LoSize, !.addr_lo = b]
Addressed(r, b) == [r EXCEPT !.addr_hi = b \div LoSize, !.addr_lo = b % LoSize]
Quiet(r) == [r EXCEPT !.read = FALSE, !.write = FALSE, !.handshake = FALSE]

(* sd_reset: all registers low, then a pulse on the reset. *)
ClearedRegs == Addressed(Quiet(reg), 0)

Return(code) == pc' = "return" /\ result' = code

(* Entry of both functions. *)
Call(j) ==
  /\ job' = j /\ reg' = Quiet(reg) /\ pc' = "busy"
  /\ i' = 0 /\ x' = 0 /\ problems' = 0 /\ got' = <<>> /\ result' = "none"

(* The top of the loop over the blocks: a read raises its command, a write *)
(* polls busy once more.  r are the registers as they are.                 *)
NextBlock(n, r) ==
  /\ i' = n /\ x' = 0 /\ got' = <<>>
  /\ IF n = job.len THEN Return("OK") /\ reg' = r
     ELSE /\ pc' = "start" /\ UNCHANGED result
          /\ reg' = IF job.op = "read"
                    THEN [Addressed(r, job.block + n) EXCEPT !.handshake = FALSE, !.read = TRUE]
                    ELSE r
-----------------------------------------------------------------------------
(* while (regs->busy), with a reset when it lasts too long. *)
BusyEnds ==
  /\ pc = "busy" /\ ~Busy
  /\ NextBlock(0, reg) /\ UNCHANGED <<job, problems, controllerVars, cardVars>>
BusyReset_AtOnce ==
  /\ pc = "busy" /\ Busy
  /\ NextBlock(0, ClearedRegs) /\ ResetController /\ UNCHANGED <<job, problems>>
BusyReset ==
  /\ pc = "busy" /\ Busy /\ GivesUp
  /\ NextBlock(0, ClearedRegs) /\ ResetController /\ UNCHANGED <<job, problems>>

(* A read waits for busy to rise; a timeout is a problem, no more. *)
ReadStarts ==
  /\ pc = "start" /\ job.op = "read" /\ (Busy \/ GivesUp)
  /\ pc' = "byte" /\ problems' = IF Busy THEN problems ELSE Problem
  /\ UNCHANGED <<job, i, x, got, result, reg, controllerVars, cardVars>>

(* A write waits for busy to fall, then raises its command. *)
WriteStarts ==
  /\ pc = "start" /\ job.op = "write" /\ (~Busy \/ GivesUp)
  /\ pc' = "byte" /\ problems' = IF ~Busy THEN problems ELSE Problem
  /\ reg' = [Addressed(reg, job.block + i) EXCEPT !.handshake = FALSE, !.write = TRUE]
  /\ UNCHANGED <<job, i, x, got, result, controllerVars, cardVars>>

MoveByte_Patient ==
  /\ pc = "byte" /\ hs
  /\ IF job.op = "read"
     THEN /\ reg' = [reg EXCEPT !.read = FALSE, !.handshake = TRUE]
          /\ got' = Append(got, dataOut)
     ELSE /\ reg' = [reg EXCEPT !.write = FALSE, !.handshake = TRUE,
                                !.data_in = ByteOf(job.data[i + 1], x + 1)]
          /\ UNCHANGED got
  /\ pc' = "ack"
  /\ UNCHANGED <<job, i, x, problems, result, controllerVars, cardVars>>
(* The controller's handshake is up, or the wait is given up: move a byte. *)
MoveByte ==
  /\ pc = "byte" /\ (hs \/ GivesUp)
  /\ problems' = IF hs THEN problems ELSE Problem
  /\ IF job.op = "read"
     THEN /\ reg' = [reg EXCEPT !.read = FALSE, !.handshake = TRUE]
          /\ got' = Append(got, dataOut)
     ELSE /\ reg' = [reg EXCEPT !.write = FALSE, !.handshake = TRUE,
                                !.data_in = ByteOf(job.data[i + 1], x + 1)]
          /\ UNCHANGED got
  /\ pc' = "ack"
  /\ UNCHANGED <<job, i, x, result, controllerVars, cardVars>>

(* The block read so far becomes the caller's, whatever becomes of it. *)
Kept == IF job.op = "read" THEN [job EXCEPT !.data[i + 1] = SubSeq(got, 1, DataBytes)] ELSE job
CrcRight_Never == TRUE
CrcRight ==
  LET data == SubSeq(got, 1, DataBytes)
  IN  \A half \in 1..CrcBytes : got[DataBytes + half] = CrcByte(data, half)

(* The handshake register goes low again.  data_in keeps its byte, but     *)
(* nobody looks at it before the handshake is raised with the next one.    *)
Lowered == [reg EXCEPT !.handshake = FALSE, !.data_in = Noise]

(* The controller has lowered its handshake, which it does at once. *)
ByteMoved ==
  /\ pc = "ack" /\ ~hs /\ x + 1 < TotalBytes
  /\ x' = x + 1 /\ pc' = "byte" /\ reg' = Lowered
  /\ UNCHANGED <<job, i, problems, got, result, controllerVars, cardVars>>
BlockMoved ==
  /\ pc = "ack" /\ ~hs /\ x + 1 = TotalBytes
  /\ LET failed == IF problems # 0 THEN "TIMEOUT"
                   ELSE IF job.op = "read" /\ ~CrcRight THEN "CRC" ELSE "OK"
     IN  IF failed = "OK" THEN NextBlock(i + 1, Lowered)
         ELSE Return(failed) /\ reg' = Lowered /\ UNCHANGED <<i, x, got>>
  /\ job' = Kept
  \* only a read counts the problems of each block anew
  /\ problems' = IF job.op = "read" /\ pc' = "start" THEN 0 ELSE problems
  /\ UNCHANGED <<controllerVars, cardVars>>

DriverStep == BusyEnds \/ BusyReset \/ ReadStarts \/ WriteStarts \/ MoveByte \/ ByteMoved \/ BlockMoved

NoJob == [op |-> "read", block |-> 0, len |-> 0, data |-> <<>>]
DriverInit ==
  /\ pc = "idle" /\ job = NoJob /\ i = 0 /\ x = 0 /\ problems = 0
  /\ got = <<>> /\ result = "none"
=============================================================================
