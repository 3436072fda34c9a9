----------------------------- MODULE RamArbiter -----------------------------
(***************************************************************************)
(* The RAM arbiter of va2000.v: the state machine that shares the single   *)
(* port of the SDRAM controller between the line fetch of the display, the *)
(* host's reads and writes, the blitter (fill and copy), the video capture *)
(* and the refresh.  It runs on the clock of the controller and drives the *)
(* controller through the registers ram_*.                                 *)
(*                                                                         *)
(* An action here is one rising edge seen by the arbiter.  The registers   *)
(* it shares with the Zorro machine (the request flags, read_done,         *)
(* blitter_enable) are assigned in the same always block after that        *)
(* machine, so the arbiter's value wins: Clears..., ReadAnswered and         *)
(* BlitterNext say what the arbiter assigns, ZorroBus resolves the two.    *)
(***************************************************************************)
EXTENDS SDRAMController

CONSTANTS
  FETCHW,              \* words of a displayed line, 512
  margin_x,            \* register 'h0c
  refresh_max,         \* idle cycles between two refresh reads
  refresh_warm_max, refresh_cool_max,
  BLITTER_COPY_SIZE,   \* words the copy buffer holds, 16
  CaptureBase, CapturePitch, CaptureWidth, CaptureHeight,
  CaptureWords         \* the two words the capture line buffers hold

ASSUME SizesAssumption ==
  /\ {FETCHW, BLITTER_COPY_SIZE, CaptureBase, CapturePitch, CaptureHeight} \subseteq Nat
  /\ CaptureHeight > 0
  /\ CaptureWords \in Words \X Words
\* fetch_x, of 12 bits, counts two words past the line.
ASSUME CountersAssumption ==
  /\ {margin_x, CaptureWidth, refresh_warm_max, refresh_cool_max} \subseteq Nat
  /\ FETCHW + 1 < 4096

\* What the registers of the blitter hold.
BlitRecords ==
  [x1 : Int, x2 : Int, x3 : Int, x4 : Int, y1 : Int, y2 : Int, y3 : Int, y4 : Int,
   curx : Int, cury : Int, curx2 : Int, cury2 : Int, dirx : BOOLEAN, diry : BOOLEAN,
   ptr : Int, ptr2 : Int, base : Int, base2 : Int, pitch : Int, colormode : Int,
   rgb : Words, rgb32 : [{0, 1} -> Words], t : {0, 1}]

VARIABLES
  arb,                                           \* ram_arbiter_state
  ram_enable, ram_write, ram_byte_enable, ram_addr,
  ram_data_in, ram_data_in_next, ram_burst_size, \* the port
  row_fetched, fetch_line_y, fetch_x, fetch_y, fetch_buffer,
  refresh,                                       \* counters and address
  blitter_enable, blit, copy,
  cap,                                           \* videocap_save_*, line_saved*
  zorro_ram_write_request, zorro_ram_write,      \* flag; address, bytes, data
  zorro_ram_read_request, zorro_ram_read_addr,
  zorro_ram_read_data, zorro_ram_read_done,
  need_row_fetch_y, x_safe_area,                 \* from the scanout
  pan_ptr, videocap_mode, videocap_y3            \* registers and capture line

portVars    == <<ram_enable, ram_write, ram_byte_enable, ram_addr, ram_data_in,
                 ram_data_in_next, ram_burst_size>>
fetchVars   == <<row_fetched, fetch_line_y, fetch_x, fetch_y, fetch_buffer>>
requestVars == <<zorro_ram_write_request, zorro_ram_write,
                 zorro_ram_read_request, zorro_ram_read_addr,
                 zorro_ram_read_data, zorro_ram_read_done>>
inputVars   == <<need_row_fetch_y, x_safe_area, pan_ptr, videocap_mode, videocap_y3>>

-----------------------------------------------------------------------------
(* Addresses are numbers of words; the controller splits them.             *)

NCols == LastCol + 1
Size  == NBanks * NRows * NCols
Addr(a) == a % Size
CellAt(a) == <<Addr(a) \div (NRows * NCols), (Addr(a) \div NCols) % NRows, a % NCols>>

\* What the controller sees of the arbiter's registers.
Port(reset) ==
  LET c == CellAt(ram_addr) IN
  [reset |-> reset, enable |-> ram_enable, wr |-> ram_write,
   bank |-> c[1], row |-> c[2], col |-> c[3], lanes |-> ram_byte_enable,
   data |-> ram_data_in, next |-> ram_data_in_next, burst |-> ram_burst_size]

cmd_ready   == ready_for_new
sdram_idle  == state = "idle"

\* Mutant: a counter too narrow to hold FETCHW.
Unsigned_Narrow(x) == x % FETCHW

\* A 12 bit register compared as unsigned.
Unsigned(x) == x % 4096

SetPort(enable, wr, addr, data, next, bytes, burst) ==
  /\ ram_enable' = enable
  /\ ram_write' = wr
  /\ ram_addr' = addr
  /\ ram_data_in' = data
  /\ ram_data_in_next' = next
  /\ ram_byte_enable' = bytes
  /\ ram_burst_size' = burst

\* cmd_enable alone is assigned.
Enable(e) ==
  SetPort(e, ram_write, ram_addr, ram_data_in, ram_data_in_next, ram_byte_enable, ram_burst_size)
EnableBurst(e, burst) ==
  SetPort(e, ram_write, ram_addr, ram_data_in, ram_data_in_next, ram_byte_enable, burst)
ReadAt(addr, bytes) ==
  SetPort(TRUE, FALSE, addr, ram_data_in, ram_data_in_next, bytes, ram_burst_size)
WriteAt(addr, word) ==
  SetPort(TRUE, TRUE, addr, word, ram_data_in_next, Lanes, ram_burst_size)

At(s) == arb = s
To(s) == arb' = s

-----------------------------------------------------------------------------
(* Fetching a line of the display.                                         *)

\* Mutant: every line starts at the top of the picture.
Ready_FirstLine ==
  /\ At("READY") /\ To("READY2")
  /\ Enable(FALSE)
  /\ fetch_y' = Addr(pan_ptr)
  /\ UNCHANGED <<row_fetched, fetch_line_y, fetch_x, fetch_buffer, refresh, copy>>

Ready ==
  /\ At("READY") /\ To("READY2")
  /\ Enable(FALSE)
  /\ fetch_y' = Addr(pan_ptr + fetch_line_y * FETCHW)
  /\ UNCHANGED <<row_fetched, fetch_line_y, fetch_x, fetch_buffer, refresh, copy>>

FetchNext ==
  /\ At("READY2") /\ ~row_fetched
  /\ arb' = IF queue_empty THEN "BURST_ON" ELSE arb
  /\ SetPort(ram_enable, ram_write, fetch_y, ram_data_in, ram_data_in_next, ram_byte_enable, 7)
  /\ fetch_x' = -margin_x
  /\ UNCHANGED <<row_fetched, fetch_line_y, fetch_y, fetch_buffer, refresh, copy>>

\* A two-word burst for the capture.
FetchDone ==
  /\ At("READY2") /\ row_fetched
  /\ arb' = IF queue_empty THEN "BURST_OFF" ELSE arb
  /\ EnableBurst(ram_enable, IF videocap_mode THEN 1 ELSE 0)
  /\ UNCHANGED <<fetchVars, refresh, copy>>

BurstOn ==
  /\ At("BURST_ON")
  /\ IF cmd_ready THEN To("FETCHING_ROW") /\ ReadAt(fetch_y, Lanes)
                  ELSE UNCHANGED <<arb, portVars>>
  /\ UNCHANGED <<fetchVars, refresh, copy>>

FetchingRow ==
  LET past(n) == Unsigned(fetch_x) > n IN
  /\ At("FETCHING_ROW")
  /\ IF data_out_ready
     THEN /\ SetPort(ram_enable /\ ~past(FETCHW - 1), ram_write, Addr(ram_addr + 1),
                     ram_data_in, ram_data_in_next, ram_byte_enable, ram_burst_size)
          /\ fetch_x' = fetch_x + 1
          /\ fetch_buffer' = [fetch_buffer EXCEPT ![fetch_x] = data_out]
          /\ row_fetched' = (row_fetched \/ past(FETCHW))
          /\ arb' = IF past(FETCHW) THEN "READY" ELSE arb
     ELSE UNCHANGED <<portVars, fetch_x, fetch_buffer, row_fetched, arb>>
  /\ UNCHANGED <<fetch_line_y, fetch_y, refresh, copy>>

\* ram_fetch_delay2_max is 0.
BurstOff ==
  /\ At("BURST_OFF") /\ To("ROW_FETCHED")
  /\ Enable(FALSE)
  /\ UNCHANGED <<fetchVars, refresh, copy>>

-----------------------------------------------------------------------------
(* The arbitration: who gets the port in RAM_ROW_FETCHED, if the           *)
(* controller is ready.                                                    *)

Claimant ==
  IF need_row_fetch_y # fetch_line_y /\ x_safe_area THEN "fetch"
  ELSE IF zorro_ram_write_request THEN "write"
  ELSE IF zorro_ram_read_request THEN "read"
  ELSE IF blitter_enable \in {1, 2, 4} THEN "blitter"
  ELSE IF ~cap.line_saved /\ videocap_mode /\ blitter_enable = 0 THEN "capture"
  ELSE IF refresh_max > 0 THEN "refresh"
  ELSE "none"

Grants(who) == At("ROW_FETCHED") /\ cmd_ready /\ Claimant = who

NobodyServed ==
  /\ At("ROW_FETCHED") /\ (~cmd_ready \/ Claimant = "none")
  /\ UNCHANGED <<arb, portVars, fetchVars, refresh, copy>>

GrantFetch ==
  /\ Grants("fetch") /\ To("READY")
  /\ SetPort(ram_enable, FALSE, ram_addr, ram_data_in, ram_data_in_next, ram_byte_enable,
             ram_burst_size)
  /\ row_fetched' = FALSE
  /\ fetch_line_y' = need_row_fetch_y
  /\ fetch_x' = -margin_x
  /\ UNCHANGED <<fetch_y, fetch_buffer, refresh, copy>>

GrantWrite ==
  /\ Grants("write") /\ To("WRITING_ZORRO_PRE")
  /\ EnableBurst(FALSE, 0)
  /\ UNCHANGED <<fetchVars, refresh, copy>>

GrantRead ==
  /\ Grants("read") /\ To("READING_ZORRO_PRE")
  /\ EnableBurst(FALSE, 0)
  /\ UNCHANGED <<fetchVars, refresh, copy>>

(* Rectangle fill, a pixel per grant.                                      *)
FillGranted == Grants("blitter") /\ blitter_enable = 1
FillLineLeft_Short == blit.curx < blit.x2   \* mutant: off by one
FillLineLeft == blit.curx <= blit.x2
FillRowsLeft == blit.cury < blit.y2

\* Mutant: the base of the row is left out.
FillPixel_NoBase ==
  /\ FillGranted /\ FillLineLeft
  /\ WriteAt(Addr(blit.curx), blit.rgb)
  /\ blit' = [blit EXCEPT !.curx = @ + 1, !.t = 1 - @,
                          !.rgb = IF blit.colormode = 2 THEN blit.rgb32[blit.t] ELSE @]
  /\ UNCHANGED <<arb, fetchVars, refresh, copy>>

FillPixel ==
  /\ FillGranted /\ FillLineLeft
  /\ WriteAt(Addr(blit.ptr + blit.curx), blit.rgb)
  /\ blit' = [blit EXCEPT !.curx = @ + 1, !.t = 1 - @,
                          !.rgb = IF blit.colormode = 2 THEN blit.rgb32[blit.t] ELSE @]
  /\ UNCHANGED <<arb, fetchVars, refresh, copy>>

FillRow ==
  /\ FillGranted /\ ~FillLineLeft /\ FillRowsLeft
  /\ Enable(FALSE)
  /\ blit' = [blit EXCEPT !.cury = @ + 1, !.curx = blit.x1, !.t = 1,
                          !.ptr = Addr(@ + blit.pitch),
                          !.rgb = IF blit.colormode = 2 THEN blit.rgb32[0] ELSE @]
  /\ UNCHANGED <<arb, fetchVars, refresh, copy>>

FillEnd ==
  /\ FillGranted /\ ~FillLineLeft /\ ~FillRowsLeft
  /\ SetPort(FALSE, FALSE, ram_addr, ram_data_in, ram_data_in_next, ram_byte_enable,
             ram_burst_size)
  /\ UNCHANGED <<arb, fetchVars, refresh, copy>>

(* Block copy: to its read phase once all reads are back, or to its write  *)
(* phase.                                                                  *)
GrantCopyRead ==
  /\ Grants("blitter") /\ blitter_enable = 2
  /\ arb' = IF queue_empty /\ sdram_idle THEN "BLIT_COPY_READ1" ELSE arb
  /\ Enable(FALSE)
  /\ UNCHANGED <<fetchVars, refresh, copy>>

GrantCopyWrite ==
  /\ Grants("blitter") /\ blitter_enable = 4 /\ To("BLIT_COPY_WRITE")
  /\ Enable(FALSE)
  /\ copy' = [copy EXCEPT !.write_done = FALSE]
  /\ UNCHANGED <<fetchVars, refresh>>

(* Video capture: two words of the captured line per grant.                *)
\* Mutant: the address advances by words, not by pairs.
CaptureWord_ByWords ==
  /\ Grants("capture") /\ cap.x < CaptureWidth
  /\ SetPort(TRUE, TRUE, Addr(cap.base + cap.x2), CaptureWords[1], CaptureWords[2], Lanes,
             ram_burst_size)
  /\ cap' = [cap EXCEPT !.x = @ + 1, !.x2 = @ + 1]
  /\ UNCHANGED <<arb, fetchVars, refresh, copy>>

CaptureWord ==
  /\ Grants("capture") /\ cap.x < CaptureWidth
  /\ SetPort(TRUE, TRUE, Addr(cap.base + cap.x2), CaptureWords[1], CaptureWords[2], Lanes,
             ram_burst_size)
  /\ cap' = [cap EXCEPT !.x = @ + 1, !.x2 = @ + 2]
  /\ UNCHANGED <<arb, fetchVars, refresh, copy>>

CaptureEnd ==
  /\ Grants("capture") /\ cap.x >= CaptureWidth
  /\ SetPort(FALSE, TRUE, Addr(cap.base + cap.x2), CaptureWords[1], CaptureWords[2], Lanes,
             ram_burst_size)
  /\ cap' = [cap EXCEPT !.line_saved = TRUE]
  /\ UNCHANGED <<arb, fetchVars, refresh, copy>>

GrantRefresh ==
  /\ Grants("refresh")
  /\ IF refresh.counter < refresh_max
     THEN refresh' = [refresh EXCEPT !.counter = @ + 1] /\ UNCHANGED arb
     ELSE refresh' = [refresh EXCEPT !.counter = 0] /\ To("REFRESH_PRE")
  /\ UNCHANGED <<portVars, fetchVars, copy>>

-----------------------------------------------------------------------------
(* Refresh: a read of one word of the next row, with idle cycles around.   *)

RefreshPre ==
  /\ At("REFRESH_PRE")
  /\ IF refresh.warm >= refresh_warm_max
     THEN /\ To("REFRESH")
          /\ ReadAt(refresh.addr, ram_byte_enable)
          /\ refresh' = [refresh EXCEPT !.warm = 0, !.addr = Addr(@ + NCols)]
     ELSE /\ Enable(FALSE)
          /\ refresh' = [refresh EXCEPT !.warm = @ + 1]
          /\ UNCHANGED arb
  /\ UNCHANGED <<fetchVars, copy>>

Refresh ==
  /\ At("REFRESH") /\ To("REFRESH_END")
  /\ Enable(FALSE)
  /\ UNCHANGED <<fetchVars, refresh, copy>>

\* Mutant: the port is given away before the word of the refresh has come back.
RefreshEnd_Early ==
  /\ At("REFRESH_END") /\ To("ROW_FETCHED")
  /\ UNCHANGED <<portVars, fetchVars, refresh, copy>>

RefreshEnd ==
  /\ At("REFRESH_END")
  /\ IF refresh.cool >= refresh_cool_max
     THEN To("ROW_FETCHED") /\ refresh' = [refresh EXCEPT !.cool = 0]
     ELSE UNCHANGED arb /\ refresh' = [refresh EXCEPT !.cool = @ + 1]
  /\ UNCHANGED <<portVars, fetchVars, copy>>

-----------------------------------------------------------------------------
(* Block copy.                                                             *)

WriteEnd1 ==
  /\ At("WRITE_END1")
  /\ arb' = IF cmd_ready THEN "WRITE_END" ELSE arb
  /\ copy' = [copy EXCEPT !.counter = 0]
  /\ UNCHANGED <<portVars, fetchVars, refresh>>

WriteEnd ==
  /\ At("WRITE_END")
  /\ arb' = IF cmd_ready /\ queue_empty THEN "ROW_FETCHED" ELSE arb
  /\ Enable(FALSE)
  /\ UNCHANGED <<fetchVars, refresh, copy>>

CopyRead1 ==
  /\ At("BLIT_COPY_READ1")
  /\ arb' = IF cmd_ready /\ queue_empty THEN "BLIT_COPY_READ" ELSE arb
  /\ SetPort(FALSE, FALSE, ram_addr, ram_data_in, ram_data_in_next, Lanes, ram_burst_size)
  /\ copy' = [copy EXCEPT !.issued = 0, !.reads_done = FALSE]
  /\ UNCHANGED <<fetchVars, refresh>>

Along(x, back) == IF back THEN x - 1 ELSE x + 1

\* All the words the reads were issued for are in the buffer.
CopyBufferFilled ==
  At("BLIT_COPY_READ") /\ copy.issued > 0 /\ copy.counter >= copy.issued

\* The next read of the chunk is put on the port.
CopyIssues ==
  At("BLIT_COPY_READ") /\ cmd_ready /\ ~copy.reads_done /\ copy.issued < BLITTER_COPY_SIZE

CopyRead ==
  /\ At("BLIT_COPY_READ")
  /\ arb' = IF CopyBufferFilled THEN "WRITE_END1" ELSE arb
  /\ copy' = [copy EXCEPT
       !.counter = IF CopyBufferFilled THEN 0 ELSE IF data_out_ready THEN @ + 1 ELSE @,
       !.buf = IF data_out_ready /\ copy.counter < BLITTER_COPY_SIZE
               THEN [@ EXCEPT ![copy.counter] = data_out] ELSE @,
       !.issued = IF CopyIssues THEN @ + 1 ELSE @,
       !.reads_done = @ \/ (CopyIssues /\ blit.curx2 = blit.x4)]
  /\ blit' = IF CopyIssues /\ blit.curx2 # blit.x4
             THEN [blit EXCEPT !.curx2 = Along(@, blit.dirx)] ELSE blit
  /\ IF CopyIssues
     THEN SetPort(TRUE, ram_write, Addr(blit.ptr2 + blit.curx2), ram_data_in,
                  ram_data_in_next, ram_byte_enable, ram_burst_size)
     ELSE Enable(ram_enable /\ ~cmd_ready)
  /\ UNCHANGED <<fetchVars, refresh>>

CopyBufferEmpty_Early == copy.counter >= BLITTER_COPY_SIZE - 1   \* mutant
CopyBufferEmpty == copy.counter >= BLITTER_COPY_SIZE
CopyMoves == ~copy.write_done /\ blit.curx # blit.x2 /\ ~CopyBufferEmpty
CopyLastRow == blit.cury2 = blit.y4

CopyNextRow ==
  LET step == IF blit.diry THEN -blit.pitch ELSE blit.pitch IN
  [blit EXCEPT !.curx = blit.x1, !.curx2 = blit.x3,
               !.ptr = Addr(@ + step), !.ptr2 = Addr(@ + step),
               !.cury = Along(@, blit.diry), !.cury2 = Along(@, blit.diry)]

CopyWrite ==
  /\ At("BLIT_COPY_WRITE") /\ cmd_ready
  /\ arb' = IF CopyBufferEmpty \/ copy.write_done THEN "WRITE_END1" ELSE arb
  /\ IF CopyBufferEmpty THEN Enable(TRUE)
     ELSE WriteAt(Addr(blit.ptr + blit.curx), copy.buf[copy.counter])
  /\ copy' = [copy EXCEPT !.counter = IF CopyMoves THEN @ + 1 ELSE @,
                          !.write_done = @ \/ ~CopyMoves]
  /\ blit' = IF copy.write_done /\ ~CopyLastRow THEN CopyNextRow
             ELSE IF CopyMoves THEN [blit EXCEPT !.curx = Along(@, blit.dirx)] ELSE blit
  /\ UNCHANGED <<fetchVars, refresh>>

CopyWriteWaits ==
  /\ At("BLIT_COPY_WRITE") /\ ~cmd_ready
  /\ UNCHANGED <<arb, portVars, fetchVars, refresh, copy>>

-----------------------------------------------------------------------------
(* Host reads and writes.                                                  *)

ReadingZorroPre ==
  /\ At("READING_ZORRO_PRE")
  /\ IF queue_empty /\ cmd_ready
     THEN To("READING_ZORRO") /\ ReadAt(zorro_ram_read_addr, Lanes)
     ELSE UNCHANGED arb /\ Enable(FALSE)
  /\ UNCHANGED <<fetchVars, refresh, copy>>

ReadingZorro ==
  /\ At("READING_ZORRO")
  /\ arb' = IF data_out_ready THEN "ROW_FETCHED" ELSE arb
  /\ Enable(FALSE)
  /\ UNCHANGED <<fetchVars, refresh, copy>>

WritingZorroPre ==
  /\ At("WRITING_ZORRO_PRE")
  /\ arb' = IF cmd_ready THEN "WRITING_ZORRO" ELSE arb
  /\ SetPort(TRUE, TRUE, zorro_ram_write.addr, zorro_ram_write.data, ram_data_in_next,
             zorro_ram_write.bytes, ram_burst_size)
  /\ UNCHANGED <<fetchVars, refresh, copy>>

WritingZorro ==
  /\ At("WRITING_ZORRO")
  /\ arb' = IF cmd_ready THEN "ROW_FETCHED" ELSE arb
  /\ SetPort(FALSE, FALSE, ram_addr, ram_data_in, ram_data_in_next, ram_byte_enable,
             ram_burst_size)
  /\ UNCHANGED <<fetchVars, refresh, copy>>

(* What the arbiter assigns to the registers it shares.                    *)
ClearsWriteRequest_Never == FALSE   \* mutant
ClearsWriteRequest == At("WRITING_ZORRO")
ReadAnswered       == At("READING_ZORRO") /\ data_out_ready
ClearsReadDone     == Grants("read")

\* The arbiter's assignment to blitter_enable, or `proposed' if it makes none.
BlitterNext(proposed) ==
  IF FillGranted /\ ~FillLineLeft /\ ~FillRowsLeft THEN 0
  ELSE IF CopyBufferFilled THEN 4
  ELSE IF At("BLIT_COPY_WRITE") /\ cmd_ready /\ copy.write_done
       THEN IF CopyLastRow THEN 0 ELSE 2
  ELSE IF At("BLIT_COPY_WRITE") /\ cmd_ready /\ CopyBufferEmpty THEN 2
  ELSE proposed

-----------------------------------------------------------------------------
(* Outside the case: a new line of captured video restarts the capture.    *)
(* The capture branches need a line that is not saved, so they never meet  *)
(* a new line.                                                             *)
LineArrives == /\ videocap_mode /\ cap.line_saved
               /\ videocap_y3 < CaptureHeight
               /\ cap.line_saved_y # videocap_y3

StartLine ==
  [line_saved |-> FALSE, line_saved_y |-> videocap_y3, x |-> 0, x2 |-> 0,
   base |-> Addr(CaptureBase + videocap_y3 * CapturePitch)]

CaptureLine == cap' = IF LineArrives THEN StartLine ELSE cap

\* `programmed' is what the host's registers make of the blitter's counters at
\* this edge; the driver starts the blitter only when it is idle, so that the
\* arbiter then assigns none of them.
ArbiterStep(programmed) ==
  \/ (CaptureWord \/ CaptureEnd) /\ blit' = programmed
  \/ CaptureLine /\ (FillPixel \/ FillRow \/ CopyRead \/ CopyWrite)
  \/ /\ CaptureLine /\ blit' = programmed
     /\ \/ Ready \/ FetchNext \/ FetchDone \/ BurstOn \/ FetchingRow \/ BurstOff
        \/ NobodyServed \/ GrantFetch \/ GrantWrite \/ GrantRead
        \/ FillEnd \/ GrantCopyRead \/ GrantCopyWrite
        \/ GrantRefresh \/ RefreshPre \/ Refresh \/ RefreshEnd
        \/ WriteEnd1 \/ WriteEnd \/ CopyRead1 \/ CopyWriteWaits
        \/ ReadingZorroPre \/ ReadingZorro \/ WritingZorroPre \/ WritingZorro
=============================================================================
