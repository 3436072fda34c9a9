------------------------------ MODULE CardProofs ------------------------------
(***************************************************************************)
(* The card as the client of its SDRAM controller: whatever the host, the  *)
(* display, the capture and the blitter ask for, the arbiter drives the    *)
(* port with addresses, words and burst lengths the theorems about the     *)
(* controller allow, and the reset at power-up meets nothing under way.    *)
(***************************************************************************)
EXTENDS ZorroBus, SDRAMSafetyProofs

(* An address is split into a bank, a row and a column of the chip.        *)
LEMMA QuotientBelow ==
  ASSUME NEW m \in Nat \ {0}, NEW n \in Nat \ {0}, NEW x \in 0 .. (m * n - 1)
  PROVE  x \div n \in 0 .. m - 1
<1> DEFINE q == x \div n
<1>1. q \in Int /\ q >= 0 /\ x = n * q + (x % n) /\ x % n >= 0 /\ x % n < n  OBVIOUS
<1>2. ASSUME q >= m  PROVE FALSE
  <2>1. n * q >= n * m  BY <1>1, <1>2
  <2> QED  BY <1>1, <2>1
<1> QED  BY <1>1, <1>2

LEMMA AddrType ==
  ASSUME NEW a \in Int
  PROVE  Addr(a) \in Int
<1>1. Size \in Nat \ {0}  BY GeometryAssumption DEF Size, NCols
<1> QED  BY <1>1 DEF Addr

LEMMA CellAtType ==
  ASSUME NEW a \in Int
  PROVE  CellAt(a) \in Cells
<1>0. NBanks \in Nat \ {0} /\ NRows \in Nat \ {0} /\ NCols \in Nat \ {0}
  BY GeometryAssumption DEF NCols
<1>1. NRows * NCols \in Nat \ {0}  BY <1>0
<1>2. Size \in Nat \ {0} /\ Size = NBanks * (NRows * NCols)  BY <1>0 DEF Size
<1>3. Addr(a) \in 0 .. (NBanks * (NRows * NCols) - 1)  BY <1>2 DEF Addr
<1>4. Addr(a) \div (NRows * NCols) \in Banks  BY <1>0, <1>1, <1>3, QuotientBelow DEF Banks
<1>5. (Addr(a) \div NCols) % NRows \in Rows
  <2>1. Addr(a) \div NCols \in Int  BY <1>0, <1>3
  <2> QED  BY <1>0, <2>1 DEF Rows
<1>6. a % NCols \in Cols  BY <1>0, GeometryAssumption DEF Cols, NCols
<1> QED  BY <1>4, <1>5, <1>6 DEF CellAt, Cells

-----------------------------------------------------------------------------
(* The registers that reach the port, directly or over others.             *)

PortTyped ==
  /\ ram_enable \in BOOLEAN /\ ram_write \in BOOLEAN /\ ram_byte_enable \in SUBSET Lanes
  /\ ram_addr \in Int /\ ram_data_in \in Words /\ ram_data_in_next \in Words
  /\ ram_burst_size \in Modes

LineTyped ==
  /\ fetch_y \in Int /\ fetch_line_y \in Int /\ need_row_fetch_y \in Int /\ pan_ptr \in Int
  /\ videocap_y3 \in Int

RefreshRecords == [counter : Int, warm : Int, cool : Int, addr : Int]
CopyRecords == [counter : Nat, issued : Nat, reads_done : BOOLEAN, write_done : BOOLEAN,
                buf : [0 .. BLITTER_COPY_SIZE - 1 -> Words]]
CapRecords == [line_saved : BOOLEAN, line_saved_y : Int, x : Int, x2 : Int, base : Int]
JobsTyped ==
  refresh \in RefreshRecords /\ blit \in BlitRecords /\ copy \in CopyRecords /\ cap \in CapRecords

RequestsTyped ==
  /\ zorro_ram_write \in [addr : Int, bytes : SUBSET Lanes, data : Words]
  /\ zorro_ram_read_addr \in Int
  /\ bus \in [active : BOOLEAN, op : HostRecords]
  /\ z3_ds \in [{0, 1} -> SUBSET Lanes]
  /\ sdram_reset \in BOOLEAN

CardTyped == PortTyped /\ LineTyped /\ JobsTyped /\ RequestsTyped

LEMMA PortIsClientInput ==
  ASSUME CardTyped
  PROVE  Port(sdram_reset) \in ClientInputs
<1>1. CellAt(ram_addr) \in Cells  BY CellAtType DEF CardTyped, PortTyped
<1>2. /\ CellAt(ram_addr)[1] \in Banks /\ CellAt(ram_addr)[2] \in Rows
      /\ CellAt(ram_addr)[3] \in Cols
  BY <1>1 DEF Cells
<1> QED  BY <1>2 DEF Port, ClientInputs, CardTyped, PortTyped, RequestsTyped

-----------------------------------------------------------------------------
(* One edge of the arbiter.                                                *)

LEMMA SetPortTyped ==
  ASSUME NEW e \in BOOLEAN, NEW w \in BOOLEAN, NEW a \in Int, NEW d \in Words, NEW n \in Words,
         NEW b \in SUBSET Lanes, NEW m \in Modes, SetPort(e, w, a, d, n, b, m)
  PROVE  PortTyped'
BY DEF SetPort, PortTyped

\* Every field of the blitter keeps its type when it is assigned.
LEMMA BlitterFields ==
  ASSUME NEW b \in BlitRecords
  PROVE  /\ {b.x1, b.x3, b.x4, b.y1, b.y3, b.curx, b.curx2, b.ptr, b.ptr2, b.base, b.base2, b.pitch}
              \subseteq Int
         /\ {b.cury, b.cury2} \subseteq Int
         /\ b.rgb \in Words /\ {b.rgb32[0], b.rgb32[1], b.rgb32[b.t]} \subseteq Words
         /\ b.t \in {0, 1}
BY DEF BlitRecords

LEMMA FillTyped ==
  ASSUME NEW b \in BlitRecords, NEW x \in Int, NEW y \in Int, NEW t \in {0, 1}, NEW c \in Words,
         NEW q \in Int
  PROVE  /\ [b EXCEPT !.curx = x, !.t = t, !.rgb = c] \in BlitRecords
         /\ [b EXCEPT !.cury = y, !.curx = x, !.t = t, !.ptr = q, !.rgb = c] \in BlitRecords
BY DEF BlitRecords

LEMMA CurxTyped ==
  ASSUME NEW b \in BlitRecords, NEW x \in Int
  PROVE  [b EXCEPT !.curx = x] \in BlitRecords
BY DEF BlitRecords

LEMMA Curx2Typed ==
  ASSUME NEW b \in BlitRecords, NEW x \in Int
  PROVE  [b EXCEPT !.curx2 = x] \in BlitRecords
BY DEF BlitRecords

LEMMA NextRowTyped ==
  ASSUME NEW b \in BlitRecords, NEW x \in Int, NEW x2 \in Int, NEW y \in Int, NEW y2 \in Int,
         NEW q \in Int, NEW q2 \in Int
  PROVE  [b EXCEPT !.curx = x, !.curx2 = x2, !.ptr = q, !.ptr2 = q2, !.cury = y, !.cury2 = y2]
            \in BlitRecords
BY DEF BlitRecords

LEMMA StartTyped ==
  ASSUME NEW b \in BlitRecords, NEW c \in Words
  PROVE  [b EXCEPT !.curx = b.x1, !.cury = b.y1, !.curx2 = b.x3, !.cury2 = b.y3,
                   !.dirx = (b.x3 > b.x4), !.diry = (b.y3 > b.y4),
                   !.ptr = b.base, !.ptr2 = b.base2, !.t = 1, !.rgb = c] \in BlitRecords
<1>1. (b.x3 > b.x4) \in BOOLEAN /\ (b.y3 > b.y4) \in BOOLEAN  OBVIOUS
<1> QED  BY <1>1 DEF BlitRecords

LEMMA ArbiterPort ==
  ASSUME CardTyped, NEW p, ArbiterStep(p)
  PROVE  PortTyped'
<1> USE DEF CardTyped
<1> USE SetPortTyped
<1>0. /\ blit.rgb \in Words /\ blit.ptr \in Int /\ blit.curx \in Int
      /\ blit.ptr2 \in Int /\ blit.curx2 \in Int
  BY BlitterFields DEF JobsTyped
<1>1. /\ CaptureWords[1] \in Words /\ CaptureWords[2] \in Words /\ FETCHW \in Int
      /\ BLITTER_COPY_SIZE \in Nat
  BY SizesAssumption
<1>2. cap.base \in Int /\ cap.x2 \in Int /\ refresh.addr \in Int
  BY DEF JobsTyped, CapRecords, RefreshRecords
<1>3. /\ Addr(blit.ptr + blit.curx) \in Int /\ Addr(blit.ptr2 + blit.curx2) \in Int
      /\ Addr(cap.base + cap.x2) \in Int /\ Addr(ram_addr + 1) \in Int
  BY <1>0, <1>2, AddrType DEF PortTyped
<1>4. {0, 1, 7} = Modes /\ Lanes \in SUBSET Lanes  BY DEF Modes
<1>5. /\ fetch_y \in Int /\ zorro_ram_read_addr \in Int /\ zorro_ram_write.addr \in Int
      /\ zorro_ram_write.data \in Words /\ zorro_ram_write.bytes \in SUBSET Lanes
  BY DEF LineTyped, RequestsTyped
<1>6. CASE Ready \/ FetchDone \/ BurstOff \/ GrantWrite \/ GrantRead
  BY <1>4, <1>6 DEF Ready, FetchDone, BurstOff, GrantWrite, GrantRead, Enable, EnableBurst, PortTyped
<1>7. CASE FetchNext \/ BurstOn
  BY <1>4, <1>5, <1>7 DEF FetchNext, BurstOn, ReadAt, PortTyped, portVars
<1>8. CASE FetchingRow
  <2>1. CASE data_out_ready
    <3>1. SetPort(ram_enable /\ ~(Unsigned(fetch_x) > FETCHW - 1), ram_write, Addr(ram_addr + 1),
                  ram_data_in, ram_data_in_next, ram_byte_enable, ram_burst_size)
      BY <1>8, <2>1 DEF FetchingRow
    <3>2. (ram_enable /\ ~(Unsigned(fetch_x) > FETCHW - 1)) \in BOOLEAN  OBVIOUS
    <3> QED  BY <1>3, <3>1, <3>2 DEF PortTyped
  <2>2. CASE ~data_out_ready
    BY <1>8, <2>2 DEF FetchingRow, portVars, PortTyped
  <2> QED  BY <2>1, <2>2
<1>9. CASE GrantFetch \/ FillEnd
  BY <1>9 DEF GrantFetch, FillEnd, PortTyped
<1>10. CASE NobodyServed \/ GrantRefresh \/ RefreshEnd \/ WriteEnd1 \/ CopyWriteWaits
  BY <1>10 DEF NobodyServed, GrantRefresh, RefreshEnd, WriteEnd1, CopyWriteWaits, portVars, PortTyped
<1>11. CASE FillPixel
  BY <1>0, <1>3, <1>4, <1>11 DEF FillPixel, WriteAt, PortTyped
<1>12. CASE FillRow \/ GrantCopyRead \/ GrantCopyWrite
  BY <1>12 DEF FillRow, GrantCopyRead, GrantCopyWrite, Enable, PortTyped
<1>13. CASE CaptureWord \/ CaptureEnd
  BY <1>1, <1>3, <1>4, <1>13 DEF CaptureWord, CaptureEnd, PortTyped
<1>14. CASE RefreshPre \/ Refresh \/ WriteEnd
  BY <1>2, <1>14 DEF RefreshPre, Refresh, WriteEnd, ReadAt, Enable, PortTyped
<1>15. CASE CopyRead1 \/ WritingZorro
  BY <1>4, <1>15 DEF CopyRead1, WritingZorro, PortTyped
<1>16. CASE CopyRead
  <2>1. CASE CopyIssues
    BY <1>3, <1>16, <2>1 DEF CopyRead, PortTyped
  <2>2. CASE ~CopyIssues
    <3>1. (ram_enable /\ ~cmd_ready) \in BOOLEAN  OBVIOUS
    <3> QED  BY <1>16, <2>2, <3>1 DEF CopyRead, Enable, PortTyped
  <2> QED  BY <2>1, <2>2
<1>17. CASE CopyWrite
  <2>1. CASE CopyBufferEmpty
    BY <1>17, <2>1 DEF CopyWrite, Enable, PortTyped
  <2>2. CASE ~CopyBufferEmpty
    <3>1. copy.counter \in 0 .. BLITTER_COPY_SIZE - 1
      BY <1>1, <2>2 DEF CopyBufferEmpty, JobsTyped, CopyRecords
    <3>2. copy.buf[copy.counter] \in Words  BY <3>1 DEF JobsTyped, CopyRecords
    <3> QED  BY <1>3, <1>4, <1>17, <2>2, <3>2 DEF CopyWrite, WriteAt, PortTyped
  <2> QED  BY <2>1, <2>2
<1>18. CASE ReadingZorroPre \/ ReadingZorro
  BY <1>4, <1>5, <1>18 DEF ReadingZorroPre, ReadingZorro, ReadAt, Enable, PortTyped
<1>19. CASE WritingZorroPre
  BY <1>5, <1>19 DEF WritingZorroPre, PortTyped
<1> QED
  BY <1>6, <1>7, <1>8, <1>9, <1>10, <1>11, <1>12, <1>13, <1>14, <1>15, <1>16, <1>17, <1>18, <1>19
     DEF ArbiterStep

LEMMA ArbiterLines ==
  ASSUME CardTyped, NEW p, ArbiterStep(p), Registers, Scanout, CapturedVideo
  PROVE  LineTyped'
<1> USE DEF CardTyped, LineTyped
<1>1. FETCHW \in Int /\ CaptureBase \in Int /\ CaptureHeight \in Nat \ {0}  BY SizesAssumption
<1>2. pan_ptr' \in Int  BY <1>1 DEF Registers
<1>3. videocap_y3' \in Int  BY <1>1 DEF CapturedVideo
<1>4. need_row_fetch_y' \in Int  BY HostAssumption DEF Scanout
<1>5. fetch_y' \in Int /\ fetch_line_y' \in Int
  <2>1. CASE Ready
    <3>1. pan_ptr + fetch_line_y * FETCHW \in Int  BY <1>1
    <3> QED  BY <2>1, <3>1, AddrType DEF Ready
  <2>2. CASE GrantFetch
    BY <2>2 DEF GrantFetch
  <2>3. CASE ~Ready /\ ~GrantFetch
    <3>1. UNCHANGED <<fetch_y, fetch_line_y>>
      BY <2>3 DEF ArbiterStep, fetchVars, FetchNext, FetchDone, BurstOn, FetchingRow, BurstOff,
         NobodyServed, GrantWrite, GrantRead, FillPixel, FillRow, FillEnd, GrantCopyRead,
         GrantCopyWrite, CaptureWord, CaptureEnd, GrantRefresh, RefreshPre, Refresh, RefreshEnd,
         WriteEnd1, WriteEnd, CopyRead1, CopyRead, CopyWrite, CopyWriteWaits, ReadingZorroPre,
         ReadingZorro, WritingZorroPre, WritingZorro
    <3> QED  BY <3>1
  <2> QED  BY <2>1, <2>2, <2>3
<1> QED  BY <1>2, <1>3, <1>4, <1>5

LEMMA RefreshFields ==
  ASSUME NEW r \in RefreshRecords, NEW w \in Int, NEW a \in Int
  PROVE  [r EXCEPT !.warm = w] \in RefreshRecords /\ [r EXCEPT !.warm = w, !.addr = a] \in RefreshRecords
BY DEF RefreshRecords

LEMMA ArbiterRefresh ==
  ASSUME CardTyped, NEW p, ArbiterStep(p)
  PROVE  refresh' \in RefreshRecords
<1> USE DEF CardTyped, JobsTyped
<1>1. CASE GrantRefresh
  BY <1>1 DEF GrantRefresh, RefreshRecords
<1>2. CASE RefreshPre
  <2>1. NCols \in Int  BY GeometryAssumption DEF NCols
  <2>2. refresh.addr \in Int  BY DEF RefreshRecords
  <2>3. Addr(refresh.addr + NCols) \in Int  BY <2>1, <2>2, AddrType
  <2>4. \/ refresh' = [refresh EXCEPT !.warm = 0, !.addr = Addr(refresh.addr + NCols)]
        \/ refresh' = [refresh EXCEPT !.warm = refresh.warm + 1]
    BY <1>2 DEF RefreshPre
  <2>5. refresh.warm + 1 \in Int  BY DEF RefreshRecords
  <2>6. [refresh EXCEPT !.warm = 0, !.addr = Addr(refresh.addr + NCols)] \in RefreshRecords
    <3>1. refresh \in RefreshRecords /\ 0 \in Int  OBVIOUS
    <3> HIDE DEF CardTyped, JobsTyped
    <3> QED  BY <2>3, <3>1, RefreshFields, Zenon
  <2> QED  BY <2>4, <2>5, <2>6, RefreshFields
<1>3. CASE RefreshEnd
  BY <1>3 DEF RefreshEnd, RefreshRecords
<1>4. CASE ~GrantRefresh /\ ~RefreshPre /\ ~RefreshEnd
  <2>1. UNCHANGED refresh
    BY <1>4 DEF ArbiterStep, fetchVars, Ready, FetchNext, FetchDone, BurstOn, FetchingRow, BurstOff,
       NobodyServed, GrantFetch, GrantWrite, GrantRead, FillPixel, FillRow, FillEnd, GrantCopyRead,
       GrantCopyWrite, CaptureWord, CaptureEnd, Refresh,
       WriteEnd1, WriteEnd, CopyRead1, CopyRead, CopyWrite, CopyWriteWaits, ReadingZorroPre,
       ReadingZorro, WritingZorroPre, WritingZorro
  <2> QED  BY <2>1
<1> QED  BY <1>1, <1>2, <1>3, <1>4

\* A word is put in the copy buffer only when the controller says it is one.
LEMMA ArbiterCopy ==
  ASSUME CardTyped, TypeInv, AnswersAreWords, NEW p, ArbiterStep(p)
  PROVE  copy' \in CopyRecords
<1> USE DEF CardTyped, JobsTyped
<1>0. BLITTER_COPY_SIZE \in Nat  BY SizesAssumption
<1>1. CASE GrantCopyWrite
  BY <1>1 DEF GrantCopyWrite, CopyRecords
<1>2. CASE WriteEnd1
  BY <1>2 DEF WriteEnd1, CopyRecords
<1>3. CASE CopyRead1
  BY <1>3 DEF CopyRead1, CopyRecords
<1>4. CASE CopyRead
  <2> DEFINE counter == IF CopyBufferFilled THEN 0
                        ELSE IF data_out_ready THEN copy.counter + 1 ELSE copy.counter
             buf == IF data_out_ready /\ copy.counter < BLITTER_COPY_SIZE
                    THEN [copy.buf EXCEPT ![copy.counter] = data_out] ELSE copy.buf
             issued == IF CopyIssues THEN copy.issued + 1 ELSE copy.issued
             done == copy.reads_done \/ (CopyIssues /\ blit.curx2 = blit.x4)
  <2>1. /\ copy.counter \in Nat /\ copy.issued \in Nat
        /\ copy.buf \in [0 .. BLITTER_COPY_SIZE - 1 -> Words]
    BY DEF CopyRecords
  <2>2. counter \in Nat /\ issued \in Nat /\ done \in BOOLEAN  BY <2>1
  <2>3. buf \in [0 .. BLITTER_COPY_SIZE - 1 -> Words]
    <3>1. data_out_ready => data_out \in Words
      BY DEF AnswersAreWords, TypeInv, TypeOK, ControllerTypeOK
    <3> QED  BY <1>0, <2>1, <3>1
  <2>4. copy' = [copy EXCEPT !.counter = counter, !.buf = buf, !.issued = issued, !.reads_done = done]
    BY <1>4 DEF CopyRead
  <2> HIDE DEF counter, buf, issued, done
  <2> QED  BY <2>2, <2>3, <2>4 DEF CopyRecords
<1>5. CASE CopyWrite
  <2> DEFINE counter == IF CopyMoves THEN copy.counter + 1 ELSE copy.counter
             done == copy.write_done \/ ~CopyMoves
  <2>1. counter \in Nat /\ done \in BOOLEAN  BY DEF CopyRecords
  <2>2. copy' = [copy EXCEPT !.counter = counter, !.write_done = done]  BY <1>5 DEF CopyWrite
  <2> HIDE DEF counter, done
  <2> QED  BY <2>1, <2>2 DEF CopyRecords
<1>6. CASE ~GrantCopyWrite /\ ~WriteEnd1 /\ ~CopyRead1 /\ ~CopyRead /\ ~CopyWrite
  <2>1. UNCHANGED copy
    BY <1>6 DEF ArbiterStep, Ready, FetchNext, FetchDone, BurstOn, FetchingRow, BurstOff,
       NobodyServed, GrantFetch, GrantWrite, GrantRead, FillPixel, FillRow, FillEnd, GrantCopyRead,
       CaptureWord, CaptureEnd, GrantRefresh, RefreshPre, Refresh, RefreshEnd, WriteEnd,
       CopyWriteWaits, ReadingZorroPre, ReadingZorro, WritingZorroPre, WritingZorro
  <2> QED  BY <2>1
<1> QED  BY <1>1, <1>2, <1>3, <1>4, <1>5, <1>6

LEMMA ArbiterCapture ==
  ASSUME CardTyped, NEW p, ArbiterStep(p)
  PROVE  cap' \in CapRecords
<1> USE DEF CardTyped, JobsTyped
<1>1. CASE CaptureWord
  <2>1. cap' = [cap EXCEPT !.x = cap.x + 1, !.x2 = cap.x2 + 2]  BY <1>1 DEF CaptureWord
  <2>2. cap.x + 1 \in Int /\ cap.x2 + 2 \in Int  BY DEF CapRecords
  <2> QED  BY <2>1, <2>2 DEF CapRecords
<1>2. CASE CaptureEnd
  BY <1>2 DEF CaptureEnd, CapRecords
<1>3. CASE CaptureLine
  <2>1. CaptureBase + videocap_y3 * CapturePitch \in Int  BY SizesAssumption DEF LineTyped
  <2>2. StartLine \in CapRecords  BY <2>1, AddrType DEF StartLine, CapRecords, LineTyped
  <2> QED  BY <1>3, <2>2 DEF CaptureLine
<1> QED  BY <1>1, <1>2, <1>3 DEF ArbiterStep

LEMMA ArbiterBlitter ==
  ASSUME CardTyped, NEW p \in BlitRecords, ArbiterStep(p)
  PROVE  blit' \in BlitRecords
<1> USE DEF CardTyped, JobsTyped
<1>0. /\ {blit.x1, blit.x3, blit.y1, blit.y3, blit.curx, blit.curx2, blit.ptr, blit.ptr2, blit.pitch,
          blit.cury, blit.cury2} \subseteq Int
      /\ blit.rgb \in Words /\ {blit.rgb32[0], blit.rgb32[1], blit.rgb32[blit.t]} \subseteq Words
      /\ 1 - blit.t \in {0, 1}
  BY BlitterFields
<1>1. CASE FillPixel
  <2>1. blit' = [blit EXCEPT !.curx = blit.curx + 1, !.t = 1 - blit.t,
                             !.rgb = IF blit.colormode = 2 THEN blit.rgb32[blit.t] ELSE blit.rgb]
    BY <1>1 DEF FillPixel
  <2>2. (IF blit.colormode = 2 THEN blit.rgb32[blit.t] ELSE blit.rgb) \in Words  BY <1>0
  <2>3. blit.curx + 1 \in Int  BY <1>0
  <2> QED  BY <1>0, <2>1, <2>2, <2>3, FillTyped
<1>2. CASE FillRow
  <2>1. blit' = [blit EXCEPT !.cury = blit.cury + 1, !.curx = blit.x1, !.t = 1,
                             !.ptr = Addr(blit.ptr + blit.pitch),
                             !.rgb = IF blit.colormode = 2 THEN blit.rgb32[0] ELSE blit.rgb]
    BY <1>2 DEF FillRow
  <2>2. (IF blit.colormode = 2 THEN blit.rgb32[0] ELSE blit.rgb) \in Words  BY <1>0
  <2>3. blit.cury + 1 \in Int /\ blit.x1 \in Int /\ Addr(blit.ptr + blit.pitch) \in Int
    BY <1>0, AddrType
  <2> QED  BY <1>0, <2>1, <2>2, <2>3, FillTyped
<1>3. CASE CopyRead
  <2>1. \/ blit' = [blit EXCEPT !.curx2 = Along(blit.curx2, blit.dirx)] \/ blit' = blit
    BY <1>3 DEF CopyRead
  <2>2. Along(blit.curx2, blit.dirx) \in Int  BY <1>0 DEF Along
  <2> QED  BY <2>1, <2>2, Curx2Typed
<1>4. CASE CopyWrite
  <2>1. \/ blit' = CopyNextRow
        \/ blit' = [blit EXCEPT !.curx = Along(blit.curx, blit.dirx)]
        \/ blit' = blit
    BY <1>4 DEF CopyWrite
  <2>2. Along(blit.curx, blit.dirx) \in Int  BY <1>0 DEF Along
  <2>3. CopyNextRow \in BlitRecords
    <3> DEFINE step == IF blit.diry THEN -blit.pitch ELSE blit.pitch
    <3>1. step \in Int  BY <1>0
    <3>2. /\ Addr(blit.ptr + step) \in Int /\ Addr(blit.ptr2 + step) \in Int
          /\ Along(blit.cury, blit.diry) \in Int /\ Along(blit.cury2, blit.diry) \in Int
      BY <1>0, <3>1, AddrType DEF Along
    <3>3. CopyNextRow = [blit EXCEPT !.curx = blit.x1, !.curx2 = blit.x3,
             !.ptr = Addr(blit.ptr + step), !.ptr2 = Addr(blit.ptr2 + step),
             !.cury = Along(blit.cury, blit.diry), !.cury2 = Along(blit.cury2, blit.diry)]
      BY DEF CopyNextRow
    <3> HIDE DEF step
    <3> QED  BY <1>0, <3>2, <3>3, NextRowTyped
  <2> QED  BY <2>1, <2>2, <2>3, CurxTyped
<1>5. CASE blit' = p
  BY <1>5
<1> QED  BY <1>1, <1>2, <1>3, <1>4, <1>5 DEF ArbiterStep

-----------------------------------------------------------------------------
(* One edge of the Zorro machine, the host and the shared registers.       *)

LEMMA RequestsStep ==
  ASSUME CardTyped, ZorroStep, Requests, Host
  PROVE  RequestsTyped'
<1> USE DEF CardTyped, RequestsTyped
<1>1. bus.op \in HostRecords  OBVIOUS
<1>2. /\ bus.op.addr \in Int /\ bus.op.strobes \in [{0, 1} -> SUBSET Lanes]
      /\ bus.op.data \in [{0, 1} -> Words]
  BY <1>1 DEF HostRecords
<1>3. \A h \in {0, 1} : Half(h) \in Int /\ bus.op.data[h] \in Words /\ z3_ds[h] \in SUBSET Lanes
  BY <1>2 DEF Half
<1>4. zorro_ram_write' \in [addr : Int, bytes : SUBSET Lanes, data : Words]
  <2>1. CASE SetsWriteRequest
    <3>1. PICK h \in {0, 1} :
            zorro_ram_write' = [addr |-> Half(h), bytes |-> z3_ds[h], data |-> bus.op.data[h]]
      BY <2>1 DEF Requests
    <3> QED  BY <1>3, <3>1
  <2>2. CASE ~SetsWriteRequest
    BY <2>2 DEF Requests
  <2> QED  BY <2>1, <2>2
<1>5. zorro_ram_read_addr' \in Int  BY <1>3 DEF Requests
<1>6. bus' \in [active : BOOLEAN, op : HostRecords]
  <2>1. CASE UNCHANGED bus
    BY <2>1
  <2>2. CASE \E o \in HostOps : bus' = [active |-> TRUE, op |-> o]
    <3>1. PICK o \in HostOps : bus' = [active |-> TRUE, op |-> o]  BY <2>2
    <3>2. o \in HostRecords  BY HostAssumption
    <3> QED  BY <3>1, <3>2
  <2>3. CASE bus' = [bus EXCEPT !.active = FALSE]
    BY <2>3
  <2> QED  BY <2>1, <2>2, <2>3 DEF Host
<1>7. z3_ds' \in [{0, 1} -> SUBSET Lanes]
  <2>1. z3_ds' = z3_ds \/ z3_ds' = bus.op.strobes
    BY DEF ZorroStep, Cold, EnterReset, InReset, Configuring, Configured, ConfiguredClear,
       EnterResetDvid, ResetDvid, Z3Idle, ReadUpper, ReadLower, ReadDelay1, ReadDelay2, WritePre,
       WriteUpper, WriteLower, WriteFinalize, EndCycle, RegWrite
  <2> QED  BY <1>2, <2>1
<1>8. sdram_reset' \in BOOLEAN
  BY DEF ZorroStep, Cold, EnterReset, InReset, Configuring, Configured, ConfiguredClear,
     EnterResetDvid, ResetDvid, Z3Idle, ReadUpper, ReadLower, ReadDelay1, ReadDelay2, WritePre,
     WriteUpper, WriteLower, WriteFinalize, EndCycle, RegWrite
<1> QED  BY <1>4, <1>5, <1>6, <1>7, <1>8

LEMMA BlitterStartTyped ==
  ASSUME CardTyped
  PROVE  BlitterStarted \in BlitRecords
<1>0. blit \in BlitRecords  BY DEF CardTyped, JobsTyped
<1>1. blit.rgb \in Words /\ blit.rgb32[0] \in Words  BY <1>0, BlitterFields
<1>2. (IF blit.colormode = 2 THEN blit.rgb32[0] ELSE blit.rgb) \in Words  BY <1>1
<1>3. BlitterStarted =
        [blit EXCEPT !.curx = blit.x1, !.cury = blit.y1, !.curx2 = blit.x3, !.cury2 = blit.y3,
                     !.dirx = (blit.x3 > blit.x4), !.diry = (blit.y3 > blit.y4),
                     !.ptr = blit.base, !.ptr2 = blit.base2, !.t = 1,
                     !.rgb = IF blit.colormode = 2 THEN blit.rgb32[0] ELSE blit.rgb]
  BY DEF BlitterStarted
<1> QED  BY <1>0, <1>2, <1>3, StartTyped

LEMMA ClockTyped ==
  ASSUME CardTyped, TypeInv, AnswersAreWords, Clock
  PROVE  CardTyped'
<1> DEFINE p == IF StartsBlitter THEN BlitterStarted ELSE blit
<1>1. p \in BlitRecords  BY BlitterStartTyped DEF CardTyped, JobsTyped
<1>2. ArbiterStep(p) /\ ZorroStep /\ Requests /\ Registers /\ Host /\ Scanout /\ CapturedVideo
  BY DEF Clock
<1> HIDE DEF p
<1>3. JobsTyped'
  BY <1>1, <1>2, ArbiterRefresh, ArbiterCopy, ArbiterCapture, ArbiterBlitter DEF JobsTyped
<1> QED  BY <1>2, <1>3, ArbiterPort, ArbiterLines, RequestsStep DEF CardTyped

-----------------------------------------------------------------------------
(* Power-up.  The controller is reset once, from an idle condition: the    *)
(* arbiter needs two edges before it may ask for anything, the Zorro       *)
(* machine as many before it asserts sdram_reset, and from then on the     *)
(* controller is not ready.                                                *)

Settled == state \in ClosedStates /\ ~got_transaction

PowerUp ==
  /\ ~znrst
  /\ zorro = "COLD" => arb = "READY"
  /\ zorro = "RESET" => arb = "READY2"
  /\ zorro \in {"COLD", "RESET"} => ~ram_enable /\ ~sdram_reset /\ Settled
  /\ sdram_reset => /\ zorro \in {"DECIDE_Z2_Z3", "Z3_CONFIGURING", "CONFIGURED"}
                    /\ Settled /\ ~(ready_for_new /\ ram_enable)

LEMMA SettledStays ==
  ASSUME NEW in, SDRAMClock(in), Settled, ~Accepts(in)
  PROVE  Settled' /\ (in.reset => ~ready_for_new')
<1>1. ControllerState(in)  BY DEF SDRAMClock
<1>2. CASE IdleWait(in)
  <2>1. /\ state \in DOMAIN AfterWait /\ state' \in {AfterWait[state], "startup"}
        /\ ~got_transaction' /\ (in.reset => ~ready_for_new')
    BY <1>2 DEF IdleWait, Keep, Goto, Settled
  <2> QED  BY <2>1 DEF AfterWait, Settled, ClosedStates
<1>3. CASE Startup(in) \/ LoadMode(in) \/ IdleNop(in)
  BY <1>3 DEF Startup, LoadMode, IdleNop, Keep, Reopen, Goto, Settled, ClosedStates
<1>4. CASE ~IdleWait(in) /\ ~Startup(in) /\ ~LoadMode(in) /\ ~IdleNop(in)
  BY <1>1, <1>4 DEF ControllerState, Settled, ClosedStates, Activate, OpenIn2, OpenIn1, Read1,
     BurstRead, BurstTerminate, ReadTail, AfterRead, Write1, Write2, Write3, Precharge
<1> QED  BY <1>2, <1>3, <1>4

LEMMA PowerUpStep ==
  ASSUME ~ResetAllowed, CardTyped, PowerUp, Clock
  PROVE  PowerUp'
<1>1. ~znrst'  BY DEF Clock, ResetLine, PowerUp
<1>2. SDRAMClock(Port(sdram_reset)) /\ ZorroStep  BY DEF Clock
<1>3. PICK p \in {BlitterStarted, blit} : ArbiterStep(p)  BY DEF Clock
<1>4. /\ Port(sdram_reset).reset = sdram_reset
      /\ Accepts(Port(sdram_reset)) = (ready_for_new /\ ram_enable)
  BY DEF Port, Accepts
<1>5. zorro' # "COLD" /\ (zorro' = "RESET" => zorro = "COLD")
  <2>1. CASE Z3Idle
    <3>1. bus.op.kind \in {"read", "write", "reg"}
      BY DEF CardTyped, RequestsTyped, HostRecords
    <3>2. FirstState[bus.op.kind] \in {"Z3_READ_UPPER", "Z3_WRITE_PRE", "Z3_REGWRITE"}
      BY <3>1 DEF FirstState
    <3> QED  BY <2>1, <3>2 DEF Z3Idle, ZAt, ZTo
  <2>2. CASE ~Z3Idle
    BY <1>2, <2>2 DEF PowerUp, ZorroStep, ZAt, ZTo, Forced, Cold, EnterReset, InReset, Configuring,
       Configured, ConfiguredClear, EnterResetDvid, ResetDvid, ReadUpper, ReadLower, ReadDelay1,
       ReadDelay2, WritePre, WriteUpper, WriteLower, WriteFinalize, EndCycle, RegWrite
  <2> QED  BY <2>1, <2>2
<1>6. CASE zorro = "COLD"
  <2>1. Cold  BY <1>2, <1>6 DEF PowerUp, ZorroStep, ZAt, Forced, EnterReset, InReset, Configuring,
     Configured, ConfiguredClear, EnterResetDvid, ResetDvid, Z3Idle, ReadUpper, ReadLower, ReadDelay1,
     ReadDelay2, WritePre, WriteUpper, WriteLower, WriteFinalize, EndCycle, RegWrite
  <2>2. zorro' = "RESET" /\ ~sdram_reset'  BY <1>6, <2>1 DEF Cold, ZTo, PowerUp
  <2>3. Settled'  BY <1>2, <1>4, <1>6, SettledStays DEF PowerUp
  <2>4. Ready
    BY <1>3, <1>6 DEF PowerUp, ArbiterStep, At, FetchNext, FetchDone, BurstOn, FetchingRow, BurstOff,
       NobodyServed, Grants, FillGranted, GrantFetch, GrantWrite, GrantRead, FillPixel, FillRow,
       FillEnd, GrantCopyRead, GrantCopyWrite, CaptureWord, CaptureEnd, GrantRefresh, RefreshPre,
       Refresh, RefreshEnd, WriteEnd1, WriteEnd, CopyRead1, CopyRead, CopyWrite, CopyWriteWaits,
       ReadingZorroPre, ReadingZorro, WritingZorroPre, WritingZorro
  <2>5. arb' = "READY2" /\ ~ram_enable'  BY <2>4 DEF Ready, To, Enable, SetPort
  <2> QED  BY <1>1, <2>2, <2>3, <2>5 DEF PowerUp
<1>7. CASE zorro = "RESET"
  <2>1. Settled'  BY <1>2, <1>4, <1>7, SettledStays DEF PowerUp
  <2>2. ~ram_enable'
    <3>1. FetchNext \/ FetchDone
      BY <1>3, <1>7 DEF PowerUp, ArbiterStep, At, Ready, BurstOn, FetchingRow, BurstOff,
         NobodyServed, Grants, FillGranted, GrantFetch, GrantWrite, GrantRead, FillPixel, FillRow,
         FillEnd, GrantCopyRead, GrantCopyWrite, CaptureWord, CaptureEnd, GrantRefresh, RefreshPre,
         Refresh, RefreshEnd, WriteEnd1, WriteEnd, CopyRead1, CopyRead, CopyWrite, CopyWriteWaits,
         ReadingZorroPre, ReadingZorro, WritingZorroPre, WritingZorro
    <3> QED  BY <1>7, <3>1 DEF FetchNext, FetchDone, EnableBurst, SetPort, PowerUp
  <2>3. zorro' = "DECIDE_Z2_Z3"
    BY <1>2, <1>7 DEF PowerUp, ZorroStep, ZAt, ZTo, Forced, Cold, EnterReset, InReset, Configuring,
       Configured, ConfiguredClear, EnterResetDvid, ResetDvid, Z3Idle, ReadUpper, ReadLower,
       ReadDelay1, ReadDelay2, WritePre, WriteUpper, WriteLower, WriteFinalize, EndCycle, RegWrite
  <2> QED  BY <1>1, <2>1, <2>2, <2>3 DEF PowerUp
<1>8. CASE zorro \notin {"COLD", "RESET"}
  <2>1. sdram_reset' =>
          sdram_reset /\ zorro' \in {"DECIDE_Z2_Z3", "Z3_CONFIGURING", "CONFIGURED"}
    <3>1. CASE Configuring \/ Configured
      BY <3>1 DEF Configuring, Configured, ZAt, ZTo, PowerUp
    <3>2. CASE ~Configuring /\ ~Configured
      BY <1>2, <1>8, <3>2 DEF PowerUp, ZorroStep, ZAt, ZTo, Forced, Cold, EnterReset, InReset,
         ConfiguredClear, EnterResetDvid, ResetDvid, Z3Idle, ReadUpper, ReadLower,
         ReadDelay1, ReadDelay2, WritePre, WriteUpper, WriteLower, WriteFinalize, EndCycle, RegWrite
    <3> QED  BY <3>1, <3>2
  <2>2. sdram_reset => Settled' /\ ~ready_for_new'
    BY <1>2, <1>4, SettledStays DEF PowerUp
  <2>3. zorro' \notin {"COLD", "RESET"}  BY <1>5, <1>8
  <2> QED  BY <1>1, <2>1, <2>2, <2>3 DEF PowerUp
<1> QED  BY <1>6, <1>7, <1>8

-----------------------------------------------------------------------------
(* The card.                                                               *)

CardInv == SafeInv /\ AnswerInv /\ BusTurned /\ CardTyped /\ PowerUp

LEMMA CardStarts == CardInit => CardInv
<1> SUFFICES ASSUME CardInit PROVE CardInv  OBVIOUS
<1>1. SDRAMInit /\ ArbiterInit  BY DEF CardInit
<1>2. SafeInv /\ AnswerInv  BY <1>1, InitSafe, InitAnswers
<1>3. BusTurned
  BY <1>1 DEF SDRAMInit, ControllerInit, ChipInit, Idle, BusTurned, WriteRuns, WriteStates
<1>4. AnyWord \in Words  BY <1>1, <1>2 DEF SDRAMInit, ControllerInit, SafeInv, TypeInv, TypeOK, ControllerTypeOK
<1>5. PortTyped
  <2>1. /\ ram_enable = FALSE /\ ram_write = FALSE /\ ram_byte_enable = {} /\ ram_addr = 0
        /\ ram_data_in = AnyWord /\ ram_data_in_next = AnyWord /\ ram_burst_size = 0
    BY <1>1 DEF ArbiterInit
  <2>2. {} \in SUBSET Lanes /\ 0 \in Int /\ 0 \in Modes /\ FALSE \in BOOLEAN  BY DEF Modes
  <2>3. ram_enable \in BOOLEAN /\ ram_write \in BOOLEAN  BY <2>1
  <2>4. ram_byte_enable \in SUBSET Lanes /\ ram_addr \in Int /\ ram_burst_size \in Modes
    BY <2>1, <2>2
  <2>5. ram_data_in \in Words /\ ram_data_in_next \in Words  BY <1>4, <2>1
  <2> QED  BY <2>3, <2>4, <2>5 DEF PortTyped
<1>6. LineTyped  BY <1>1 DEF ArbiterInit, LineTyped
<1>7. JobsTyped
  <2>1. CaptureBase \in Int  BY SizesAssumption
  <2>2. cap \in CapRecords  BY <1>1, <2>1, AddrType DEF ArbiterInit, CapRecords
  <2>3. copy \in CopyRecords  BY <1>1, <1>4 DEF ArbiterInit, CopyRecords
  <2>4. refresh \in RefreshRecords  BY <1>1 DEF ArbiterInit, RefreshRecords
  <2>5. blit \in BlitRecords  BY <1>1, HostAssumption DEF ArbiterInit
  <2> QED  BY <2>2, <2>3, <2>4, <2>5 DEF JobsTyped
<1>8. RequestsTyped
  <2>1. PICK o \in HostOps : bus = [active |-> FALSE, op |-> o]  BY DEF CardInit
  <2>2. bus \in [active : BOOLEAN, op : HostRecords]  BY <2>1, HostAssumption
  <2>3. zorro_ram_write \in [addr : Int, bytes : SUBSET Lanes, data : Words]
    BY <1>1, <1>4 DEF ArbiterInit
  <2>4. zorro_ram_read_addr \in Int  BY <1>1 DEF ArbiterInit
  <2>5. z3_ds = [h \in {0, 1} |-> {}]  BY DEF CardInit
  <2>6. z3_ds \in [{0, 1} -> SUBSET Lanes]  BY <2>5
  <2>7. sdram_reset \in BOOLEAN  BY DEF CardInit
  <2> QED  BY <2>2, <2>3, <2>4, <2>6, <2>7 DEF RequestsTyped
<1>9. PowerUp
  BY <1>1 DEF CardInit, ArbiterInit, SDRAMInit, ControllerInit, PowerUp, Settled, ClosedStates
<1> QED  BY <1>2, <1>3, <1>5, <1>6, <1>7, <1>8, <1>9 DEF CardInv, CardTyped

LEMMA CardStep ==
  ASSUME ~ResetAllowed, CardInv, [Clock]_cardVars
  PROVE  CardInv'
<1>1. CASE Clock
  <2>1. SDRAMClock(Port(sdram_reset))  BY <1>1 DEF Clock
  <2>2. Port(sdram_reset) \in ClientInputs  BY PortIsClientInput DEF CardInv
  <2>3. QuietReset(Port(sdram_reset))  BY DEF QuietReset, Port, CardInv, PowerUp, Settled
  <2>4. SafeInv' /\ AnswerInv' /\ BusTurned'
    BY <2>1, <2>2, <2>3, ClockSafe, ClockAnswers, ClockTurned DEF CardInv
  <2>5. CardTyped'  BY <1>1, ClockTyped DEF CardInv, SafeInv, AnswerInv
  <2>6. PowerUp'  BY <1>1, PowerUpStep DEF CardInv
  <2> QED  BY <2>4, <2>5, <2>6 DEF CardInv
<1>2. CASE UNCHANGED cardVars
  <2>1. UNCHANGED sdramVars  BY <1>2 DEF cardVars
  <2>2. SafeInv'
    <3>1. TypeInv' = TypeInv
      BY <2>1 DEF sdramVars, ctrlVars, chipVars, TypeInv, TypeOK, ControllerTypeOK, ChipTypeOK,
         PinsMeaningful
    <3> QED  BY <2>1, <3>1 DEF CardInv, SafeInv, sdramVars, ctrlVars, chipVars, OneRow, PinsFit,
         Handshake, RowFits, CommandsLegal, AllClosed, RowsAfter
  <2>3. AnswerInv' /\ BusTurned'
    BY <2>1 DEF CardInv, sdramVars, ctrlVars, chipVars, AnswerInv, DelayFits, BurstRuns,
       AnswersAreWords, ChipAnswers, ReadsNow, BankNow, ModeAfter, BusTurned, WriteRuns
  <2>4. CardTyped'
    BY <1>2 DEF CardInv, CardTyped, PortTyped, LineTyped, JobsTyped, RequestsTyped, cardVars, portVars,
       fetchVars, requestVars, inputVars, zorroVars
  <2>5. PowerUp'
    BY <1>2, <2>1 DEF CardInv, PowerUp, Settled, cardVars, sdramVars, ctrlVars, portVars, zorroVars
  <2> QED  BY <2>2, <2>3, <2>4, <2>5 DEF CardInv
<1> QED  BY <1>1, <1>2

LEMMA CardAlways ==
  ASSUME ~ResetAllowed
  PROVE  CardSpec => []CardInv
<1>1. CardInv /\ [Clock]_cardVars => CardInv'  BY CardStep
<1> QED  BY <1>1, CardStarts, PTL DEF CardSpec

(* On the card, with any chip, screen, program of the blitter, captured    *)
(* video and pace of the host, no command meets a row in the wrong         *)
(* condition: the port's addresses fit the chip, its burst lengths are     *)
(* ones the controller knows, and the reset at power-up leaves no row open.*)
THEOREM CardCommandsLegal ==
  ASSUME ~ResetAllowed
  PROVE  CardSpec => []CommandsLegal
<1>1. CardInv => CommandsLegal  BY DEF CardInv, SafeInv
<1> QED  BY <1>1, CardAlways, PTL

(* On the card every word the chip is told to store is on the bus: the     *)
(* controller never has it released while a single write, a captured pair  *)
(* or the rest of one is going on.                                         *)
THEOREM CardWritesDriven ==
  ASSUME ~ResetAllowed
  PROVE  CardSpec => []WriteDrivesBus
<1>1. CardInv => WriteDrivesBus  BY DEF CardInv, BusTurned, WriteRuns, WriteDrivesBus, WritesNow
<1> QED  BY <1>1, CardAlways, PTL

(* On the card data_out_ready is raised only for words of the chip, in     *)
(* full-page line fetches too: none of the arbiter's users ever takes the  *)
(* released bus for an answer.                                             *)
THEOREM CardAnswersAreWords ==
  ASSUME ~ResetAllowed
  PROVE  CardSpec => []AnswersAreWords
<1>1. CardInv => AnswersAreWords  BY DEF CardInv, AnswerInv
<1> QED  BY <1>1, CardAlways, PTL

-----------------------------------------------------------------------------
(* The first LOAD_MODE.  Until it is on the pins the arbiter is on its way *)
(* to the first line fetch, the only user with a full-page burst, and the  *)
(* controller has opened nothing.                                          *)

FirstLoad ==
  ModeAfter = Unset =>
    /\ state \in ClosedStates /\ iob.cmd = "NOP" /\ burst_old = 0
    /\ data_ready_delay = {} /\ ~data_out_ready
    /\ \/ arb \in {"READY", "READY2"} /\ ~row_fetched /\ ~ram_enable /\ ~got_transaction
       \/ arb = "BURST_ON" /\ ~ram_enable /\ ~got_transaction /\ ram_burst_size = 7
       \/ arb = "FETCHING_ROW" /\ ram_burst_size = 7

\* The controller, while the chip's mode register is not loaded.
LEMMA NotLoadedStep ==
  ASSUME CardInv, CardInv', FirstLoad, Clock, ModeAfter' = Unset
  PROVE  /\ ModeAfter = Unset
         /\ state' \in ClosedStates /\ iob'.cmd = "NOP" /\ burst_old' = 0
         /\ data_ready_delay' = {} /\ ~data_out_ready'
         /\ ~ram_enable /\ ~got_transaction => ~got_transaction'
<1> DEFINE in == Port(sdram_reset)
<1>0. SDRAMClock(in) /\ in.burst = ram_burst_size /\ Accepts(in) = (ready_for_new /\ ram_enable)
  BY DEF Clock, Port, Accepts
<1> HIDE DEF in
<1>1. iob'.cmd # "LOAD_MODE"
  <2>1. TypeInv'  BY DEF CardInv, SafeInv
  <2>2. iob'.cmd = "LOAD_MODE" => iob'.addr \in Modes
    BY <2>1 DEF TypeInv, PinsMeaningful
  <2> QED  BY <2>2, SentinelAssumption DEF ModeAfter
<1>2. ModeAfter = Unset  BY <1>0, <1>1 DEF SDRAMClock, Chip, ModeAfter
<1>3. /\ state \in ClosedStates /\ iob.cmd = "NOP" /\ burst_old = 0 /\ data_ready_delay = {}
      /\ got_transaction => ram_burst_size = 7
  BY <1>2 DEF FirstLoad
<1>4. iob \in Pins  BY DEF CardInv, SafeInv, TypeInv, TypeOK, ControllerTypeOK
<1>5. ControllerState(in)  BY <1>0 DEF SDRAMClock
<1>6. CASE Startup(in)
  BY <1>2, <1>3, <1>6 DEF Startup, Reopen, Goto, DelayLine, ClosedStates
<1>7. CASE IdleWait(in)
  <2>1. /\ state \in DOMAIN AfterWait /\ state' \in {AfterWait[state], "startup"}
        /\ got_transaction' = (got_transaction \/ Accepts(in)) /\ DelayLine(FALSE)
        /\ burst_old' = burst_old
    BY <1>7 DEF IdleWait, Keep, Goto
  <2>2. iob' = iob \/ iob' = [iob EXCEPT !.cmd = "NOP"]  BY <1>7 DEF IdleWait
  <2>3. iob'.cmd = "NOP"  BY <1>3, <1>4, <2>2 DEF Pins
  <2>4. state' \in ClosedStates  BY <2>1 DEF AfterWait, ClosedStates
  <2>5. data_ready_delay' = {} /\ ~data_out_ready'  BY <1>3, <2>1 DEF DelayLine
  <2> QED  BY <1>0, <1>2, <1>3, <2>1, <2>3, <2>4, <2>5
<1>8. CASE IdleNop(in)
  <2>1. iob'.cmd = "NOP"  BY <1>4, <1>8 DEF IdleNop, Pins
  <2> QED  BY <1>0, <1>2, <1>3, <1>8, <2>1 DEF IdleNop, Keep, Goto, ClosedStates, DelayLine
<1>9. ~LoadMode(in)  BY <1>1, <1>4 DEF LoadMode, Pins
<1>10. ~Activate(in)
  <2>1. Activate(in) => got_transaction /\ in.burst = burst_old  BY DEF Activate
  <2>2. ram_burst_size = 7 => in.burst # burst_old  BY <1>0, <1>3
  <2> QED  BY <1>3, <2>1, <2>2
<1>11. CASE ~(Startup(in) \/ IdleWait(in) \/ IdleNop(in))
  BY <1>3, <1>5, <1>9, <1>10, <1>11 DEF ControllerState, ClosedStates, OpenIn2, OpenIn1, Read1,
     BurstRead, BurstTerminate, ReadTail, AfterRead, Write1, Write2, Write3, Precharge
<1> QED  BY <1>6, <1>7, <1>8, <1>11

LEMMA FirstLoadStep ==
  ASSUME CardInv, CardInv', FirstLoad, Clock
  PROVE  FirstLoad'
<1> SUFFICES ASSUME ModeAfter' = Unset  PROVE FirstLoad'  BY DEF FirstLoad
<1>1. PICK p \in {BlitterStarted, blit} : ArbiterStep(p)  BY DEF Clock
<1>2. arb \in {"READY", "READY2", "BURST_ON", "FETCHING_ROW"} /\ ~data_out_ready
  BY NotLoadedStep DEF FirstLoad
<1>3. /\ arb = "READY2" => ~row_fetched /\ ~ram_enable
      /\ arb = "READY" => ~row_fetched
      /\ arb \in {"BURST_ON", "FETCHING_ROW"} => ram_burst_size = 7
  BY NotLoadedStep DEF FirstLoad
<1>4. Ready \/ FetchNext \/ BurstOn \/ FetchingRow
  BY <1>1, <1>2, <1>3 DEF ArbiterStep, At, FetchDone, BurstOff,
     NobodyServed, Grants, FillGranted, GrantFetch, GrantWrite, GrantRead, FillPixel, FillRow,
     FillEnd, GrantCopyRead, GrantCopyWrite, CaptureWord, CaptureEnd, GrantRefresh, RefreshPre,
     Refresh, RefreshEnd, WriteEnd1, WriteEnd, CopyRead1, CopyRead, CopyWrite, CopyWriteWaits,
     ReadingZorroPre, ReadingZorro, WritingZorroPre, WritingZorro
<1>5. CASE Ready
  <2>1. arb = "READY" /\ arb' = "READY2" /\ ~ram_enable' /\ row_fetched' = row_fetched
    BY <1>5 DEF Ready, At, To, Enable, SetPort
  <2>2. ~ram_enable /\ ~got_transaction /\ ~row_fetched  BY <2>1, NotLoadedStep DEF FirstLoad
  <2> QED  BY <2>1, <2>2, NotLoadedStep DEF FirstLoad
<1>6. CASE FetchNext
  <2>1. /\ arb = "READY2" /\ arb' \in {"READY2", "BURST_ON"} /\ ram_enable' = ram_enable
        /\ row_fetched' = row_fetched /\ ram_burst_size' = 7
    BY <1>6 DEF FetchNext, At, SetPort
  <2>2. ~ram_enable /\ ~got_transaction /\ ~row_fetched  BY <2>1, NotLoadedStep DEF FirstLoad
  <2> QED  BY <2>1, <2>2, NotLoadedStep DEF FirstLoad
<1>7. CASE BurstOn
  <2>1. /\ arb = "BURST_ON" /\ ram_burst_size' = ram_burst_size
        /\ \/ arb' = "FETCHING_ROW"
           \/ arb' = "BURST_ON" /\ ram_enable' = ram_enable
    BY <1>7 DEF BurstOn, At, To, ReadAt, SetPort, portVars
  <2>2. ~ram_enable /\ ~got_transaction /\ ram_burst_size = 7  BY <2>1, NotLoadedStep DEF FirstLoad
  <2>3. ram_burst_size' = 7 /\ (arb' = "BURST_ON" => ~ram_enable' /\ ~got_transaction')
    BY <2>1, <2>2, NotLoadedStep
  <2>4. arb' \in {"BURST_ON", "FETCHING_ROW"}  BY <2>1
  <2> QED  BY <2>3, <2>4, NotLoadedStep DEF FirstLoad
<1>8. CASE FetchingRow
  <2>1. arb = "FETCHING_ROW" /\ arb' = "FETCHING_ROW" /\ ram_burst_size' = ram_burst_size
    BY <1>2, <1>8 DEF FetchingRow, At, portVars
  <2> QED  BY <1>3, <2>1, NotLoadedStep DEF FirstLoad
<1> QED  BY <1>4, <1>5, <1>6, <1>7, <1>8

(* Although neither the startup sequence nor a reset loads the mode        *)
(* register, the chip is never read or written before LOAD_MODE: on the    *)
(* card the first access is always a line fetch, whose burst length        *)
(* differs from the one the controller believes to be loaded.              *)
THEOREM CardLoadsMode ==
  ASSUME ~ResetAllowed
  PROVE  CardSpec => []ModeLoadedBeforeUse
<1>1. CardInit => FirstLoad
  BY DEF CardInit, ArbiterInit, SDRAMInit, ControllerInit, FirstLoad, ClosedStates
<1>2. CardInv /\ FirstLoad /\ [Clock]_cardVars => FirstLoad'
  <2> SUFFICES ASSUME CardInv, FirstLoad, [Clock]_cardVars PROVE FirstLoad'  OBVIOUS
  <2>1. CASE Clock
    BY <2>1, CardStep, FirstLoadStep
  <2>2. CASE UNCHANGED cardVars
    BY <2>2 DEF cardVars, sdramVars, ctrlVars, chipVars, portVars, fetchVars, FirstLoad, ModeAfter
  <2> QED  BY <2>1, <2>2
<1>3. CardInv /\ FirstLoad => ModeLoadedBeforeUse
  BY DEF FirstLoad, ModeAfter, ModeLoadedBeforeUse
<1>4. CardInv /\ [Clock]_cardVars => CardInv'  BY CardStep
<1> QED  BY <1>1, <1>2, <1>3, <1>4, CardStarts, PTL DEF CardSpec

-----------------------------------------------------------------------------
(* The ranges of the registers.  Most are kept register by register.  The  *)
(* count of the words copied into the buffer is not: an answer counts as a *)
(* word of the copy whatever it was read for, so the copy must start with  *)
(* no read of anyone else left in the controller or in its delay line.     *)

ReadStates == {"read_1", "read_2", "read_3", "read_4", "burst_read"}

\* No read is held, under way or still to be answered.
NoReadsOut ==
  /\ data_ready_delay = {} /\ ~data_out_ready /\ state \notin ReadStates
  /\ got_transaction \/ state \in {"open_in_2", "open_in_1"} => save.wr

\* The controller calls its queue empty an edge late: a read put on the pins
\* meanwhile is seen in its state.
QueueTold ==
  queue_empty => /\ ~data_out_ready
                 /\ state \notin {"read_2", "burst_read"} => data_ready_delay = {}

\* When the port is given away, only a write may still be on it.
PortQuiet ==
  /\ arb \in {"REFRESH_END", "BLIT_COPY_READ1"} => ~ram_enable
  /\ arb = "ROW_FETCHED" => (ram_enable => ram_write)

\* Until a copy has issued its first read there is nothing to answer.
CopyStarts ==
  arb = "BLIT_COPY_READ1" \/ (arb = "BLIT_COPY_READ" /\ copy.issued = 0) =>
    NoReadsOut /\ ~ram_enable

LEMMA QueueToldStep ==
  ASSUME NEW in, SDRAMClock(in), in.reset => state \in ClosedStates
  PROVE  QueueTold'
<1>1. ControllerState(in)  BY DEF SDRAMClock
<1>2. CASE Read1(in) \/ BurstRead(in)
  <2>1. state' \in {"read_2", "burst_read"} /\ DelayLine(TRUE)
    BY <1>2 DEF Read1, BurstRead, Keep, Goto, ClosedStates
  <2> QED  BY <2>1 DEF DelayLine, QueueTold
<1>3. CASE ~Read1(in) /\ ~BurstRead(in)
  <2>1. DelayLine(FALSE)
    BY <1>1, <1>3 DEF ControllerState, Startup, IdleWait, LoadMode, Activate, IdleNop, OpenIn2,
       OpenIn1, BurstTerminate, ReadTail, Write1, Write2, Write3, Precharge
  <2> QED  BY <2>1 DEF DelayLine, QueueTold
<1> QED  BY <1>2, <1>3

\* A client that offers nothing but writes leaves no read in the controller.
LEMMA NoReadsStep ==
  ASSUME NEW in, SDRAMClock(in), NoReadsOut, Accepts(in) => in.wr
  PROVE  NoReadsOut'
<1>1. ControllerState(in)  BY DEF SDRAMClock
<1>2. /\ Accepts(in) => save'.wr
      /\ ~Accepts(in) => save' = save
  BY DEF SDRAMClock, Latch
<1>3. DelayLine(FALSE)
  BY <1>1 DEF NoReadsOut, ReadStates, ControllerState, Startup, IdleWait, LoadMode, Activate,
     IdleNop, OpenIn2, OpenIn1, Read1, BurstRead, BurstTerminate, ReadTail, Write1, Write2, Write3,
     Precharge
<1>4. data_ready_delay' = {} /\ ~data_out_ready'  BY <1>3 DEF DelayLine, NoReadsOut
<1>5. CASE IdleWait(in)
  <2>1. /\ state \in DOMAIN AfterWait /\ state' \in {AfterWait[state], "startup"}
        /\ got_transaction' = (got_transaction \/ Accepts(in))
    BY <1>5 DEF IdleWait, Keep, Goto
  <2>2. state' \in ClosedStates  BY <2>1 DEF AfterWait, ClosedStates
  <2>3. got_transaction' => save'.wr  BY <1>2, <2>1 DEF NoReadsOut
  <2> QED  BY <1>4, <2>2, <2>3 DEF NoReadsOut, ReadStates, ClosedStates
<1>6. CASE Startup(in) \/ LoadMode(in) \/ Activate(in) \/ IdleNop(in) \/ OpenIn2(in) \/ OpenIn1(in)
  BY <1>2, <1>4, <1>6 DEF NoReadsOut, ReadStates, Startup, LoadMode, Activate, IdleNop, OpenIn2,
     OpenIn1, Keep, Reopen, Goto
<1>7. CASE Write1(in) \/ Write2(in) \/ Write3(in) \/ Precharge(in)
  BY <1>2, <1>4, <1>7 DEF NoReadsOut, ReadStates, Write1, Write2, Write3, Precharge, Keep, Reopen,
     Goto
<1>8. ~(Read1(in) \/ BurstRead(in) \/ BurstTerminate(in) \/ ReadTail(in))
  BY DEF NoReadsOut, ReadStates, Read1, BurstRead, BurstTerminate, ReadTail, AfterRead
<1> QED  BY <1>1, <1>5, <1>6, <1>7, <1>8 DEF ControllerState

AddressesTyped ==
  /\ ram_addr \in Addresses /\ fetch_y \in Addresses /\ refresh.addr \in Addresses
  /\ zorro_ram_write.addr \in Addresses /\ zorro_ram_read_addr \in Addresses

CountersTyped ==
  /\ fetch_x \in -margin_x .. FETCHW + 2
  /\ arb \in {"BURST_ON", "FETCHING_ROW"} => fetch_x <= FETCHW + 1
  /\ refresh.warm \in 0 .. refresh_warm_max /\ refresh.cool \in 0 .. refresh_cool_max
  /\ copy.counter \in 0 .. BLITTER_COPY_SIZE /\ copy.issued \in 0 .. BLITTER_COPY_SIZE
  /\ cap.x \in 0 .. CaptureWidth

HostTyped ==
  /\ bus.op \in HostOps /\ zorro \in ZorroStates
  /\ row_fetched \in BOOLEAN /\ videocap_mode \in BOOLEAN /\ x_safe_area \in BOOLEAN
  /\ dtack \in BOOLEAN /\ znrst \in BOOLEAN /\ dvid_reset \in BOOLEAN
  /\ zorro_ram_write_request \in BOOLEAN /\ zorro_ram_read_request \in BOOLEAN
  /\ zorro_ram_read_done \in BOOLEAN
  /\ zorro_ram_read_data \in Words /\ z3_read_data \in Words
  /\ need_row_fetch_y \in 0 .. Lines - 1 /\ fetch_line_y \in 0 .. Lines
  /\ dvid_reset_counter \in 0 .. 2
  /\ blitter_enable \in {0, 1, 2, 4}

RangeInv ==
  /\ arb \in ArbiterStates /\ PortQuiet /\ QueueTold /\ CopyStarts
  /\ AddressesTyped /\ CountersTyped /\ HostTyped

LEMMA AddrInRange ==
  ASSUME NEW a \in Int
  PROVE  Addr(a) \in Addresses
<1>1. Size \in Nat \ {0}  BY GeometryAssumption DEF Size, NCols
<1> QED  BY <1>1 DEF Addr, Addresses

LEMMA ArbiterStateStep ==
  ASSUME arb \in ArbiterStates, NEW p, ArbiterStep(p)
  PROVE  arb' \in ArbiterStates
<1>1. CASE Ready \/ FetchNext \/ FetchDone \/ BurstOn \/ FetchingRow \/ BurstOff
  BY <1>1 DEF ArbiterStates, To, Ready, FetchNext, FetchDone, BurstOn, FetchingRow, BurstOff
<1>2. CASE NobodyServed \/ GrantFetch \/ GrantWrite \/ GrantRead \/ FillPixel \/ FillRow \/ FillEnd
           \/ GrantCopyRead \/ GrantCopyWrite \/ CaptureWord \/ CaptureEnd \/ GrantRefresh
  BY <1>2 DEF ArbiterStates, To, NobodyServed, GrantFetch, GrantWrite, GrantRead, FillPixel, FillRow,
     FillEnd, GrantCopyRead, GrantCopyWrite, CaptureWord, CaptureEnd, GrantRefresh
<1>3. CASE RefreshPre \/ Refresh \/ RefreshEnd \/ WriteEnd1 \/ WriteEnd \/ CopyRead1 \/ CopyRead
           \/ CopyWrite \/ CopyWriteWaits
  BY <1>3 DEF ArbiterStates, To, RefreshPre, Refresh, RefreshEnd, WriteEnd1, WriteEnd, CopyRead1,
     CopyRead, CopyWrite, CopyWriteWaits
<1>4. CASE ReadingZorroPre \/ ReadingZorro \/ WritingZorroPre \/ WritingZorro
  BY <1>4 DEF ArbiterStates, To, ReadingZorroPre, ReadingZorro, WritingZorroPre, WritingZorro
<1> QED  BY <1>1, <1>2, <1>3, <1>4 DEF ArbiterStep

\* Every user of the port but a fill and a capture takes cmd_enable back
\* before it returns to RAM_ROW_FETCHED, and these two write.
LEMMA PortQuietStep ==
  ASSUME PortQuiet, NEW p, ArbiterStep(p)
  PROVE  PortQuiet'
<1>1. CASE Ready \/ FetchNext \/ FetchDone \/ BurstOn \/ FetchingRow
  BY <1>1 DEF PortQuiet, At, To, Ready, FetchNext, FetchDone, BurstOn, FetchingRow
<1>2. CASE BurstOff \/ Refresh \/ WriteEnd \/ ReadingZorro \/ WritingZorro
  BY <1>2 DEF PortQuiet, At, To, BurstOff, Refresh, WriteEnd, ReadingZorro, WritingZorro, Enable,
     SetPort
<1>3. CASE NobodyServed \/ GrantRefresh \/ RefreshEnd
  BY <1>3 DEF PortQuiet, At, To, Grants, NobodyServed, GrantRefresh, RefreshEnd, portVars
<1>4. CASE FillPixel \/ FillRow \/ FillEnd \/ CaptureWord \/ CaptureEnd
  BY <1>4 DEF PortQuiet, FillPixel, FillRow, FillEnd, CaptureWord, CaptureEnd, FillGranted, Grants,
     At, Enable, WriteAt, SetPort
<1>5. CASE GrantCopyRead \/ CopyRead1
  BY <1>5 DEF PortQuiet, At, Grants, GrantCopyRead, CopyRead1, Enable, SetPort
<1>6. CASE GrantFetch \/ GrantWrite \/ GrantRead \/ GrantCopyWrite \/ RefreshPre
  BY <1>6 DEF PortQuiet, At, To, GrantFetch, GrantWrite, GrantRead, GrantCopyWrite, RefreshPre
<1>7. CASE WriteEnd1 \/ CopyRead \/ CopyWrite \/ CopyWriteWaits \/ ReadingZorroPre \/ WritingZorroPre
  BY <1>7 DEF PortQuiet, At, To, WriteEnd1, CopyRead, CopyWrite, CopyWriteWaits, ReadingZorroPre,
     WritingZorroPre
<1> QED  BY <1>1, <1>2, <1>3, <1>4, <1>5, <1>6, <1>7 DEF ArbiterStep

\* The arbiter turns to the reads of a copy only from an idle controller with
\* an empty queue; a write that is accepted at that very edge does no harm.
LEMMA CopyStartsStep ==
  ASSUME CardInv, PortQuiet, QueueTold, CopyStarts, Clock
  PROVE  CopyStarts'
<1> DEFINE in == Port(sdram_reset)
<1>0. SDRAMClock(in) /\ Accepts(in) = (ready_for_new /\ ram_enable) /\ in.wr = ram_write
  BY DEF Clock, Port, Accepts
<1> HIDE DEF in
<1>1. PICK p \in {BlitterStarted, blit} : ArbiterStep(p)  BY DEF Clock
<1>2. NoReadsOut /\ (ram_enable => ram_write) => NoReadsOut'  BY <1>0, NoReadsStep
<1>3. CASE GrantCopyRead
  <2>1. arb = "ROW_FETCHED" /\ cmd_ready /\ ~ram_enable'
    BY <1>3 DEF GrantCopyRead, Grants, At, Enable, SetPort
  <2>2. arb' # "ROW_FETCHED" => queue_empty /\ state = "idle"
    BY <1>3, <2>1 DEF GrantCopyRead, sdram_idle
  <2>3. arb' # "ROW_FETCHED" => NoReadsOut
    BY <2>1, <2>2 DEF CardInv, SafeInv, Handshake, QueueTold, NoReadsOut, ReadStates, cmd_ready
  <2> QED  BY <1>2, <2>1, <2>3 DEF PortQuiet, CopyStarts
<1>4. CASE CopyRead1
  <2>1. arb = "BLIT_COPY_READ1" /\ ~ram_enable'  BY <1>4 DEF CopyRead1, At, SetPort
  <2> QED  BY <1>2, <2>1 DEF CopyStarts
<1>5. CASE CopyRead
  <2>1. arb = "BLIT_COPY_READ" /\ arb' \in {"BLIT_COPY_READ", "WRITE_END1"}
    BY <1>5 DEF CopyRead, At
  <2>2. copy'.issued = IF CopyIssues THEN copy.issued + 1 ELSE copy.issued
    BY <1>5 DEF CopyRead, CardInv, CardTyped, JobsTyped, CopyRecords
  <2>3. copy.issued \in Nat  BY DEF CardInv, CardTyped, JobsTyped, CopyRecords
  <2>4. copy'.issued = 0 => copy.issued = 0 /\ ~CopyIssues
    <3>1. CASE CopyIssues
      <4>1. copy'.issued = copy.issued + 1  BY <2>2, <3>1
      <4> QED  BY <2>3, <4>1
    <3>2. CASE ~CopyIssues
      BY <2>2, <3>2
    <3> QED  BY <3>1, <3>2
  <2>5. ~CopyIssues /\ ~ram_enable => ~ram_enable'  BY <1>5 DEF CopyRead, Enable, SetPort
  <2> QED  BY <1>2, <2>1, <2>4, <2>5 DEF CopyStarts
<1>6. CASE ~GrantCopyRead /\ ~CopyRead1 /\ ~CopyRead
  <2>1. arb' \notin {"BLIT_COPY_READ1", "BLIT_COPY_READ"}
    <3>1. CASE Ready \/ FetchNext \/ FetchDone \/ BurstOn \/ FetchingRow \/ BurstOff
      BY <3>1 DEF At, To, Ready, FetchNext, FetchDone, BurstOn, FetchingRow, BurstOff
    <3>2. CASE NobodyServed \/ GrantFetch \/ GrantWrite \/ GrantRead \/ FillPixel \/ FillRow
               \/ FillEnd \/ GrantCopyWrite \/ CaptureWord \/ CaptureEnd \/ GrantRefresh
      BY <3>2 DEF At, To, Grants, FillGranted, NobodyServed, GrantFetch, GrantWrite, GrantRead,
         FillPixel, FillRow, FillEnd, GrantCopyWrite, CaptureWord, CaptureEnd, GrantRefresh
    <3>3. CASE RefreshPre \/ Refresh \/ RefreshEnd \/ WriteEnd1 \/ WriteEnd \/ CopyWrite
               \/ CopyWriteWaits
      BY <3>3 DEF At, To, RefreshPre, Refresh, RefreshEnd, WriteEnd1, WriteEnd, CopyWrite,
         CopyWriteWaits
    <3>4. CASE ReadingZorroPre \/ ReadingZorro \/ WritingZorroPre \/ WritingZorro
      BY <3>4 DEF At, To, ReadingZorroPre, ReadingZorro, WritingZorroPre, WritingZorro
    <3> QED  BY <1>1, <1>6, <3>1, <3>2, <3>3, <3>4 DEF ArbiterStep
  <2> QED  BY <2>1 DEF CopyStarts
<1> QED  BY <1>3, <1>4, <1>5, <1>6

LEMMA FetchCounterStep ==
  ASSUME CountersTyped, NEW p, ArbiterStep(p)
  PROVE  /\ fetch_x' \in -margin_x .. FETCHW + 2
         /\ arb' \in {"BURST_ON", "FETCHING_ROW"} => fetch_x' <= FETCHW + 1
<1>0. margin_x \in Nat /\ FETCHW \in Nat /\ FETCHW + 1 < 4096
  BY SizesAssumption, CountersAssumption
<1> USE DEF CountersTyped
<1>1. CASE FetchNext
  BY <1>0, <1>1 DEF FetchNext
<1>2. CASE GrantFetch
  BY <1>0, <1>2 DEF GrantFetch, To
<1>3. CASE FetchingRow
  <2>1. fetch_x <= FETCHW + 1 /\ fetch_x \in Int  BY <1>0, <1>3 DEF FetchingRow, At
  <2>2. fetch_x = FETCHW + 1 => Unsigned(fetch_x) > FETCHW  BY <1>0 DEF Unsigned
  <2>3. CASE data_out_ready
    <3>1. /\ fetch_x' = fetch_x + 1
          /\ Unsigned(fetch_x) > FETCHW => arb' = "READY"
      BY <1>3, <2>3 DEF FetchingRow
    <3> QED  BY <1>0, <2>1, <2>2, <3>1
  <2>4. CASE ~data_out_ready
    BY <1>0, <1>3, <2>1, <2>4 DEF FetchingRow
  <2> QED  BY <2>3, <2>4
<1>4. CASE Ready \/ FetchDone \/ BurstOn \/ BurstOff
  BY <1>4 DEF Ready, FetchDone, BurstOn, BurstOff, fetchVars, At, To
<1>5. CASE ~FetchNext /\ ~GrantFetch /\ ~FetchingRow /\ ~Ready /\ ~FetchDone /\ ~BurstOn /\ ~BurstOff
  <2>1. fetch_x' = fetch_x
    BY <1>5 DEF ArbiterStep, fetchVars, NobodyServed, GrantWrite, GrantRead, FillPixel, FillRow,
       FillEnd, GrantCopyRead, GrantCopyWrite, CaptureWord, CaptureEnd, GrantRefresh, RefreshPre,
       Refresh, RefreshEnd, WriteEnd1, WriteEnd, CopyRead1, CopyRead, CopyWrite, CopyWriteWaits,
       ReadingZorroPre, ReadingZorro, WritingZorroPre, WritingZorro
  <2>2. arb' \notin {"BURST_ON", "FETCHING_ROW"}
    BY <1>5 DEF ArbiterStep, At, To, Grants, FillGranted, NobodyServed, GrantWrite, GrantRead,
       FillPixel, FillRow, FillEnd, GrantCopyRead, GrantCopyWrite, CaptureWord, CaptureEnd,
       GrantRefresh, RefreshPre, Refresh, RefreshEnd, WriteEnd1, WriteEnd, CopyRead1, CopyRead,
       CopyWrite, CopyWriteWaits, ReadingZorroPre, ReadingZorro, WritingZorroPre, WritingZorro
  <2> QED  BY <2>1, <2>2
<1> QED  BY <1>1, <1>2, <1>3, <1>4, <1>5

LEMMA RefreshCountersStep ==
  ASSUME CardTyped, CountersTyped, AddressesTyped, NEW p, ArbiterStep(p)
  PROVE  /\ refresh'.warm \in 0 .. refresh_warm_max /\ refresh'.cool \in 0 .. refresh_cool_max
         /\ refresh'.addr \in Addresses
<1>0. refresh_warm_max \in Nat /\ refresh_cool_max \in Nat  BY CountersAssumption
<1>1. refresh \in RefreshRecords  BY DEF CardTyped, JobsTyped
<1>2. CASE GrantRefresh
  <2>1. refresh' \in {[refresh EXCEPT !.counter = refresh.counter + 1], [refresh EXCEPT !.counter = 0]}
    BY <1>2 DEF GrantRefresh
  <2> QED  BY <1>1, <2>1 DEF RefreshRecords, CountersTyped, AddressesTyped
<1>3. CASE RefreshPre
  <2>1. NCols \in Int  BY GeometryAssumption DEF NCols
  <2>2. Addr(refresh.addr + NCols) \in Addresses  BY <1>1, <2>1, AddrInRange DEF RefreshRecords
  <2>3. CASE refresh.warm >= refresh_warm_max
    <3>1. refresh' = [refresh EXCEPT !.warm = 0, !.addr = Addr(refresh.addr + NCols)]
      BY <1>3, <2>3 DEF RefreshPre
    <3>2. /\ refresh'.warm = 0 /\ refresh'.addr = Addr(refresh.addr + NCols)
          /\ refresh'.cool = refresh.cool
      BY <1>1, <3>1 DEF RefreshRecords
    <3> QED  BY <1>0, <2>2, <3>2 DEF CountersTyped
  <2>4. CASE ~(refresh.warm >= refresh_warm_max)
    <3>1. refresh' = [refresh EXCEPT !.warm = refresh.warm + 1]
      BY <1>3, <2>4 DEF RefreshPre
    <3> QED  BY <1>0, <1>1, <2>4, <3>1 DEF RefreshRecords, CountersTyped, AddressesTyped
  <2> QED  BY <2>3, <2>4
<1>4. CASE RefreshEnd
  <2>1. CASE refresh.cool >= refresh_cool_max
    <3>1. refresh' = [refresh EXCEPT !.cool = 0]  BY <1>4, <2>1 DEF RefreshEnd
    <3> QED  BY <1>0, <1>1, <3>1 DEF RefreshRecords, CountersTyped, AddressesTyped
  <2>2. CASE ~(refresh.cool >= refresh_cool_max)
    <3>1. refresh' = [refresh EXCEPT !.cool = refresh.cool + 1]  BY <1>4, <2>2 DEF RefreshEnd
    <3> QED  BY <1>0, <1>1, <2>2, <3>1 DEF RefreshRecords, CountersTyped, AddressesTyped
  <2> QED  BY <2>1, <2>2
<1>5. CASE ~GrantRefresh /\ ~RefreshPre /\ ~RefreshEnd
  <2>1. UNCHANGED refresh
    BY <1>5 DEF ArbiterStep, fetchVars, Ready, FetchNext, FetchDone, BurstOn, FetchingRow, BurstOff,
       NobodyServed, GrantFetch, GrantWrite, GrantRead, FillPixel, FillRow, FillEnd, GrantCopyRead,
       GrantCopyWrite, CaptureWord, CaptureEnd, Refresh,
       WriteEnd1, WriteEnd, CopyRead1, CopyRead, CopyWrite, CopyWriteWaits, ReadingZorroPre,
       ReadingZorro, WritingZorroPre, WritingZorro
  <2> QED  BY <2>1 DEF CountersTyped, AddressesTyped
<1> QED  BY <1>2, <1>3, <1>4, <1>5

\* The buffer of a copy holds no more words than reads were issued for: the
\* first answer comes after the first of them.
LEMMA CopyCountersStep ==
  ASSUME CardTyped, CountersTyped, CopyStarts, NEW p, ArbiterStep(p)
  PROVE  copy'.counter \in 0 .. BLITTER_COPY_SIZE /\ copy'.issued \in 0 .. BLITTER_COPY_SIZE
<1>0. BLITTER_COPY_SIZE \in Nat  BY SizesAssumption
<1>1. copy \in CopyRecords  BY DEF CardTyped, JobsTyped
<1>2. copy.counter \in 0 .. BLITTER_COPY_SIZE /\ copy.issued \in 0 .. BLITTER_COPY_SIZE
  BY DEF CountersTyped
<1>3. CASE CopyRead
  <2>1. arb = "BLIT_COPY_READ"  BY <1>3 DEF CopyRead, At
  <2>2. /\ copy'.counter = IF CopyBufferFilled THEN 0
                           ELSE IF data_out_ready THEN copy.counter + 1 ELSE copy.counter
        /\ copy'.issued = IF CopyIssues THEN copy.issued + 1 ELSE copy.issued
    BY <1>1, <1>3 DEF CopyRead, CopyRecords
  <2>3. CopyIssues => copy.issued < BLITTER_COPY_SIZE  BY DEF CopyIssues
  <2>4. ~CopyBufferFilled /\ data_out_ready => copy.counter < copy.issued
    BY <1>0, <1>2, <2>1 DEF CopyBufferFilled, CopyStarts, NoReadsOut, At
  <2> QED  BY <1>0, <1>2, <2>2, <2>3, <2>4
<1>4. CASE CopyWrite
  <2>1. copy' = [copy EXCEPT !.counter = IF CopyMoves THEN copy.counter + 1 ELSE copy.counter,
                             !.write_done = copy.write_done \/ ~CopyMoves]
    BY <1>4 DEF CopyWrite
  <2>2. /\ copy'.counter = IF CopyMoves THEN copy.counter + 1 ELSE copy.counter
        /\ copy'.issued = copy.issued
    BY <1>1, <2>1 DEF CopyRecords
  <2>3. CopyMoves => ~(copy.counter >= BLITTER_COPY_SIZE)  BY DEF CopyMoves, CopyBufferEmpty
  <2> QED  BY <1>0, <1>2, <2>2, <2>3
<1>5. CASE GrantCopyWrite \/ WriteEnd1 \/ CopyRead1
  <2>1. copy' \in {[copy EXCEPT !.write_done = FALSE], [copy EXCEPT !.counter = 0],
                   [copy EXCEPT !.issued = 0, !.reads_done = FALSE]}
    BY <1>5 DEF GrantCopyWrite, WriteEnd1, CopyRead1
  <2>2. copy'.counter \in {0, copy.counter} /\ copy'.issued \in {0, copy.issued}
    BY <1>1, <2>1 DEF CopyRecords
  <2> QED  BY <1>0, <1>2, <2>2
<1>6. CASE ~GrantCopyWrite /\ ~WriteEnd1 /\ ~CopyRead1 /\ ~CopyRead /\ ~CopyWrite
  <2>1. UNCHANGED copy
    BY <1>6 DEF ArbiterStep, Ready, FetchNext, FetchDone, BurstOn, FetchingRow, BurstOff,
       NobodyServed, GrantFetch, GrantWrite, GrantRead, FillPixel, FillRow, FillEnd, GrantCopyRead,
       CaptureWord, CaptureEnd, GrantRefresh, RefreshPre, Refresh, RefreshEnd, WriteEnd,
       CopyWriteWaits, ReadingZorroPre, ReadingZorro, WritingZorroPre, WritingZorro
  <2> QED  BY <1>2, <2>1
<1> QED  BY <1>3, <1>4, <1>5, <1>6

LEMMA CaptureCounterStep ==
  ASSUME CardTyped, CountersTyped, NEW p, ArbiterStep(p)
  PROVE  cap'.x \in 0 .. CaptureWidth
<1>0. CaptureWidth \in Nat  BY CountersAssumption
<1>1. cap \in CapRecords /\ cap.x \in 0 .. CaptureWidth
  BY DEF CardTyped, JobsTyped, CountersTyped
<1>2. CASE CaptureWord
  <2>1. cap'.x = cap.x + 1 /\ cap.x < CaptureWidth  BY <1>1, <1>2 DEF CaptureWord, CapRecords
  <2> QED  BY <1>0, <1>1, <2>1
<1>3. CASE CaptureEnd
  BY <1>1, <1>3 DEF CaptureEnd, CapRecords
<1>4. CASE CaptureLine
  BY <1>0, <1>1, <1>4 DEF CaptureLine, StartLine
<1> QED  BY <1>2, <1>3, <1>4 DEF ArbiterStep

LEMMA ArbiterAddresses ==
  ASSUME CardTyped, AddressesTyped, NEW p, ArbiterStep(p), LineTyped
  PROVE  ram_addr' \in Addresses /\ fetch_y' \in Addresses
<1> USE DEF AddressesTyped
<1>0. /\ blit.ptr + blit.curx \in Int /\ blit.ptr2 + blit.curx2 \in Int /\ cap.base + cap.x2 \in Int
      /\ ram_addr + 1 \in Int /\ pan_ptr + fetch_line_y * FETCHW \in Int
  <2>1. blit \in BlitRecords /\ cap \in CapRecords  BY DEF CardTyped, JobsTyped
  <2>2. ram_addr \in Int /\ pan_ptr \in Int /\ fetch_line_y \in Int /\ FETCHW \in Int
    BY SizesAssumption DEF CardTyped, PortTyped, LineTyped
  <2> QED  BY <2>1, <2>2, BlitterFields DEF CapRecords
<1>1. /\ Addr(blit.ptr + blit.curx) \in Addresses /\ Addr(blit.ptr2 + blit.curx2) \in Addresses
      /\ Addr(cap.base + cap.x2) \in Addresses /\ Addr(ram_addr + 1) \in Addresses
      /\ Addr(pan_ptr + fetch_line_y * FETCHW) \in Addresses
  BY <1>0, AddrInRange
<1>2. CASE Ready
  BY <1>1, <1>2 DEF Ready, Enable, SetPort
<1>3. CASE FetchNext \/ FetchDone \/ BurstOn \/ BurstOff
  BY <1>3 DEF FetchNext, FetchDone, BurstOn, BurstOff, EnableBurst, ReadAt, Enable, SetPort, portVars,
     fetchVars
<1>4. CASE FetchingRow
  BY <1>1, <1>4 DEF FetchingRow, SetPort, portVars
<1>5. CASE NobodyServed \/ GrantFetch \/ GrantWrite \/ GrantRead \/ FillRow \/ FillEnd
           \/ GrantCopyRead \/ GrantCopyWrite \/ GrantRefresh
  BY <1>5 DEF NobodyServed, GrantFetch, GrantWrite, GrantRead, FillRow, FillEnd, GrantCopyRead,
     GrantCopyWrite, GrantRefresh, Enable, EnableBurst, SetPort, portVars, fetchVars
<1>6. CASE FillPixel \/ CaptureWord \/ CaptureEnd
  BY <1>1, <1>6 DEF FillPixel, CaptureWord, CaptureEnd, WriteAt, SetPort, fetchVars
<1>7. CASE RefreshPre \/ Refresh \/ RefreshEnd \/ WriteEnd1 \/ WriteEnd \/ CopyRead1 \/ CopyWriteWaits
  BY <1>7 DEF RefreshPre, Refresh, RefreshEnd, WriteEnd1, WriteEnd, CopyRead1, CopyWriteWaits, ReadAt,
     Enable, SetPort, portVars, fetchVars
<1>8. CASE CopyRead \/ CopyWrite
  BY <1>1, <1>8 DEF CopyRead, CopyWrite, WriteAt, Enable, SetPort, fetchVars
<1>9. CASE ReadingZorroPre \/ ReadingZorro \/ WritingZorroPre \/ WritingZorro
  BY <1>9 DEF ReadingZorroPre, ReadingZorro, WritingZorroPre, WritingZorro, ReadAt, Enable, SetPort,
     fetchVars
<1> QED  BY <1>2, <1>3, <1>4, <1>5, <1>6, <1>7, <1>8, <1>9 DEF ArbiterStep

\* Both halves of the access on the bus are words of the chip.
LEMMA RequestAddresses ==
  ASSUME AddressesTyped, bus.op \in HostOps, Requests, CardTyped
  PROVE  zorro_ram_write'.addr \in Addresses /\ zorro_ram_read_addr' \in Addresses
<1>1. bus.op.addr \in 0 .. Size - 2  BY RangesAssumption
<1>2. Size \in Nat  BY GeometryAssumption DEF Size, NCols
<1>3. Half(0) \in Addresses /\ Half(1) \in Addresses  BY <1>1, <1>2 DEF Half, Addresses
<1>4. zorro_ram_read_addr' \in Addresses  BY <1>3 DEF Requests, AddressesTyped
<1>5. CASE SetsWriteRequest
  <2>1. PICK h \in {0, 1} :
          zorro_ram_write' = [addr |-> Half(h), bytes |-> z3_ds[h], data |-> bus.op.data[h]]
    BY <1>5 DEF Requests
  <2> QED  BY <1>3, <1>4, <2>1
<1>6. CASE ~SetsWriteRequest
  BY <1>4, <1>6 DEF Requests, AddressesTyped
<1> QED  BY <1>5, <1>6

LEMMA ZorroStateStep ==
  ASSUME HostTyped, CardTyped, ZorroStep
  PROVE  zorro' \in ZorroStates /\ dtack' \in BOOLEAN
<1> USE DEF HostTyped
<1>1. bus.active \in BOOLEAN  BY DEF CardTyped, RequestsTyped
<1>2. CASE Z3Idle
  <2>1. bus.op.kind \in {"read", "write", "reg"}
    BY DEF CardTyped, RequestsTyped, HostRecords
  <2>2. FirstState[bus.op.kind] \in {"Z3_READ_UPPER", "Z3_WRITE_PRE", "Z3_REGWRITE"}
    BY <2>1 DEF FirstState
  <2> QED  BY <1>2, <2>2 DEF Z3Idle, ZTo, ZorroStates
<1>3. CASE Cold \/ EnterReset \/ InReset \/ Configuring \/ Configured \/ ConfiguredClear
           \/ EnterResetDvid \/ ResetDvid
  BY <1>3 DEF Cold, EnterReset, InReset, Configuring, Configured, ConfiguredClear, EnterResetDvid,
     ResetDvid, ZTo, ZorroStates
<1>4. CASE ReadUpper \/ ReadLower \/ ReadDelay1 \/ ReadDelay2
  BY <1>4 DEF ReadUpper, ReadLower, ReadDelay1, ReadDelay2, ZTo, ZorroStates
<1>5. CASE WritePre \/ WriteUpper \/ WriteLower \/ WriteFinalize \/ EndCycle \/ RegWrite
  BY <1>1, <1>5 DEF WritePre, WriteUpper, WriteLower, WriteFinalize, EndCycle, RegWrite, ZTo,
     ZorroStates
<1> QED  BY <1>2, <1>3, <1>4, <1>5 DEF ZorroStep

LEMMA LineStep ==
  ASSUME HostTyped, NEW p, ArbiterStep(p), Scanout
  PROVE  /\ row_fetched' \in BOOLEAN /\ x_safe_area' \in BOOLEAN
         /\ need_row_fetch_y' \in 0 .. Lines - 1 /\ fetch_line_y' \in 0 .. Lines
<1> USE DEF HostTyped
<1>0. Lines \in Nat \ {0}  BY HostAssumption
<1>1. need_row_fetch_y' \in 0 .. Lines - 1  BY <1>0 DEF Scanout
<1>2. x_safe_area' \in BOOLEAN  BY RangesAssumption DEF Scanout
<1>3. CASE GrantFetch
  <2>1. row_fetched' = FALSE /\ fetch_line_y' = need_row_fetch_y  BY <1>3 DEF GrantFetch
  <2>2. need_row_fetch_y \in 0 .. Lines  BY <1>0
  <2> QED  BY <1>1, <1>2, <2>1, <2>2
<1>4. CASE FetchingRow
  <2>1. fetch_line_y' = fetch_line_y  BY <1>4 DEF FetchingRow
  <2>2. row_fetched' = row_fetched \/ row_fetched' = (row_fetched \/ Unsigned(fetch_x) > FETCHW)
    BY <1>4 DEF FetchingRow
  <2>3. (row_fetched \/ Unsigned(fetch_x) > FETCHW) \in BOOLEAN  OBVIOUS
  <2> QED  BY <1>1, <1>2, <2>1, <2>2, <2>3
<1>5. CASE ~GrantFetch /\ ~FetchingRow
  <2>1. UNCHANGED <<row_fetched, fetch_line_y>>
    BY <1>5 DEF ArbiterStep, fetchVars, Ready, FetchNext, FetchDone, BurstOn, BurstOff,
       NobodyServed, GrantWrite, GrantRead, FillPixel, FillRow, FillEnd, GrantCopyRead,
       GrantCopyWrite, CaptureWord, CaptureEnd, GrantRefresh, RefreshPre, Refresh, RefreshEnd,
       WriteEnd1, WriteEnd, CopyRead1, CopyRead, CopyWrite, CopyWriteWaits, ReadingZorroPre,
       ReadingZorro, WritingZorroPre, WritingZorro
  <2> QED  BY <1>1, <1>2, <2>1
<1> QED  BY <1>3, <1>4, <1>5

LEMMA SharedStep ==
  ASSUME HostTyped, CardTyped, TypeInv, AnswersAreWords, Requests, Blitter, Registers, Host,
         ResetLine, ZorroStep
  PROVE  /\ bus'.op \in HostOps
         /\ videocap_mode' \in BOOLEAN /\ znrst' \in BOOLEAN /\ dvid_reset' \in BOOLEAN
         /\ zorro_ram_write_request' \in BOOLEAN /\ zorro_ram_read_request' \in BOOLEAN
         /\ zorro_ram_read_done' \in BOOLEAN
         /\ zorro_ram_read_data' \in Words /\ z3_read_data' \in Words
         /\ dvid_reset_counter' \in 0 .. 2
         /\ blitter_enable' \in {0, 1, 2, 4}
<1> USE DEF HostTyped
<1>1. bus'.op \in HostOps
  <2>1. bus \in [active : BOOLEAN, op : HostRecords]  BY DEF CardTyped, RequestsTyped
  <2>2. CASE bus' = [bus EXCEPT !.active = FALSE]
    BY <2>1, <2>2
  <2>3. CASE \E o \in HostOps : bus' = [active |-> TRUE, op |-> o]
    BY <2>3
  <2> QED  BY <2>2, <2>3 DEF Host
<1>2. videocap_mode' \in BOOLEAN /\ znrst' \in BOOLEAN /\ dvid_reset' \in BOOLEAN
  <2>1. videocap_mode' \in BOOLEAN  BY RangesAssumption DEF Registers
  <2>2. dvid_reset' \in BOOLEAN  BY DEF Registers
  <2>3. znrst' \in BOOLEAN  BY DEF ResetLine
  <2> QED  BY <2>1, <2>2, <2>3
<1>3. /\ zorro_ram_write_request' \in BOOLEAN /\ zorro_ram_read_request' \in BOOLEAN
      /\ zorro_ram_read_done' \in BOOLEAN
  <2>1. zorro_ram_write_request' \in BOOLEAN  BY DEF Requests
  <2>2. zorro_ram_read_request' \in BOOLEAN  BY DEF Requests
  <2>3. zorro_ram_read_done' \in BOOLEAN  BY DEF Requests
  <2> QED  BY <2>1, <2>2, <2>3
<1>4. zorro_ram_read_data' \in Words
  <2>1. ReadAnswered => data_out \in Words
    BY DEF ReadAnswered, AnswersAreWords, TypeInv, TypeOK, ControllerTypeOK
  <2> QED  BY <2>1 DEF Requests
<1>5. z3_read_data' \in Words
  <2>1. z3_read_data' \in {z3_read_data, zorro_ram_read_data}
    BY DEF ZorroStep, KeepData, Cold, EnterReset, InReset, Configuring, Configured, ConfiguredClear,
       EnterResetDvid, ResetDvid, Z3Idle, ReadUpper, ReadLower, ReadDelay1, ReadDelay2, WritePre,
       WriteUpper, WriteLower, WriteFinalize, EndCycle, RegWrite
  <2> QED  BY <2>1
<1>6. dvid_reset_counter' \in 0 .. 2
  BY DEF Registers
<1>7. blitter_enable' \in {0, 1, 2, 4}
  <2>1. StartsBlitter => bus.op.value \in {0, 1, 2}  BY RangesAssumption DEF StartsBlitter
  <2> QED  BY <2>1 DEF Blitter, BlitterNext
<1> QED  BY <1>1, <1>2, <1>3, <1>4, <1>5, <1>6, <1>7

LEMMA RangesStart == CardInit => RangeInv
<1> SUFFICES ASSUME CardInit PROVE RangeInv  OBVIOUS
<1>1. SDRAMInit /\ ArbiterInit  BY DEF CardInit
<1>2. AnyWord \in Words
  BY <1>1, CardStarts DEF CardInv, SafeInv, TypeInv, TypeOK, ControllerTypeOK, SDRAMInit,
     ControllerInit
<1>3. Size \in Nat \ {0}  BY GeometryAssumption DEF Size, NCols
<1>4. /\ margin_x \in Nat /\ FETCHW \in Nat /\ BLITTER_COPY_SIZE \in Nat /\ CaptureWidth \in Nat
      /\ refresh_warm_max \in Nat /\ refresh_cool_max \in Nat /\ Lines \in Nat \ {0}
  BY SizesAssumption, CountersAssumption, HostAssumption
<1>5. AddressesTyped  BY <1>1, <1>3 DEF ArbiterInit, AddressesTyped, Addresses
<1>6. CountersTyped
  BY <1>1, <1>4 DEF ArbiterInit, CountersTyped
<1>7. HostTyped
  <2>1. bus.op \in HostOps /\ zorro \in ZorroStates  BY DEF CardInit, ZorroStates
  <2>2. /\ zorro_ram_read_data \in Words /\ z3_read_data \in Words
        /\ need_row_fetch_y \in 0 .. Lines - 1 /\ fetch_line_y \in 0 .. Lines
        /\ dvid_reset_counter \in 0 .. 2 /\ blitter_enable \in {0, 1, 2, 4}
    BY <1>1, <1>2, <1>4 DEF CardInit, ArbiterInit
  <2>3. /\ row_fetched \in BOOLEAN /\ videocap_mode \in BOOLEAN /\ x_safe_area \in BOOLEAN
        /\ dtack \in BOOLEAN /\ znrst \in BOOLEAN /\ dvid_reset \in BOOLEAN
        /\ zorro_ram_write_request \in BOOLEAN /\ zorro_ram_read_request \in BOOLEAN
        /\ zorro_ram_read_done \in BOOLEAN
    BY <1>1 DEF CardInit, ArbiterInit
  <2> QED  BY <2>1, <2>2, <2>3 DEF HostTyped
<1>8. arb \in ArbiterStates /\ PortQuiet /\ QueueTold /\ CopyStarts
  BY <1>1 DEF ArbiterInit, SDRAMInit, ControllerInit, ArbiterStates, PortQuiet, QueueTold, CopyStarts
<1> QED  BY <1>5, <1>6, <1>7, <1>8 DEF RangeInv

LEMMA RangesStep ==
  ASSUME CardInv, RangeInv, [Clock]_cardVars
  PROVE  RangeInv'
<1>1. CASE Clock
  <2>1. PICK p \in {BlitterStarted, blit} : ArbiterStep(p)  BY <1>1 DEF Clock
  <2>2. /\ SDRAMClock(Port(sdram_reset)) /\ ZorroStep /\ Requests /\ Blitter /\ Registers
        /\ Host /\ ResetLine /\ Scanout
    BY <1>1 DEF Clock
  <2>3. CardTyped /\ LineTyped /\ TypeInv /\ AnswersAreWords
    BY DEF CardInv, CardTyped, SafeInv, AnswerInv
  <2>4. Port(sdram_reset).reset => state \in ClosedStates
    BY DEF Port, CardInv, PowerUp, Settled
  <2>5. QueueTold'  BY <2>2, <2>4, QueueToldStep
  <2>6. CopyStarts'  BY <1>1, CopyStartsStep DEF RangeInv
  <2>7. arb' \in ArbiterStates /\ PortQuiet'
    BY <2>1, ArbiterStateStep, PortQuietStep DEF RangeInv
  <2>8. AddressesTyped'
    BY <2>1, <2>2, <2>3, ArbiterAddresses, RequestAddresses, RefreshCountersStep
       DEF RangeInv, AddressesTyped, HostTyped
  <2>9. CountersTyped'
    BY <2>1, <2>3, FetchCounterStep, RefreshCountersStep, CopyCountersStep, CaptureCounterStep
       DEF RangeInv, CountersTyped
  <2>10. HostTyped'
    BY <2>1, <2>2, <2>3, LineStep, SharedStep, ZorroStateStep DEF RangeInv, HostTyped
  <2> QED  BY <2>5, <2>6, <2>7, <2>8, <2>9, <2>10 DEF RangeInv
<1>2. CASE UNCHANGED cardVars
  <2>1. /\ UNCHANGED <<arb, portVars, fetchVars, refresh, blitter_enable, copy, cap, requestVars>>
        /\ UNCHANGED <<inputVars, bus, znrst, zorro, z3_read_data, dtack, dvid_reset,
                       dvid_reset_counter, sdramVars>>
    BY <1>2 DEF cardVars, zorroVars
  <2>2. AddressesTyped' /\ CountersTyped'
    BY <2>1 DEF RangeInv, AddressesTyped, CountersTyped, portVars, fetchVars, requestVars
  <2>3. HostTyped'
    BY <2>1 DEF RangeInv, HostTyped, fetchVars, requestVars, inputVars
  <2>4. PortQuiet' /\ QueueTold' /\ CopyStarts' /\ arb' \in ArbiterStates
    BY <2>1 DEF RangeInv, PortQuiet, QueueTold, CopyStarts, NoReadsOut, portVars, sdramVars, ctrlVars
  <2> QED  BY <2>2, <2>3, <2>4 DEF RangeInv
<1> QED  BY <1>1, <1>2

(* On the card every register stays in its range, whatever the host, the   *)
(* display, the capture and the blitter do: no line overruns the counter   *)
(* of its fetch, and no answer meant for another user of the port is       *)
(* counted as a word of a copy.                                            *)
THEOREM CardTypeCorrect ==
  ASSUME ~ResetAllowed
  PROVE  CardSpec => []CardTypeOK
<1>1. CardInv /\ RangeInv => CardTypeOK
  <2> SUFFICES ASSUME CardInv, RangeInv PROVE CardTypeOK  OBVIOUS
  <2>1. TypeOK /\ PortTyped /\ sdram_reset \in BOOLEAN
    BY DEF CardInv, SafeInv, TypeInv, CardTyped, RequestsTyped
  <2>2. AddressesTyped /\ CountersTyped /\ HostTyped /\ arb \in ArbiterStates  BY DEF RangeInv
  <2>3. {need_row_fetch_y, fetch_line_y - 1} \subseteq -1 .. Lines
    BY <2>2, HostAssumption DEF HostTyped
  <2>4. {ram_enable, ram_write, row_fetched, videocap_mode, x_safe_area, dtack, znrst,
         sdram_reset, dvid_reset, zorro_ram_write_request, zorro_ram_read_request,
         zorro_ram_read_done} \subseteq BOOLEAN
    BY <2>1, <2>2 DEF PortTyped, HostTyped
  <2>5. {ram_data_in, ram_data_in_next, zorro_ram_read_data, z3_read_data} \subseteq Words
    BY <2>1, <2>2 DEF PortTyped, HostTyped
  <2> QED
    BY <2>1, <2>2, <2>3, <2>4, <2>5
       DEF CardTypeOK, PortTyped, AddressesTyped, CountersTyped, HostTyped
<1>2. CardInv /\ RangeInv /\ [Clock]_cardVars => CardInv' /\ RangeInv'
  BY CardStep, RangesStep
<1> QED  BY <1>1, <1>2, CardStarts, RangesStart, PTL DEF CardSpec
=============================================================================
