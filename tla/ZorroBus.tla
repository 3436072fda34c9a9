------------------------------ MODULE ZorroBus ------------------------------
(***************************************************************************)
(* The Zorro III side of va2000.v and the composition of the card's memory *)
(* path: host bus, Zorro state machine, RAM arbiter, SDRAM controller and  *)
(* chip, all on the rising edges of z_sample_clk.  One step is one edge;   *)
(* every machine moves in every step.                                      *)
(*                                                                         *)
(* The host and the scanout run on clocks of their own: what the card's    *)
(* synchronizers show of them may change at any edge.  A host access keeps *)
(* its address, strobes and data until it has seen DTACK.                  *)
(***************************************************************************)
EXTENDS RamArbiter

CONSTANTS
  HostOps,        \* the accesses the host makes
  dataout_time,   \* edges a read's data is driven before DTACK
  ResetCapture,   \* value RESET gives videocap_mode
  ResetAllowed,   \* the Amiga may be reset while the card works
  Pause,          \* least edges of a reset, and from there to the end of the dialogue
  LineGap,        \* least edges between the end of a fetch and the next line
  Lines,          \* lines the scanout asks for, in turn
  SafeArea,       \* values x_safe_area takes
  Programs        \* what the host may have programmed the blitter with

HostRecords ==
  [kind : {"read", "write", "reg"}, addr : Int, strobes : [{0, 1} -> SUBSET Lanes],
   data : [{0, 1} -> Words], reg : STRING, value : Int]
ASSUME HostAssumption ==
  HostOps \subseteq HostRecords /\ Programs \subseteq BlitRecords /\ Lines \in Nat \ {0}
\* The board's addresses are those of the chip, and both halves of an access
\* are on it; the driver starts the blitter with a fill (1) or a copy (2).
ASSUME RangesAssumption ==
  /\ ResetCapture \in BOOLEAN /\ SafeArea \subseteq BOOLEAN
  /\ \A o \in HostOps : /\ o.addr \in 0 .. Size - 2
                        /\ o.reg = "blitter_enable" => o.value \in {0, 1, 2}

VARIABLES
  bus,            \* the host's access: [active, op]
  znrst,          \* z_reset: the Amiga holds reset
  zorro,          \* zorro_state
  z3_ds,          \* z3_ds3..0, as the strobed lanes of the two halves
  z3_read_data, data_z3, dtack, read_counter, sdram_reset,
  dvid_reset, dvid_reset_counter,
  pause,          \* edges since znrst changed, up to Pause
  line_gap,       \* edges since the last fetch, up to LineGap
  blit_from       \* history: the memory when the running blit was started

zorroVars == <<zorro, z3_ds, z3_read_data, data_z3, dtack, read_counter, sdram_reset,
               dvid_reset, dvid_reset_counter>>
\* The registers of the card and the timers: what an edge changes without the
\* world's help.
registerVars == <<sdramVars, arb, portVars, fetchVars, refresh, blitter_enable, blit, copy,
                  cap, requestVars, pan_ptr, videocap_mode, zorroVars, pause, line_gap>>
cardVars == <<sdramVars, arb, portVars, fetchVars, refresh, blitter_enable, blit, copy,
              cap, requestVars, inputVars, bus, znrst, zorroVars, pause, line_gap, blit_from>>

Half(n) == bus.op.addr + n        \* z3_mapped_addr and z3_mapped_addr|1

-----------------------------------------------------------------------------
(* The Zorro machine.  The registers of a request are assigned with its    *)
(* flag; the flag itself is resolved with the arbiter below.               *)

ZAt(s) == zorro = s /\ ~znrst
ZTo(s) == zorro' = s

KeepData == UNCHANGED <<z3_read_data, data_z3>>

Cold == zorro = "COLD" /\ ZTo("RESET") /\ UNCHANGED <<z3_ds, dtack, read_counter, sdram_reset>>
        /\ KeepData

\* Reset wins over every state but COLD.
Forced == zorro # "COLD" /\ znrst

EnterReset ==
  /\ Forced /\ ZTo("RESET")
  /\ UNCHANGED <<z3_ds, dtack, read_counter, sdram_reset>> /\ KeepData

InReset ==
  /\ ZAt("RESET") /\ ZTo("DECIDE_Z2_Z3")
  /\ sdram_reset' = TRUE
  /\ UNCHANGED <<z3_ds, dtack, read_counter>> /\ KeepData

\* The configuration dialogue: begun by an access to the configuration space,
\* left when the host has written the address (Z3_DTACK is part of it).
Configuring ==
  /\ \/ ZAt("DECIDE_Z2_Z3") /\ ZTo("Z3_CONFIGURING")
     \/ ZAt("Z3_CONFIGURING") /\ pause = Pause /\ ZTo("CONFIGURED")
     \/ (ZAt("DECIDE_Z2_Z3") \/ ZAt("Z3_CONFIGURING")) /\ UNCHANGED zorro
  /\ UNCHANGED <<z3_ds, dtack, read_counter, sdram_reset>> /\ KeepData

\* Mutant: the controller is held in reset.
Configured_KeepsReset ==
  /\ ZAt("CONFIGURED") /\ ZTo("CONFIGURED_CLEAR")
  /\ UNCHANGED <<z3_ds, dtack, read_counter, sdram_reset>> /\ KeepData

Configured ==
  /\ ZAt("CONFIGURED") /\ ZTo("CONFIGURED_CLEAR")
  /\ sdram_reset' = FALSE
  /\ UNCHANGED <<z3_ds, dtack, read_counter>> /\ KeepData

ConfiguredClear ==
  /\ ZAt("CONFIGURED_CLEAR")
  /\ zorro' = IF sdram_idle THEN "Z3_IDLE" ELSE zorro
  /\ UNCHANGED <<z3_ds, dtack, read_counter, sdram_reset>> /\ KeepData

FirstState == [read |-> "Z3_READ_UPPER", write |-> "Z3_WRITE_PRE", reg |-> "Z3_REGWRITE"]

\* The display's clock is started anew before the bus is served.
EnterResetDvid ==
  /\ ZAt("Z3_IDLE") /\ dvid_reset /\ ZTo("RESET_DVID")
  /\ UNCHANGED <<z3_ds, dtack, read_counter, sdram_reset>> /\ KeepData

ResetDvid ==
  /\ ZAt("RESET_DVID")
  /\ zorro' = IF dvid_reset_counter = 0 THEN "Z3_IDLE" ELSE zorro
  /\ UNCHANGED <<z3_ds, dtack, read_counter, sdram_reset>> /\ KeepData

Z3Idle ==
  /\ ZAt("Z3_IDLE") /\ ~dvid_reset
  /\ IF bus.active
     THEN /\ ZTo(FirstState[bus.op.kind])
          /\ read_counter' = IF bus.op.kind = "write" THEN 0 ELSE read_counter
          /\ UNCHANGED dtack
     ELSE dtack' = FALSE /\ UNCHANGED <<zorro, read_counter>>
  /\ UNCHANGED <<z3_ds, sdram_reset>> /\ KeepData

ReadUpper ==
  /\ ZAt("Z3_READ_UPPER")
  /\ zorro' = IF zorro_ram_read_request THEN zorro ELSE "Z3_READ_LOWER"
  /\ UNCHANGED <<z3_ds, dtack, read_counter, sdram_reset>> /\ KeepData

ReadLower ==
  /\ ZAt("Z3_READ_LOWER")
  /\ IF zorro_ram_read_request
     THEN UNCHANGED <<zorro, z3_read_data>>
     ELSE ZTo("Z3_READ_DELAY1") /\ z3_read_data' = zorro_ram_read_data
  /\ UNCHANGED <<z3_ds, dtack, read_counter, sdram_reset, data_z3>>

ReadDelay1 ==
  /\ ZAt("Z3_READ_DELAY1")
  /\ IF zorro_ram_read_request
     THEN UNCHANGED <<zorro, data_z3, read_counter>>
     ELSE /\ ZTo("Z3_READ_DELAY2")
          /\ data_z3' = <<z3_read_data, zorro_ram_read_data>>
          /\ read_counter' = 0
  /\ UNCHANGED <<z3_ds, dtack, sdram_reset, z3_read_data>>

ReadDelay2 ==
  /\ ZAt("Z3_READ_DELAY2")
  /\ IF read_counter >= dataout_time
     THEN ZTo("Z3_ENDCYCLE") /\ UNCHANGED read_counter
     ELSE read_counter' = read_counter + 1 /\ UNCHANGED zorro
  /\ UNCHANGED <<z3_ds, dtack, sdram_reset>> /\ KeepData

WritePre ==
  /\ ZAt("Z3_WRITE_PRE") /\ ZTo("Z3_WRITE_UPPER")
  /\ z3_ds' = bus.op.strobes
  /\ UNCHANGED <<dtack, read_counter, sdram_reset>> /\ KeepData

\* A half without strobes is skipped; the other waits for the request flag.
PassesHalf(h) == z3_ds[h] = {} \/ ~zorro_ram_write_request

WriteUpper ==
  /\ ZAt("Z3_WRITE_UPPER")
  /\ zorro' = IF PassesHalf(0) THEN "Z3_WRITE_LOWER" ELSE zorro
  /\ UNCHANGED <<z3_ds, dtack, read_counter, sdram_reset>> /\ KeepData

WriteLower ==
  /\ ZAt("Z3_WRITE_LOWER")
  /\ zorro' = IF PassesHalf(1) THEN "Z3_WRITE_FINALIZE" ELSE zorro
  /\ UNCHANGED <<z3_ds, dtack, read_counter, sdram_reset>> /\ KeepData

WriteFinalize ==
  /\ ZAt("Z3_WRITE_FINALIZE")
  /\ IF zorro_ram_write_request
     THEN UNCHANGED <<zorro, dtack>>
     ELSE ZTo("Z3_ENDCYCLE") /\ dtack' = TRUE
  /\ UNCHANGED <<z3_ds, read_counter, sdram_reset>> /\ KeepData

EndCycle ==
  /\ ZAt("Z3_ENDCYCLE")
  /\ dtack' = bus.active
  /\ zorro' = IF bus.active THEN zorro ELSE "Z3_IDLE"
  /\ UNCHANGED <<z3_ds, read_counter, sdram_reset>> /\ KeepData

RegWrite ==
  /\ ZAt("Z3_REGWRITE") \/ ZAt("REGWRITE")
  /\ zorro' = IF zorro = "REGWRITE" THEN "Z3_ENDCYCLE" ELSE "REGWRITE"
  /\ UNCHANGED <<z3_ds, dtack, read_counter, sdram_reset>> /\ KeepData

ZorroStep ==
  \/ Cold \/ EnterReset \/ InReset \/ Configuring \/ Configured \/ ConfiguredClear
  \/ EnterResetDvid \/ ResetDvid \/ Z3Idle \/ ReadUpper \/ ReadLower \/ ReadDelay1 \/ ReadDelay2
  \/ WritePre \/ WriteUpper \/ WriteLower \/ WriteFinalize \/ EndCycle \/ RegWrite

-----------------------------------------------------------------------------
(* The registers both machines assign: the arbiter's assignment wins.      *)

SetsWriteRequest ==
  \/ ZAt("Z3_WRITE_UPPER") /\ z3_ds[0] # {} /\ ~zorro_ram_write_request
  \/ ZAt("Z3_WRITE_LOWER") /\ z3_ds[1] # {} /\ ~zorro_ram_write_request
SetsReadRequest ==
  (ZAt("Z3_READ_UPPER") \/ ZAt("Z3_READ_LOWER")) /\ ~zorro_ram_read_request
StartsBlitter == ZAt("REGWRITE") /\ bus.op.reg = "blitter_enable"
WritesCapture == ZAt("REGWRITE") /\ bus.op.reg = "videocap_mode"
WritesClock   == ZAt("REGWRITE") /\ bus.op.reg = "vga_clk_sel"

Requests ==
  LET wh == IF zorro = "Z3_WRITE_UPPER" THEN 0 ELSE 1
      rh == IF zorro = "Z3_READ_UPPER" THEN 0 ELSE 1
  IN
  /\ zorro_ram_write_request' =
       (~ClearsWriteRequest /\ (SetsWriteRequest \/ zorro_ram_write_request))
  /\ zorro_ram_write' = IF SetsWriteRequest
       THEN [addr |-> Half(wh), bytes |-> z3_ds[wh], data |-> bus.op.data[wh]]
       ELSE zorro_ram_write
  /\ zorro_ram_read_request' =
       (~ReadAnswered /\ (SetsReadRequest \/ zorro_ram_read_request))
  /\ zorro_ram_read_addr' = IF SetsReadRequest THEN Half(rh) ELSE zorro_ram_read_addr
  /\ zorro_ram_read_data' = IF ReadAnswered THEN data_out ELSE zorro_ram_read_data
  /\ zorro_ram_read_done' =
       (ReadAnswered \/ ZAt("RESET")
          \/ (zorro_ram_read_done /\ ~ClearsReadDone /\ ~SetsReadRequest))

\* REGWRITE 'h2a loads the counters of the blitter and its directions; of the
\* registers the driver writes before, only blitter_rgb has been used up.
BlitterStarted ==
  [blit EXCEPT !.curx = blit.x1, !.cury = blit.y1, !.curx2 = blit.x3, !.cury2 = blit.y3,
               !.dirx = (blit.x3 > blit.x4), !.diry = (blit.y3 > blit.y4),
               !.ptr = blit.base, !.ptr2 = blit.base2, !.t = 1,
               !.rgb = IF blit.colormode = 2 THEN blit.rgb32[0] ELSE @]

Blitter ==
  blitter_enable' = BlitterNext(IF ZAt("RESET") THEN 0
                                ELSE IF StartsBlitter THEN bus.op.value ELSE blitter_enable)

-----------------------------------------------------------------------------
(* The world around: host, reset line, scanout, captured video.            *)

\* The card answers at its addresses once it is configured, and the driver
\* starts the blitter only when the last blit is done.
Answering == zorro \notin {"COLD", "RESET", "DECIDE_Z2_Z3", "Z3_CONFIGURING"}
Possible(o) ==
  /\ Answering
  /\ o.reg = "blitter_enable" => blitter_enable = 0

Host ==
  \/ ~znrst /\ UNCHANGED bus
  \/ /\ ~znrst /\ ~bus.active /\ ~dtack
     /\ \E o \in HostOps : Possible(o) /\ bus' = [active |-> TRUE, op |-> o]
  \/ (znrst \/ (bus.active /\ dtack)) /\ bus' = [bus EXCEPT !.active = FALSE]

\* Pressed only once the card is configured, and for at least Pause edges.
ResetLine ==
  /\ \/ UNCHANGED znrst
     \/ znrst /\ pause = Pause /\ znrst' = FALSE
     \/ ResetAllowed /\ Answering /\ znrst' = TRUE
  /\ pause' = IF znrst' # znrst THEN 0 ELSE IF pause < Pause THEN pause + 1 ELSE pause

Fetching == arb \in {"READY", "READY2", "BURST_ON", "FETCHING_ROW", "BURST_OFF"}

\* The scanout asks for the next line once the last one was fetched and some
\* of the line period has passed; the safe area comes and goes as it likes.
Scanout ==
  /\ line_gap' = IF Fetching THEN 0 ELSE IF line_gap < LineGap THEN line_gap + 1 ELSE line_gap
  /\ \/ UNCHANGED need_row_fetch_y
     \/ /\ line_gap = LineGap /\ need_row_fetch_y = fetch_line_y
        /\ need_row_fetch_y' = (need_row_fetch_y + 1) % Lines
  /\ x_safe_area' \in SafeArea

\* The next line of the Amiga's video has been sampled.
CapturedVideo ==
  \/ UNCHANGED videocap_y3
  \/ videocap_mode /\ videocap_y3' = (videocap_y3 + 1) % CaptureHeight

Registers ==
  /\ videocap_mode' = IF ZAt("RESET") THEN ResetCapture
                      ELSE IF WritesCapture THEN bus.op.value = 1 ELSE videocap_mode
  /\ pan_ptr' = IF ZAt("RESET") THEN CaptureBase ELSE pan_ptr
  /\ dvid_reset' =
       (ZAt("RESET") \/ WritesClock
          \/ (dvid_reset /\ ~(ZAt("RESET_DVID") /\ dvid_reset_counter = 0)))
  /\ dvid_reset_counter' =
       IF ZAt("Z3_IDLE") /\ dvid_reset THEN 2
       ELSE IF ZAt("RESET_DVID") /\ dvid_reset_counter > 0 THEN dvid_reset_counter - 1
       ELSE dvid_reset_counter

-----------------------------------------------------------------------------
ArbiterInit ==
  /\ arb = "READY"
  /\ ram_enable = FALSE /\ ram_write = FALSE /\ ram_byte_enable = {} /\ ram_addr = 0
  /\ ram_data_in = AnyWord /\ ram_data_in_next = AnyWord /\ ram_burst_size = 0
  /\ row_fetched = FALSE /\ fetch_line_y = 1 /\ fetch_x = 0 /\ fetch_y = 0
  /\ fetch_buffer = [i \in 0 .. FETCHW + 8 |-> NoData]
  /\ refresh = [counter |-> 0, warm |-> 0, cool |-> 0, addr |-> 0]
  /\ blitter_enable = 0
  /\ blit \in Programs
  /\ copy = [counter |-> 0, issued |-> 0, reads_done |-> FALSE, write_done |-> FALSE,
             buf |-> [i \in 0 .. BLITTER_COPY_SIZE - 1 |-> AnyWord]]
  /\ cap = [line_saved |-> FALSE, line_saved_y |-> 0, x |-> 0, x2 |-> 0,
            base |-> Addr(CaptureBase)]
  /\ zorro_ram_write_request = FALSE
  /\ zorro_ram_write = [addr |-> 0, bytes |-> {}, data |-> AnyWord]
  /\ zorro_ram_read_request = FALSE /\ zorro_ram_read_addr = 0
  /\ zorro_ram_read_data = AnyWord /\ zorro_ram_read_done = TRUE
  /\ need_row_fetch_y = 0 /\ x_safe_area = TRUE
  /\ pan_ptr = 0 /\ videocap_mode = FALSE /\ videocap_y3 = 0

CardInit ==
  /\ SDRAMInit
  /\ ArbiterInit
  /\ \E o \in HostOps : bus = [active |-> FALSE, op |-> o]
  /\ znrst = FALSE
  /\ zorro = "COLD"
  /\ z3_ds = [h \in {0, 1} |-> {}]
  /\ z3_read_data = AnyWord /\ data_z3 = <<AnyWord, AnyWord>>
  /\ dtack = FALSE /\ read_counter = 0 /\ sdram_reset = FALSE
  /\ dvid_reset = TRUE /\ dvid_reset_counter = 0
  /\ pause = 0 /\ line_gap = 0
  /\ blit_from = InitMem

\* Memory once everything posted has been done: the write on the pins, the
\* one the controller holds, the one on the port, the one requested.
Store(m, yes, cell, word, bytes) ==
  IF yes THEN [m EXCEPT ![cell] = Merge(@, word, bytes)] ELSE m

Posted ==
  LET queued == got_transaction \/ state = "write_1"
      m1 == Store(MemNow, queued /\ save.wr, <<save.bank, save.row, save.col>>,
                  save.data, save.lanes)
      m2 == Store(m1, ram_enable /\ ram_write, CellAt(ram_addr), ram_data_in, ram_byte_enable)
  IN Store(m2, zorro_ram_write_request, CellAt(zorro_ram_write.addr),
           zorro_ram_write.data, zorro_ram_write.bytes)

\* One edge of z_sample_clk.
Clock ==
  /\ SDRAMClock(Port(sdram_reset))
  /\ ArbiterStep(IF StartsBlitter THEN BlitterStarted ELSE blit)
  /\ ZorroStep
  /\ Requests /\ Blitter /\ Registers
  /\ Host /\ ResetLine /\ Scanout /\ CapturedVideo
  /\ blit_from' = IF StartsBlitter THEN Posted' ELSE IF blitter_enable = 0 THEN InitMem ELSE blit_from

\* The clock runs: registers that an edge would change do change.  The world
\* owes nothing, it may keep still for ever.
CardSpec == CardInit /\ [][Clock]_cardVars /\ WF_registerVars(Clock)

-----------------------------------------------------------------------------
ArbiterStates ==
  {"READY", "READY2", "BURST_ON", "FETCHING_ROW", "BURST_OFF", "ROW_FETCHED",
   "REFRESH_PRE", "REFRESH", "REFRESH_END", "WRITE_END1", "WRITE_END",
   "BLIT_COPY_READ1", "BLIT_COPY_READ", "BLIT_COPY_WRITE",
   "READING_ZORRO_PRE", "READING_ZORRO", "WRITING_ZORRO_PRE", "WRITING_ZORRO"}
ZorroStates ==
  {"COLD", "RESET", "DECIDE_Z2_Z3", "Z3_CONFIGURING", "CONFIGURED", "CONFIGURED_CLEAR",
   "RESET_DVID", "Z3_IDLE", "Z3_READ_UPPER", "Z3_READ_LOWER", "Z3_READ_DELAY1", "Z3_READ_DELAY2",
   "Z3_WRITE_PRE", "Z3_WRITE_UPPER", "Z3_WRITE_LOWER", "Z3_WRITE_FINALIZE",
   "Z3_ENDCYCLE", "Z3_REGWRITE", "REGWRITE"}
Addresses == 0 .. Size - 1

(* Every register of the card stays in its range; the counters of a line   *)
(* fetch and of a copy stay inside their buffers.                          *)
CardTypeOK ==
  /\ TypeOK
  /\ arb \in ArbiterStates /\ zorro \in ZorroStates
  /\ {ram_enable, ram_write, row_fetched, videocap_mode, x_safe_area, dtack, znrst,
      sdram_reset, dvid_reset, zorro_ram_write_request, zorro_ram_read_request,
      zorro_ram_read_done} \subseteq BOOLEAN
  /\ ram_addr \in Addresses /\ fetch_y \in Addresses /\ refresh.addr \in Addresses
  /\ {ram_data_in, ram_data_in_next, zorro_ram_read_data, z3_read_data} \subseteq Words
  /\ ram_byte_enable \subseteq Lanes /\ ram_burst_size \in Modes
  /\ fetch_x \in -margin_x .. FETCHW + 2
  /\ {need_row_fetch_y, fetch_line_y - 1} \subseteq -1 .. Lines
  /\ dvid_reset_counter \in 0 .. 2
  /\ refresh.warm \in 0 .. refresh_warm_max /\ refresh.cool \in 0 .. refresh_cool_max
  /\ blitter_enable \in {0, 1, 2, 4}
  /\ copy.counter \in 0 .. BLITTER_COPY_SIZE /\ copy.issued \in 0 .. BLITTER_COPY_SIZE
  /\ cap.x \in 0 .. CaptureWidth

(* What the host may rely on.                                              *)

HostCells == {CellAt(o.addr + h) : o \in HostOps, h \in {0, 1}}

BusyStates == {"Z3_READ_UPPER", "Z3_READ_LOWER", "Z3_READ_DELAY1", "Z3_WRITE_PRE",
               "Z3_WRITE_UPPER", "Z3_WRITE_LOWER", "Z3_WRITE_FINALIZE",
               "Z3_REGWRITE", "REGWRITE"}
DoneStates == {"Z3_READ_DELAY2", "Z3_ENDCYCLE"}

\* The halves the Zorro machine has not requested yet.
HalvesLeft ==
  LET ahead == CASE zorro \in {"Z3_WRITE_PRE", "Z3_WRITE_UPPER"} -> {0, 1}
                 [] zorro = "Z3_WRITE_LOWER" -> {1}
                 [] OTHER -> {}
  IN {h \in ahead : bus.op.strobes[h] # {}}

Memory == INSTANCE HostMemory WITH
  Half0 <- [a \in {o.addr : o \in HostOps} |-> CellAt(a)],
  Half1 <- [a \in {o.addr : o \in HostOps} |-> CellAt(a + 1)],
  Accesses <- HostOps,
  FirstContents <- [c \in HostCells |-> InitMem[c]],
  NoAnswer <- <<AnyWord, AnyWord>>,
  contents <- [c \in HostCells |-> Posted[c]],
  phase    <- IF zorro \in BusyStates THEN "busy"
              ELSE IF zorro \in DoneStates THEN "done" ELSE "idle",
  access   <- bus.op,
  left     <- HalvesLeft,
  answer   <- data_z3

(* The card implements HostMemory: the host's accesses behave like         *)
(* accesses to a plain memory, although each half is a posted request that *)
(* waits for line fetches, refreshes and the blitter, and its read data    *)
(* comes through a delay line that serves them all.                        *)
HostSeesMemory == Memory!HostSpec

(* The chip and the card never drive the data bus at the same time.        *)
NoBusContention == (dq[2] # NoData \/ dq[3] # NoData) => dq_hiz

(* When a row is declared fetched, the line buffer holds the words of the  *)
(* line that was asked for, margin_x of them cut off.                      *)
FetchedLineRight ==
  arb = "READY" /\ row_fetched =>
    \A i \in 0 .. FETCHW - 1 - margin_x :
      fetch_buffer[i] = mem[CellAt(pan_ptr + fetch_line_y * FETCHW + margin_x + i)]

(* Every access of the host ends with DTACK, unless the Amiga is reset,    *)
(* whatever the display, the blitter and the refresh do meanwhile.         *)
HostServed == bus.active ~> (dtack \/ znrst)

(* A fill that ends has stored or posted its colour in every pixel of its  *)
(* rectangle, the right one of the two in true color, and nowhere else,    *)
(* although it gives the port away between any two pixels.                 *)
Filled ==
  LET at(x, y) == CellAt(blit.base + (y - blit.y1) * blit.pitch + x)
      Row == blit.y1 .. blit.y2
      Col == blit.x1 .. blit.x2
  IN [c \in Cells |->
        IF \E x \in Col, y \in Row : at(x, y) = c
        THEN LET p == CHOOSE p \in Col \X Row : at(p[1], p[2]) = c IN
             IF blit.colormode = 2 THEN blit.rgb32[(p[1] - blit.x1) % 2] ELSE blit.rgb
        ELSE blit_from[c]]
FillRight == [][blitter_enable = 1 /\ blitter_enable' = 0 /\ ~znrst => Posted' = Filled]_cardVars

(* A block copy that ends has moved the rectangle as if all of it had been *)
(* read before any of it was written, whichever way source and destination *)
(* overlap, although it goes through a buffer shorter than a row.          *)
Between(a, b) == IF a <= b THEN a .. b ELSE b .. a
Copied ==
  LET dst(x, y) == CellAt(blit.base + (y - blit.y1) * blit.pitch + x)
      src(x, y) == CellAt(blit.base2 + (y - blit.y1) * blit.pitch + x + blit.x3 - blit.x1)
      Area == Between(blit.x1, blit.x2) \X Between(blit.y1, blit.y2)
  IN [c \in Cells |->
        IF \E p \in Area : dst(p[1], p[2]) = c
        THEN LET p == CHOOSE p \in Area : dst(p[1], p[2]) = c IN blit_from[src(p[1], p[2])]
        ELSE blit_from[c]]
CopyRight == [][blitter_enable = 4 /\ blitter_enable' = 0 /\ ~znrst => Posted' = Copied]_cardVars

(* The first word of every pair of a captured line is in memory once the   *)
(* line was saved and the port has been idle.  (The second word can be     *)
(* lost: a pair accepted just before a line fetch is written after the     *)
(* mode register was set to the full-page burst.)                          *)
CapturedFirstWords ==
  cap.line_saved /\ state = "idle" /\ ~got_transaction /\ ~ram_enable =>
    \A i \in 0 .. CaptureWidth - 1 : mem[CellAt(cap.base + 2 * i)] = CaptureWords[1]

(* Whatever was going on when the Amiga was reset, the configured card     *)
(* comes back to serving the bus.                                          *)
Recovers == zorro = "CONFIGURED" ~> (zorro = "Z3_IDLE" \/ znrst)
=============================================================================
