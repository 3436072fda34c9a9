----------------------------- MODULE RTGDriver -----------------------------
(***************************************************************************)
(* The board functions of mntgfx.card (gfx_vbcc/mntgfx.c).  A call is      *)
(* turned into the steps it takes, in the order of the code: register      *)
(* writes, polls of the card, bytes the processor moves itself.  The card  *)
(* moves between any two of them.  Picasso96 makes one call at a time.     *)
(***************************************************************************)
EXTENDS RTGCard, RTGLibrary

CONSTANTS
  Capture,             \* stands for the Amiga's video where a mode may stand
  Scripts,             \* what callers may do: calls, how many, may they close
  MNTVA_COLOR_15BIT    \* not defined in va2000.h; the gateware decodes 4

VARIABLES
  script,     \* the name of this behavior's script
  made,       \* calls made so far, up to the script's limit
  call,       \* the call that runs, or NULL
  todo,       \* the steps it still has to take
  ret,        \* the last value returned, with its call
  expected,   \* history: the video memory as the calls so far should leave it
  colors,     \* history: the palette likewise
  shown,      \* history: the mode last set or Capture, and the address panned to
  settled     \* history: a call has switched between capture and RTG

taskVars == <<script, made, call, todo, ret>>
historyVars == <<expected, colors, shown, settled>>
vars == <<cardVars, libraryVars, taskVars, historyVars>>

MNTVA_COLOR_8BIT == 0
MNTVA_COLOR_16BIT565 == 1
MNTVA_COLOR_32BIT == 2
MNTVA_COLOR_1BIT == 3
MNTVA_CLK_75MHZ == 0
MNTVA_CLK_40MHZ == 1
MNTVA_CLK_100MHZ == 3
RTG_COLOR_FORMAT_CLUT == 1
CLOCK_HZ == 75000000

Set(name, v) == <<[do |-> "reg", name |-> name, val |-> v]>>
Scratch(v) == <<[do |-> "scratch", val |-> v]>>
Await(what) == <<[do |-> "await", for |-> what]>>
Move(dst, src) == [do |-> "move", dst |-> dst, src |-> src]
Paint(dst, v) == [do |-> "paint", dst |-> dst, val |-> v]
Color(address, v) == [do |-> "color", address |-> address, val |-> v]
If(condition, steps) == IF condition THEN steps ELSE <<>>
-----------------------------------------------------------------------------
CalcPitchBytes_ShiftAll(w, colormode) == IF colormode = MNTVA_COLOR_1BIT THEN w \div 8 ELSE (w * 2^colormode) % 65536
CalcPitchBytes(w, colormode) ==
  IF colormode = MNTVA_COLOR_1BIT THEN w \div 8
  ELSE IF colormode = MNTVA_COLOR_15BIT THEN (w * 2) % 65536
  ELSE (w * 2^colormode) % 65536

RtgToMnt(format) ==
  CASE format = RTG_COLOR_FORMAT_CLUT -> MNTVA_COLOR_8BIT
    [] format \in {8, 9} -> MNTVA_COLOR_32BIT
    [] format = 0 -> MNTVA_COLOR_1BIT
    [] format \in {11, 13, 5} -> MNTVA_COLOR_15BIT
    [] OTHER -> MNTVA_COLOR_16BIT565

PitchToShift(p) == IF \E k \in 8..13 : p = 2^k THEN CHOOSE k \in 8..13 : p = 2^k ELSE 0

(* The timings of init_modeline; every other size gets that of 800x600.    *)
ModeLine_ByWidth(w, h) ==
  CASE w = 1024 -> <<1048, 1184, 1328, 771, 777, 806, MNTVA_CLK_75MHZ>>
    [] w = 1280 -> <<1390, 1430, 1650, 725, 730, 750, MNTVA_CLK_75MHZ>>
    [] w = 1920 -> <<1992, 2000, 2287, 1083, 1088, 1109, MNTVA_CLK_75MHZ>>
    [] OTHER    -> <<840, 968, 1056, 601, 605, 628, MNTVA_CLK_40MHZ>>
ModeLine(w, h) ==
  CASE w = 1024 /\ h = 768  -> <<1048, 1184, 1328, 771, 777, 806, MNTVA_CLK_75MHZ>>
    [] w = 1280 /\ h = 720  -> <<1390, 1430, 1650, 725, 730, 750, MNTVA_CLK_75MHZ>>
    [] w = 1280 /\ h = 1024 -> <<1328, 1440, 1600, 1025, 1028, 1066, MNTVA_CLK_100MHZ>>
    [] w = 1920 /\ h = 1080 -> <<1992, 2000, 2287, 1083, 1088, 1109, MNTVA_CLK_75MHZ>>
    [] OTHER                -> <<840, 968, 1056, 601, 605, 628, MNTVA_CLK_40MHZ>>
TimingRegisters ==
  <<"h_sync_start", "h_sync_end", "h_max", "v_sync_start", "v_sync_end", "v_max", "pixel_clk_sel">>
InitModeLine(w, h) ==
  [k \in DOMAIN TimingRegisters |->
     [do |-> "reg", name |-> TimingRegisters[k], val |-> ModeLine(w, h)[k]]]

InitModePitch(w, colormode) ==
  LET pitch == CalcPitchBytes(w, colormode) \div 2
  IN  Set("row_pitch", pitch) \o Set("row_pitch_shift", PitchToShift(pitch))

TooSmall(m) == m.width < 320 \/ m.height < 200
Doubled(m) == ~(m.height > 360 \/ m.width > 640)
ScreenW(m) == IF Doubled(m) THEN 2 * m.width ELSE m.width
ScreenH(m) ==
  IF ~Doubled(m) THEN m.height ELSE IF 2 * m.height < 480 THEN 480 ELSE 2 * m.height

(* Where in the line fetching may go on, by mode. *)
SafeAreaSteps(m, colormode) ==
  Set("safe_x2", 480) \o
  (CASE colormode = MNTVA_COLOR_32BIT /\ m.width >= 1024 ->
          Set("safe_x2", 384) \o Set("fetch_preroll", 384)
     [] colormode \in {MNTVA_COLOR_16BIT565, MNTVA_COLOR_15BIT} /\ m.width = 1280 ->
          Set("safe_x2", 464) \o Set("fetch_preroll", 464)
     [] colormode = MNTVA_COLOR_8BIT /\ m.width = 800 ->
          Set("safe_x2", 496) \o Set("fetch_preroll", 496)
     [] OTHER -> Set("fetch_preroll", 480))

ScreenSteps_LineFirst(w, h, colormode) ==
  If(colormode = MNTVA_COLOR_32BIT, Set("line_w", 4 + 2 * w))
  \o If(colormode = MNTVA_COLOR_8BIT, Set("line_w", w \div 2))
  \o Set("screen_w", w) \o Set("screen_h", h)
(* After screen_w, so that line_w decides how many words a line has. *)
ScreenSteps(w, h, colormode) ==
  Set("screen_w", w) \o Set("screen_h", h)
  \o If(colormode = MNTVA_COLOR_32BIT, Set("line_w", 4 + 2 * w))
  \o If(colormode = MNTVA_COLOR_8BIT, Set("line_w", w \div 2))

(* init_mode; mode_info and border are set before its first step. *)
InitMode(m, format) ==
  LET colormode == RtgToMnt(format)
      w == ScreenW(m)
      h == ScreenH(m)
      scale == IF Doubled(m) THEN 1 ELSE 0
  IN  If(~TooSmall(m),
        Await("vsync") \o SafeAreaSteps(m, colormode)
        \o Set("ram_fetch_delay2_max", IF colormode = MNTVA_COLOR_32BIT THEN 10 ELSE 23)
        \o InitModeLine(w, h) \o InitModePitch(w, colormode)
        \o Set("colormode", colormode) \o Set("scalemode", 4 * scale + scale)
        \o ScreenSteps(w, h, colormode)
        \o InitModeLine(w, h))

CaptureW == regs.capture_default_screen_w
CaptureH == regs.capture_default_screen_h
(* monitor_switch(0): capture at the end of the video memory. *)
CaptureSteps_NoScratch ==
  Set("pan_ptr_hi", 248) \o Set("pan_ptr_lo", 0)
  \o InitModeLine(CaptureW, CaptureH) \o InitModePitch(CaptureW, MNTVA_COLOR_16BIT565)
  \o Set("screen_w", CaptureW) \o Set("screen_h", CaptureH)
  \o Set("colormode", MNTVA_COLOR_16BIT565) \o Set("scalemode", 0)
  \o Set("ram_fetch_delay2_max", 0) \o Set("capture_mode", 1)
CaptureSteps ==
  Set("pan_ptr_hi", 248) \o Set("pan_ptr_lo", 0)
  \o InitModeLine(CaptureW, CaptureH) \o InitModePitch(CaptureW, MNTVA_COLOR_16BIT565)
  \o Set("screen_w", CaptureW) \o Set("screen_h", CaptureH)
  \o Set("colormode", MNTVA_COLOR_16BIT565) \o Set("scalemode", 0)
  \o Set("ram_fetch_delay2_max", 0)
  \o Set("capture_mode", 1) \o Scratch(1)
RtgSteps == Set("capture_mode", 0) \o Scratch(0)
MonitorSwitch_KeepsMode(state) == IF state = 0 THEN CaptureSteps ELSE RtgSteps
MonitorSwitch(state) ==
  IF state = 0 THEN CaptureSteps
  ELSE RtgSteps \o InitMode(board.mode_info, board.color_format)

(* pan: the offset in words, from a page of 1024 words on. *)
PanTo(address) ==
  LET offset == (address - board.memory) \div 2
  IN  Set("pan_ptr_hi", HighWord(offset))
      \o Set("pan_ptr_lo", LowWord(offset) - (LowWord(offset) % 1024))
Pan(address) == RtgSteps \o PanTo(address)

MapAddress_Word(address) ==
  IF address > board.memory /\ address < board.memory + board.memory_size
  THEN address - (address % 2) ELSE address
MapAddress(address) ==
  IF address > board.memory /\ address < board.memory + board.memory_size
  THEN address - (address % 4096) ELSE address

(* b->palette[j]: entry j \div 3, channel j % 3, of the palette named tag. *)
PaletteByte(tag, j) == <<tag, j \div 3, (j % 3) + 1>>
SetPalette_Straight(idx, len, tag) ==
  [n \in 1..3 * len |->
     LET i == idx + (n - 1) \div 3
         channel == (n - 1) % 3
     IN  Color(512 * (channel + 1) + 2 * i, PaletteByte(tag, (n - 1)))]
SetPalette(idx, len, tag) ==
  [n \in 1..3 * len |->
     LET i == idx + (n - 1) \div 3
         channel == (n - 1) % 3
     IN  Color(512 * (channel + 1) + 2 * i, PaletteByte(tag, 3 * i + channel))]
-----------------------------------------------------------------------------
(* A bitmap is given by its address from b->memory, its pitch and format.  *)
BytesPerPixel(format) == IF format = RTG_COLOR_FORMAT_CLUT THEN 1 ELSE IF format \in {8, 9} THEN 4 ELSE 2
WordsOf(r, row) == (r.memory + row * r.pitch) \div 2
At(r, x, y) == r.memory + y * r.pitch + x

SetBase(r, row) ==
  Set("blitter_src_hi", HighWord(WordsOf(r, row))) \o Set("blitter_src_lo", LowWord(WordsOf(r, row)))
SetBase2(r, row) ==
  Set("blitter_dst_hi", HighWord(WordsOf(r, row))) \o Set("blitter_dst_lo", LowWord(WordsOf(r, row)))

(* Every pixel of a column is written by the processor. *)
PaintColumn(r, x, y, h, v) == [k \in 1..h |-> Paint(At(r, x, y + k - 1), v)]

StartFill_NoWait(x1, y1, x2, y2) ==
  Set("blitter_x1", x1) \o Set("blitter_y1", y1) \o Set("blitter_x2", x2) \o Set("blitter_y2", y2)
  \o Set("blitter_enable", 1)
StartFill(x1, y1, x2, y2) ==
  Set("blitter_x1", x1) \o Set("blitter_y1", y1) \o Set("blitter_x2", x2) \o Set("blitter_y2", y2)
  \o Set("blitter_enable", 1) \o Await("blitter")

(* rect_fill in CLUT: the blitter moves words, so that an odd column at    *)
(* either side is left to the processor.                                   *)
FillClut(r, x, y, w, h, color) ==
  LET left == x % 2
      right == (w - left) % 2
      from == (x + left) \div 2
      words == (w - left - right) \div 2
  IN  Set("blitter_rgb16", color * 257) \o Set("blitter_colormode", MNTVA_COLOR_8BIT)
      \o If(left = 1, PaintColumn(r, x, y, h, color))
      \o If(right = 1, PaintColumn(r, x + w - 1, y, h, color))
      \o If(words > 0, StartFill(from, y, from + words - 1, y + h - 1))
FillTrueColor(x, y, w, h, color) ==
  Set("blitter_rgb16", HighWord(color)) \o Set("blitter_rgb32_hi", HighWord(color))
  \o Set("blitter_rgb32_lo", LowWord(color)) \o Set("blitter_colormode", MNTVA_COLOR_32BIT)
  \o StartFill(2 * x, y, 2 * x + 2 * w - 1, y + h - 1)
FillHiColor(x, y, w, h, color) ==
  Set("blitter_rgb16", LowWord(color)) \o Set("blitter_colormode", MNTVA_COLOR_16BIT565)
  \o StartFill(x, y, x + w - 1, y + h - 1)
RectFill(r, x, y, w, h, color) ==
  Await("blitter") \o
  If(board.scratch # 1 /\ r # NULL,
     SetBase(r, y) \o Set("blitter_row_pitch", r.pitch \div 2)
     \o (CASE r.format = RTG_COLOR_FORMAT_CLUT -> FillClut(r, x, y, w, h, color)
           [] r.format \in {8, 9} -> FillTrueColor(x, y, w, h, color)
           [] OTHER -> FillHiColor(x, y, w, h, color)))

(* copy_column, from the bottom if it moves down. *)
CopyColumn(r, x, y, dx, dy, h, column) ==
  [k \in 1..h |->
     LET row == IF dy > y THEN h - k ELSE k - 1
     IN  Move(At(r, dx + column, dy + row), At(r, x + column, y + row))]

(* The blit of rect_copy: in words, from the far end if it moves that way. *)
StartCopy(r, x, y, dx, dy, w, h) ==
  LET firstY(row) == IF dy < y THEN row ELSE row + h - 1
      lastY(row) == IF dy < y THEN row + h - 1 ELSE row
      firstX(column) == IF dx < x THEN column ELSE column + w - 1
      lastX(column) == IF dx < x THEN column + w - 1 ELSE column
  IN  Set("blitter_y1", firstY(dy)) \o Set("blitter_y2", lastY(dy))
      \o Set("blitter_y3", firstY(y)) \o Set("blitter_y4", lastY(y))
      \o Set("blitter_x1", firstX(dx)) \o Set("blitter_x2", lastX(dx))
      \o Set("blitter_x3", firstX(x)) \o Set("blitter_x4", lastX(x))
      \o SetBase(r, firstY(dy)) \o SetBase2(r, firstY(y))
      \o Set("blitter_enable", 2) \o Await("blitter")

(* rect_copy in CLUT.  The column at an odd side goes by the processor:    *)
(* the one that the blit would overwrite before, the other one after it.   *)
Early_LeftFirst(reverse, left, right) == left
Early(reverse, left, right) == IF reverse THEN right ELSE left
Late(reverse, left, right) == IF reverse THEN left ELSE right
CopyClut(r, x, y, dx, dy, w, h) ==
  LET odd == x % 2
      even == (x + w) % 2     \* the last column is even
      column(c) == CopyColumn(r, x, y, dx, dy, h, c)
      left == If(odd = 1, column(0))
      right == If(even = 1, column(w - 1))
      words == (w - odd - even) \div 2
  IN  Early(dx >= x, left, right)
      \o StartCopy(r, (x + odd) \div 2, y, (dx + odd) \div 2, dy, words, h)
      \o Late(dx >= x, left, right)
(* Picasso96 gives a bitmap with every copy: the code's provision for NULL *)
(* is left out.                                                            *)
RectCopy(r, x, y, dx, dy, w, h) ==
  Await("blitter") \o
  If(board.scratch # 1,
     Set("blitter_row_pitch", r.pitch \div 2) \o
     (CASE w < 4 \/ h < 2 \/ (r.format = RTG_COLOR_FORMAT_CLUT /\ dx % 2 # x % 2) ->
             <<[do |-> "fallback"]>>
        [] ~(w < 4 \/ h < 2) /\ r.format = RTG_COLOR_FORMAT_CLUT /\ dx % 2 = x % 2 ->
             CopyClut(r, x, y, dx, dy, w, h)
        [] ~(w < 4 \/ h < 2) /\ r.format \in {8, 9} -> StartCopy(r, 2 * x, y, 2 * dx, dy, 2 * w, h)
        [] OTHER -> StartCopy(r, x, y, dx, dy, w, h)))
-----------------------------------------------------------------------------
(* What a blit should leave, pixel by pixel: the reference for both above. *)
Pixel(r, a) ==  \* of byte a: row, column and place in the pixel
  LET away == a - r.memory
      column == away % r.pitch
      bytes == BytesPerPixel(r.format)
  IN  [row |-> away \div r.pitch, column |-> column \div bytes, byte |-> column % bytes]
Inside(r, a, x, y, w, h) ==
  /\ a >= r.memory
  /\ Pixel(r, a).row \in y..y + h - 1 /\ Pixel(r, a).column \in x..x + w - 1
ColorByte(r, color, k) == (color \div 256^(BytesPerPixel(r.format) - 1 - k)) % 256
AfterFill(c) ==
  [a \in DOMAIN mem |->
     IF Inside(c.bitmap, a, c.x, c.y, c.w, c.h)
     THEN ColorByte(c.bitmap, c.color, Pixel(c.bitmap, a).byte) ELSE mem[a]]
AfterCopy(c) ==
  [a \in DOMAIN mem |->
     IF Inside(c.bitmap, a, c.dx, c.dy, c.w, c.h)
     THEN mem[a - (c.dy - c.y) * c.bitmap.pitch - (c.dx - c.x) * BytesPerPixel(c.bitmap.format)]
     ELSE mem[a]]
-----------------------------------------------------------------------------
(* The steps of a call.  Functions that only answer have none. *)
Steps(c) ==
  CASE c.fn = "init_mode"      -> InitMode(c.mode, c.format)
    [] c.fn = "monitor_switch" -> MonitorSwitch(c.state)
    [] c.fn = "pan"            -> Pan(MapAddress(c.address))
    [] c.fn = "set_palette"    -> SetPalette(c.idx, c.len, c.tag)
    [] c.fn = "rect_fill"      -> RectFill(c.bitmap, c.x, c.y, c.w, c.h, c.color)
    [] c.fn = "rect_copy"      -> RectCopy(c.bitmap, c.x, c.y, c.dx, c.dy, c.w, c.h)
    [] c.fn = "vsync_wait"     -> Await("vsync")
    [] c.fn = "blitter_wait"   -> Await("blitter")
    [] OTHER -> <<>>
Answers(c) ==
  CASE c.fn = "monitor_switch" -> {1 - c.state}
    [] c.fn = "get_pitch" -> {CalcPitchBytes(c.width, RtgToMnt(c.format))}
    [] c.fn = "map_address" -> {MapAddress(c.address)}
    [] c.fn = "is_vsynced" -> {-1, 0}
    [] c.fn = "enable_display" -> {1}
    [] c.fn = "get_pixelclock_hz" -> {CLOCK_HZ}
    [] OTHER -> {0}

(* A board lies at a multiple of its 64 KB of registers, with no more      *)
(* memory than pan_ptr reaches: the 2^24 words of the SDRAM.              *)
ASSUME BoardsAssumption ==
  \A cd \in ConfigDevs : Found(cd) =>
    /\ cd.address \in Nat /\ cd.size \in Nat
    /\ cd.address % RegisterSpace = 0 /\ cd.size - RegisterSpace <= 2 * (256 * 65536)
ASSUME ColorAssumption == MNTVA_COLOR_15BIT \in 4..7   \* colormode has three bits

(* What Picasso96 keeps to of what the driver advertised: no mode above    *)
(* max_res and none of an odd width, no bitmap wider than max_bitmap, no   *)
(* color beyond the last, and what it pans to lies in the board's memory.  *)
IsMode(m) ==
  /\ m # Capture /\ m.width \in 0..1920 /\ m.width % 2 = 0 /\ m.height \in 0..1080
IsBitmap(r) == r.memory \in Nat /\ r.pitch \in Nat /\ r.format \in Nat
Numbers(S) == \A n \in S : n \in Nat
ASSUME CallsAssumption ==
  \A s \in DOMAIN Scripts : \A c \in Scripts[s].calls :
    /\ c # NULL
    /\ c.fn = "init_mode" => IsMode(c.mode)
    /\ c.fn = "get_pitch" => c.width \in 0..MaxBitmap
    /\ c.fn = "set_palette" => c.idx \in Nat /\ c.len \in Nat /\ c.idx + c.len <= 256
    /\ c.fn = "pan" => \A cd \in ConfigDevs : Found(cd) =>
         c.address \in cd.address + RegisterSpace..cd.address + cd.size - 1
    /\ c.fn = "rect_fill" =>
         (c.bitmap = NULL \/ IsBitmap(c.bitmap)) /\ Numbers({c.x, c.y, c.w, c.h, c.color})
    /\ c.fn = "rect_copy" => IsBitmap(c.bitmap) /\ Numbers({c.x, c.y, c.dx, c.dy, c.w, c.h})

(* Picasso96 sets color_format before it calls init_mode, switches to a    *)
(* mode only after it has set one, and pans to addresses it has mapped.    *)
Callable(c) ==
  /\ c.fn = "init_mode" => c.format \in board.color_formats
  /\ c.fn = "monitor_switch" /\ c.state # 0 => board.mode_info # NULL
Shows(m, format) == IF TooSmall(m) THEN shown
                    ELSE [shown EXCEPT !.mode = m, !.format = format]
Begin(c) ==
  /\ c.fn \in board.functions /\ Callable(c)
  /\ made' = IF Scripts[script].limit = 0 THEN 0 ELSE made + 1
  /\ call' = c /\ todo' = Steps(c)
  /\ ret' \in {[call |-> c, value |-> v] : v \in Answers(c)}
  /\ board' = IF c.fn = "init_mode"
              THEN [board EXCEPT !.mode_info = c.mode, !.border = c.border, !.color_format = c.format]
              ELSE board
  /\ expected' = IF c.fn \notin {"rect_fill", "rect_copy"} \/ board.scratch = 1 \/ c.bitmap = NULL THEN mem
                 ELSE IF c.fn = "rect_fill" THEN AfterFill(c) ELSE AfterCopy(c)
  /\ colors' = IF c.fn # "set_palette" THEN colors
               ELSE [t \in 1..3 |-> [e \in Entries |->
                      IF e \in c.idx..c.idx + c.len - 1 THEN <<c.tag, e, t>> ELSE colors[t][e]]]
  /\ shown' = CASE c.fn = "init_mode" -> Shows(c.mode, c.format)
                [] c.fn = "monitor_switch" /\ c.state = 0 ->
                     [mode |-> Capture, format |-> 10, at |-> board.memory + 2 * 16252928]
                [] c.fn = "monitor_switch" /\ c.state # 0 -> Shows(board.mode_info, board.color_format)
                [] c.fn = "pan" -> [shown EXCEPT !.at = MapAddress(c.address)]
                [] OTHER -> shown
  /\ settled' = (settled \/ c.fn \in {"monitor_switch", "pan"})
  /\ UNCHANGED <<script, cardVars, base, users, asked>>

(* One step of the call that runs. *)
Step == Head(todo)
Taking(what) == todo # <<>> /\ Step.do = what /\ todo' = Tail(todo)
Mine == UNCHANGED <<script, made, call, ret, historyVars>>
WriteRegister ==
  /\ Taking("reg")
  /\ IF Step.name = "blitter_enable" THEN blit' = Step.val /\ UNCHANGED regs
     ELSE regs' = Written(regs, Step.name, Step.val) /\ UNCHANGED blit
  /\ Mine /\ UNCHANGED <<palette, mem, libraryVars>>
WriteScratch ==
  /\ Taking("scratch") /\ board' = [board EXCEPT !.scratch = Step.val]
  /\ Mine /\ UNCHANGED <<cardVars, base, users, asked>>
(* vsync is high for some lines of every frame. *)
AwaitVsync == Taking("await") /\ Step.for = "vsync" /\ Mine /\ UNCHANGED <<cardVars, libraryVars>>
AwaitBlitter ==
  /\ Taking("await") /\ Step.for = "blitter" /\ blit = 0
  /\ Mine /\ UNCHANGED <<cardVars, libraryVars>>
MoveByte ==
  /\ Taking("move") /\ mem' = Stored(mem, Step.dst, Byte(mem, Step.src))
  /\ Mine /\ UNCHANGED <<regs, palette, blit, libraryVars>>
PaintByte ==
  /\ Taking("paint") /\ mem' = Stored(mem, Step.dst, Step.val)
  /\ Mine /\ UNCHANGED <<regs, palette, blit, libraryVars>>
WriteColor ==
  /\ Taking("color") /\ palette' = PaletteWritten(Step.address, Step.val)
  /\ Mine /\ UNCHANGED <<regs, mem, blit, libraryVars>>
(* Picasso96's own copy, taken to be right. *)
Fallback ==
  /\ Taking("fallback") /\ mem' = expected
  /\ Mine /\ UNCHANGED <<regs, palette, blit, libraryVars>>
Return ==
  /\ call # NULL /\ todo = <<>> /\ call' = NULL
  /\ UNCHANGED <<script, made, todo, ret, historyVars, cardVars, libraryVars>>

Work ==
  \/ WriteRegister \/ WriteScratch \/ AwaitVsync \/ AwaitBlitter
  \/ MoveByte \/ PaintByte \/ WriteColor \/ Fallback \/ Return
Card == BlitDone /\ UNCHANGED <<libraryVars, taskVars, historyVars>>

(* Whoever has a call running keeps the library open; some scripts do      *)
(* nothing else, the others open it once.                                  *)
Manage ==
  /\ call = NULL
  /\ \/ Scripts[script].library /\ LibraryStep
     \/ users = 0 /\ OpenLib
     \/ InitCard
     \/ \E cd \in ConfigDevs : FindCard(cd)
  /\ UNCHANGED <<cardVars, taskVars, historyVars>>
Caller ==
  /\ call = NULL /\ board.ready /\ users > 0
  /\ Scripts[script].limit = 0 \/ made < Scripts[script].limit
  /\ \E c \in Scripts[script].calls : Begin(c)

Next == Caller \/ Work \/ Card \/ Manage

Init ==
  /\ CardInit /\ LibraryInit
  /\ script \in DOMAIN Scripts /\ made = 0 /\ call = NULL /\ todo = <<>>
  /\ ret = [call |-> NULL, value |-> 0] /\ expected = mem /\ colors = palette
  /\ shown = [mode |-> Capture, format |-> 10, at |-> 0] /\ settled = FALSE

Spec == Init /\ [][Next]_vars
(* The task that called is run, and the blitter goes on. *)
FairSpec == Spec /\ WF_vars(Work) /\ WF_vars(Card)
-----------------------------------------------------------------------------
(* Types; registers keep as many bits as the gateware gives them, and no   *)
(* call comes back with steps left or the blitter still at work.           *)
TwelveBits == 0..4095
TimingsTypeOK ==
  \A k \in DOMAIN TimingRegisters : regs[TimingRegisters[k]] \in 0..2^Bits(TimingRegisters[k]) - 1
DriverTypeOK ==
  /\ regs.fetch_w \in TwelveBits /\ regs.h_rez \in TwelveBits /\ regs.v_rez \in TwelveBits /\ TimingsTypeOK
  /\ regs.colormode \in 0..7 /\ regs.capture_mode \in 0..1 /\ blit \in 0..2
  /\ users \in 0..MaxUsers /\ board.scratch \in 0..1
  /\ call = NULL => todo = <<>> /\ blit = 0

Idle == call = NULL

(* A fill or copy has drawn its rectangle and nothing else when it         *)
(* returns: odd columns left to the processor, overlapping rectangles,     *)
(* every direction, and no pixel while the Amiga's video is captured.      *)
DrawnRight == Idle => mem = expected

(* The blitter never works while captured video is stored: what the driver *)
(* remembers in scratch is what the card does, between the two writes of a *)
(* switch too.  From power-up to the first pan or switch it does not know. *)
NoBlitInCapture == settled /\ blit # 0 => regs.capture_mode = 0

(* What a line shows is fetched, in every colour mode: line_w and screen_w *)
(* are two names of one counter, and the last write wins.                  *)
PixelsOf(words, colormode) ==
  CASE colormode = MNTVA_COLOR_8BIT -> 2 * words
    [] colormode = MNTVA_COLOR_32BIT -> words \div 2
    [] OTHER -> words
LineFits == Idle => PixelsOf(regs.fetch_w, regs.colormode) * (regs.scale_h + 1) >= regs.h_rez

(* The picture ends before the sync pulses begin, in both directions. *)
TimingFits ==
  Idle => /\ regs.h_rez <= regs.h_sync_start /\ regs.h_sync_start < regs.h_sync_end /\ regs.h_sync_end < regs.h_max
          /\ regs.v_rez <= regs.v_sync_start /\ regs.v_sync_start < regs.v_sync_end /\ regs.v_sync_end < regs.v_max

(* The card shows what was asked for last: the size and the colors of the  *)
(* mode, at the address it was panned to; switching away and back, modes   *)
(* turned down and capture between two modes included.                     *)
ShownRight ==
  Idle /\ settled =>
    /\ regs.colormode = RtgToMnt(shown.format)
    /\ IF shown.mode = Capture
       THEN regs.h_rez = regs.capture_default_screen_w /\ regs.v_rez = regs.capture_default_screen_h
       ELSE /\ regs.h_rez = shown.mode.width * (regs.scale_h + 1)
            /\ regs.v_rez >= shown.mode.height * (regs.scale_v + 1)

(* An address Picasso96 has had mapped is shown from its first pixel on:   *)
(* the alignment of map_address and the mask of pan fit each other.        *)
PanExact ==
  Idle /\ settled /\ shown.at # 0 =>
    board.memory + 2 * (regs.pan_ptr_hi * 65536 + regs.pan_ptr_lo) = shown.at

(* The palette is the one last set, entry by entry and channel by channel. *)
PaletteRight == Idle => palette = colors

(* The bytes of a row in every advertised format, without wrapping. *)
PitchRight ==
  ret.call # NULL =>
    (ret.call.fn = "get_pitch" /\ ret.call.format # 0 =>
       ret.value = ret.call.width * BytesPerPixel(ret.call.format))

(* The library is not freed under anybody who has it open, and an expunge  *)
(* put off for somebody is carried out when the last one closes it.        *)
LibraryLives ==
  /\ users > 0 => base.loaded
  /\ asked => users > 0

(* Every call of Picasso96 comes back. *)
CallsEnd == call # NULL ~> call = NULL
=============================================================================
