--------------------------- MODULE RTGDriverProofs --------------------------
(***************************************************************************)
(* What the graphics driver leaves on the card, for every board, script of *)
(* calls and size of the followed memory: no blit in capture mode, the     *)
(* palette, the pitch, the mode, its timings and the panned address.       *)
(***************************************************************************)
EXTENDS RTGProofs

(* Somebody may ask for this mode. *)
AskedFor(m) == \E s \in DOMAIN Scripts : \E c \in Scripts[s].calls : c.fn = "init_mode" /\ c.mode = m

(* The board is one that FindCard turned up; a mode is one that was set.   *)
BoardInv ==
  /\ DOMAIN board = {"found", "ready", "memory", "memory_size", "registers", "color_formats", "functions",
                     "max_bitmap", "max_res", "mode_info", "border", "color_format", "scratch"}
  /\ board.found \/ board.ready =>
       \E cd \in ConfigDevs :
         /\ Found(cd) /\ board.memory = cd.address + RegisterSpace
         /\ board.memory_size = cd.size - RegisterSpace
  /\ board.mode_info # NULL => AskedFor(board.mode_info)
  /\ board.scratch \in 0..1
  /\ users <= MaxUsers

(* The steps left are well formed, and only of a call that runs.           *)
CallInv ==
  /\ script \in DOMAIN Scripts
  /\ IsSeq(todo) /\ \A x \in StepsOf(todo) : WellFormed(x)
  /\ call = NULL => todo = <<>>

(* Whoever started the blitter waits for it, and a call that starts it     *)
(* leaves the capture of video alone.                                      *)
Busy == blit # 0 \/ \E x \in StepsOf(todo) : Starts(x)
BlitInv ==
  /\ blit \in 0..2
  /\ Guarded(todo)
  /\ blit # 0 => \E x \in StepsOf(todo) : Waits(x)
  /\ Busy => board.scratch = 0 /\ Quiet(todo)

(* What scratch remembers is what the card does, but for the moment        *)
(* between the two writes of a switch.                                     *)
CaptureInv ==
  settled =>
    \/ Quiet(todo) /\ regs.capture_mode = board.scratch
    \/ \E v \in 0..1 : \E k \in 1..Len(todo) - 1 : SwitchesAt(todo, k, v)
    \/ todo # <<>> /\ Remembers(Head(todo), regs.capture_mode) /\ Quiet(Tail(todo))

(* An entry has its color or is about to get it. *)
PaletteInv ==
  /\ palette = [t \in 1..3 |-> [e \in Entries |-> palette[t][e]]]
  /\ colors = [t \in 1..3 |-> [e \in Entries |-> colors[t][e]]]
  /\ \A t \in 1..3, e \in Entries :
       /\ \A x \in StepsOf(todo) : Hits(x, t, e) => x.val = colors[t][e]
       /\ palette[t][e] = colors[t][e] \/ \E x \in StepsOf(todo) : Hits(x, t, e)

(* A pitch returned is that of the call.                                   *)
PitchInv ==
  ret.call # NULL =>
    /\ ret.call.fn = "get_pitch" => ret.call.width \in 0..MaxBitmap
    /\ ret.call.fn = "get_pitch" => ret.value = CalcPitchBytes(ret.call.width, RtgToMnt(ret.call.format))

(* Registers in the range the gateware gives them. *)
RegistersInv == KeepsBits(regs)

(* The mode that is shown, or is when the call comes back. *)
Captured == shown.mode = Capture
ShownW == IF Captured THEN 640 ELSE ScreenW(shown.mode)
ShownH == IF Captured THEN 512 ELSE ScreenH(shown.mode)
ShownScale == IF ~Captured /\ Doubled(shown.mode) THEN 1 ELSE 0
ShownColor == RtgToMnt(shown.format)
PictureDue(w, h, color, scale) == PictureIn(todo, regs, w, h, color, scale)
ShownInv ==
  /\ DOMAIN shown = {"mode", "format", "at"}
  /\ ~Captured => AskedFor(shown.mode) /\ ~TooSmall(shown.mode)
  /\ Captured => ShownColor = MNTVA_COLOR_16BIT565
  /\ PictureDue(ShownW, ShownH, ShownColor, ShownScale)

(* The timing is that of the mode, or still that of power-up.              *)
TimingDue(line) == TimingIn(todo, regs, line)
PowerUpLine == [k \in 1..7 |-> PowerUp[TimingRegisters[k]]]
TimingInv == TimingDue(ModeLine(ShownW, ShownH)) \/ (Captured /\ TimingDue(PowerUpLine))

(* The address panned to is a page of 1024 words in the board's memory.    *)
Offset == (shown.at - board.memory) \div 2
PanInv ==
  shown.at # 0 =>
    /\ board.ready /\ Offset \in Nat /\ shown.at = board.memory + 2 * Offset
    /\ PanIn(todo, regs, HighWord(Offset), LowWord(Offset))

DriverInv ==
  /\ LibInv /\ BoardInv /\ CallInv /\ BlitInv /\ CaptureInv /\ PaletteInv /\ PitchInv
  /\ RegistersInv /\ ShownInv /\ TimingInv /\ PanInv
-----------------------------------------------------------------------------
(* A step of the call that runs, by what it does to each part of the state. *)
Taken ==
  /\ todo # <<>> /\ todo' = Tail(todo)
  /\ blit' = IF Starts(Head(todo)) THEN Head(todo).val ELSE blit
  /\ Waits(Head(todo)) => blit = 0
  /\ board' = IF Head(todo).do = "scratch" THEN [board EXCEPT !.scratch = Head(todo).val] ELSE board
  /\ palette' = IF Colors(Head(todo)) THEN PaletteWritten(Head(todo).address, Head(todo).val) ELSE palette
  /\ regs' = IF Head(todo).do = "reg" /\ ~Starts(Head(todo))
             THEN Written(regs, Head(todo).name, Head(todo).val) ELSE regs
  /\ UNCHANGED <<script, call, ret, colors, shown, settled, users>>

LEMMA WorkTakes == Work => Taken \/ Return
<1> USE DEF Taking, Step, Mine, historyVars, libraryVars, cardVars, Taken, Starts, Waits, Colors
<1>1. ASSUME WriteRegister PROVE Taken
  BY <1>1 DEF WriteRegister
<1>2. ASSUME WriteScratch PROVE Taken
  BY <1>2 DEF WriteScratch
<1>3. ASSUME AwaitVsync PROVE Taken
  BY <1>3 DEF AwaitVsync
<1>4. ASSUME AwaitBlitter PROVE Taken
  BY <1>4 DEF AwaitBlitter
<1>5. ASSUME MoveByte PROVE Taken
  BY <1>5 DEF MoveByte
<1>6. ASSUME PaintByte PROVE Taken
  BY <1>6 DEF PaintByte
<1>7. ASSUME WriteColor PROVE Taken
  BY <1>7 DEF WriteColor
<1>8. ASSUME Fallback PROVE Taken
  BY <1>8 DEF Fallback
<1>9. QED
  BY <1>1, <1>2, <1>3, <1>4, <1>5, <1>6, <1>7, <1>8 DEF Work

(* The steps left after one of them. *)
LEMMA TakenSteps ==
  ASSUME CallInv, Taken
  PROVE  /\ IsSeq(todo') /\ StepsOf(todo) = {Head(todo)} \cup StepsOf(todo') /\ WellFormed(Head(todo))
         /\ Len(todo) \in Nat \ {0} /\ Len(todo') = Len(todo) - 1 /\ Head(todo) = todo[1]
         /\ \A k \in 1..Len(todo) - 1 : todo'[k] = todo[k + 1]
<1>1. IsSeq(todo) /\ todo # <<>> /\ todo' = Tail(todo)
  BY DEF CallInv, Taken
<1>2. IsSeq(Tail(todo)) /\ StepsOf(todo) = {Head(todo)} \cup StepsOf(Tail(todo))
  BY <1>1, Headed
<1>3. QED
  BY <1>1, <1>2, Headed DEF CallInv

LEMMA CallTaken == ASSUME CallInv, Taken PROVE CallInv'
<1>1. IsSeq(todo') /\ StepsOf(todo) = {Head(todo)} \cup StepsOf(todo')
  BY TakenSteps
<1>2. call' = call /\ script' = script /\ todo # <<>>
  BY DEF Taken
<1>3. \A x \in StepsOf(todo') : WellFormed(x)
  BY <1>1 DEF CallInv
<1>4. QED
  BY <1>1, <1>2, <1>3 DEF CallInv

LEMMA BoardTaken == ASSUME BoardInv, CallInv, Taken PROVE BoardInv'
<1> DEFINE x == Head(todo)
<1>1. x.do = "scratch" => x.val \in 0..1
  BY TakenSteps DEF WellFormed
<1>2. board' = IF x.do = "scratch" THEN [board EXCEPT !.scratch = x.val] ELSE board
  BY DEF Taken
<1>3. users' = users
  BY DEF Taken
<1> HIDE DEF x
<1>4. /\ DOMAIN board' = DOMAIN board /\ board'.found = board.found /\ board'.ready = board.ready
      /\ board'.memory = board.memory /\ board'.memory_size = board.memory_size
      /\ board'.mode_info = board.mode_info /\ board'.scratch \in 0..1
  BY <1>1, <1>2 DEF BoardInv
<1>5. QED
  BY <1>3, <1>4 DEF BoardInv

LEMMA BlitTaken == ASSUME BlitInv, BoardInv, CallInv, Taken PROVE BlitInv'
<1> DEFINE x == Head(todo)
<1>1. /\ StepsOf(todo) = {x} \cup StepsOf(todo') /\ WellFormed(x) /\ x = todo[1]
      /\ Len(todo) \in Nat \ {0} /\ Len(todo') = Len(todo) - 1
      /\ \A k \in 1..Len(todo) - 1 : todo'[k] = todo[k + 1]
  BY TakenSteps
<1>2. /\ blit' = IF Starts(x) THEN x.val ELSE blit
      /\ Waits(x) => blit = 0
      /\ board' = IF x.do = "scratch" THEN [board EXCEPT !.scratch = x.val] ELSE board
  BY DEF Taken
<1> HIDE DEF x
<1>3. Starts(x) => x.val \in 1..2
  <2>1. "blitter_enable" \notin WrittenNames
    BY DEF WrittenNames, DisplayNames, BlitterNames, TimingNames, SizeNames, PanNames, OtherNames, ModeNames
  <2>2. QED
    BY <1>1, <2>1 DEF Starts, WellFormed
<1>4. blit' \in 0..2
  BY <1>2, <1>3 DEF BlitInv
<1>5. Guarded(todo')
  <2> SUFFICES ASSUME NEW k \in 1..Len(todo'), Starts(todo'[k])
               PROVE  \E j \in k + 1..Len(todo') : Waits(todo'[j])
    BY DEF Guarded
  <2>1. k + 1 \in 1..Len(todo) /\ Starts(todo[k + 1])
    BY <1>1
  <2>2. PICK j \in k + 2..Len(todo) : Waits(todo[j])
    <3>1. (k + 1) + 1 = k + 2
      BY <1>1
    <3>2. QED
      BY <2>1, <3>1 DEF BlitInv, Guarded
  <2>3. j - 1 \in k + 1..Len(todo') /\ j - 1 \in 1..Len(todo) - 1 /\ (j - 1) + 1 = j
    BY <1>1
  <2>4. todo'[j - 1] = todo[j]
    BY <1>1, <2>3
  <2>5. QED
    BY <2>2, <2>3, <2>4
<1>6. blit' # 0 => \E y \in StepsOf(todo') : Waits(y)
  <2>1. CASE Starts(x)
    <3>1. PICK j \in 2..Len(todo) : Waits(todo[j])
      <4>1. 1 \in 1..Len(todo) /\ Starts(todo[1]) /\ 1 + 1 = 2
        BY <1>1, <2>1
      <4>2. QED
        BY <4>1 DEF BlitInv, Guarded
    <3>2. j - 1 \in 1..Len(todo') /\ j - 1 \in 1..Len(todo) - 1 /\ (j - 1) + 1 = j
      BY <1>1
    <3>3. todo'[j - 1] = todo[j]
      BY <1>1, <3>2
    <3>4. QED
      BY <3>1, <3>2, <3>3 DEF StepsOf
  <2>2. CASE ~Starts(x)
    BY <1>1, <1>2, <2>2 DEF BlitInv
  <2>3. QED
    BY <2>1, <2>2
<1>7. Busy' => Busy
  BY <1>1, <1>2 DEF Busy
<1>8. Busy => board'.scratch = board.scratch /\ Quiet(todo')
  <2>1. Busy => Quiet(todo)
    BY DEF BlitInv
  <2>2. Quiet(todo) => ~Turns(x) /\ Quiet(todo')
    BY <1>1 DEF Quiet
  <2>3. ~Turns(x) => x.do # "scratch"
    BY DEF Turns
  <2>4. QED
    BY <1>2, <2>1, <2>2, <2>3
<1>9. QED
  BY <1>4, <1>5, <1>6, <1>7, <1>8 DEF BlitInv

LEMMA RegistersTaken ==
  ASSUME RegistersInv, CallInv, Taken
  PROVE  /\ RegistersInv' /\ Advances(regs, Head(todo), regs')
         /\ regs'.capture_mode = IF Head(todo).do = "reg" /\ Head(todo).name = "capture_mode"
                                 THEN Head(todo).val % 2 ELSE regs.capture_mode
<1> DEFINE x == Head(todo)
<1>1. WellFormed(x)
  BY TakenSteps
<1>2. regs' = IF x.do = "reg" /\ ~Starts(x) THEN Written(regs, x.name, x.val) ELSE regs
  BY DEF Taken
<1> HIDE DEF x
<1>3. CASE x.do = "reg" /\ ~Starts(x)
  <2>1. x.name \in WrittenNames /\ x.val \in Int /\ regs' = Written(regs, x.name, x.val)
    BY <1>1, <1>2, <1>3 DEF WellFormed, Starts
  <2>2. /\ KeepsBits(regs')
        /\ \A f \in ModeFields \cup PanNames \cup {"capture_mode"} :
             regs'[f] = IF f \in FieldsOf(x.name) THEN ValueOf(x.name, x.val, f) ELSE regs[f]
        /\ regs'.capture_mode = IF x.name = "capture_mode" THEN x.val % 2 ELSE regs.capture_mode
    BY <2>1, WrittenKeeps DEF RegistersInv
  <2>3. Advances(regs, x, regs')
    BY <1>3, <2>2 DEF Advances, Writes
  <2>4. QED
    BY <1>3, <2>2, <2>3 DEF RegistersInv, x
<1>4. CASE ~(x.do = "reg" /\ ~Starts(x))
  <2>1. regs' = regs /\ (x.do = "reg" => x.name = "blitter_enable")
    BY <1>2, <1>4 DEF Starts
  <2>2. FieldsOf("blitter_enable") = {"blitter_enable"} /\ "blitter_enable" \notin ModeFields \cup PanNames
    BY DEF FieldsOf, Undecoded, ModeFields, TimingNames, PanNames
  <2>3. Advances(regs, x, regs')
    BY <2>1, <2>2 DEF Advances, Writes
  <2>4. RegistersInv'
    BY <2>1 DEF RegistersInv
  <2>5. QED
    BY <2>1, <2>3, <2>4 DEF x
<1>5. QED
  BY <1>3, <1>4

LEMMA CaptureTaken ==
  ASSUME CaptureInv, RegistersInv, BoardInv, CallInv, Taken
  PROVE  CaptureInv'
<1> DEFINE x == Head(todo)
<1>1. /\ StepsOf(todo) = {x} \cup StepsOf(todo') /\ WellFormed(x) /\ x = todo[1]
      /\ Len(todo) \in Nat \ {0} /\ Len(todo') = Len(todo) - 1
      /\ \A k \in 1..Len(todo) - 1 : todo'[k] = todo[k + 1]
  BY TakenSteps
<1>2. /\ todo' = Tail(todo) /\ settled' = settled
      /\ board' = IF x.do = "scratch" THEN [board EXCEPT !.scratch = x.val] ELSE board
  BY DEF Taken
<1>3. board'.scratch = IF x.do = "scratch" THEN x.val ELSE board.scratch
  BY <1>2 DEF BoardInv
<1>4. regs'.capture_mode = IF x.do = "reg" /\ x.name = "capture_mode" THEN x.val % 2 ELSE regs.capture_mode
  BY RegistersTaken
<1> SUFFICES ASSUME settled
             PROVE  \/ Quiet(todo') /\ regs'.capture_mode = board'.scratch
                    \/ \E v \in 0..1 : \E k \in 1..Len(todo') - 1 : SwitchesAt(todo', k, v)
                    \/ todo' # <<>> /\ Remembers(Head(todo'), regs'.capture_mode) /\ Quiet(Tail(todo'))
  BY <1>2 DEF CaptureInv
<1> HIDE DEF x
<1>5. CASE Quiet(todo) /\ regs.capture_mode = board.scratch
  <2>1. Quiet(todo') /\ ~Turns(x)
    BY <1>1, <1>5 DEF Quiet
  <2>2. QED
    BY <1>3, <1>4, <1>5, <2>1 DEF Turns
<1>6. ASSUME NEW v \in 0..1, NEW k \in 1..Len(todo) - 1, SwitchesAt(todo, k, v)
      PROVE  \/ \E i \in 1..Len(todo') - 1 : SwitchesAt(todo', i, v)
             \/ todo' # <<>> /\ Remembers(Head(todo'), regs'.capture_mode) /\ Quiet(Tail(todo'))
  <2>1. CASE k = 1
    <3>1. Captures(x, v) /\ Remembers(todo[2], v) /\ \A j \in 3..Len(todo) : ~Turns(todo[j])
      BY <1>1, <1>6, <2>1 DEF SwitchesAt
    <3>2. regs'.capture_mode = v
      <4>1. v % 2 = v
        OBVIOUS
      <4>2. QED
        BY <1>4, <3>1, <4>1 DEF Captures
    <3>3. Len(todo') >= 1 /\ todo' # <<>> /\ IsSeq(todo')
      <4>1. Len(todo') >= 1
        BY <1>1
      <4>2. Len(<<>>) = 0
        OBVIOUS
      <4>3. QED
        BY <4>1, <4>2, TakenSteps
    <3>4. /\ Head(todo') = todo'[1] /\ Len(Tail(todo')) = Len(todo') - 1
          /\ \A j \in 1..Len(todo') - 1 : Tail(todo')[j] = todo'[j + 1]
      BY <3>3, Headed
    <3>5. Head(todo') = todo[2]
      BY <1>1, <3>3, <3>4
    <3>6. ASSUME NEW j \in 1..Len(Tail(todo')) PROVE ~Turns(Tail(todo')[j])
      <4>1. j \in 1..Len(todo') - 1 /\ j + 1 \in 1..Len(todo) - 1 /\ (j + 1) + 1 \in 3..Len(todo)
        BY <1>1, <3>4
      <4>2. Tail(todo')[j] = todo[(j + 1) + 1]
        BY <1>1, <3>4, <4>1
      <4>3. QED
        BY <3>1, <4>1, <4>2
    <3>7. Quiet(Tail(todo'))
      BY <3>6 DEF Quiet, StepsOf
    <3>8. QED
      BY <3>1, <3>2, <3>3, <3>5, <3>7
  <2>2. CASE k # 1
    <3> DEFINE i == k - 1
    <3>1. /\ i \in 1..Len(todo') - 1 /\ i \in 1..Len(todo) - 1 /\ i + 1 = k
          /\ i + 1 \in 1..Len(todo) - 1
      BY <1>1, <2>2
    <3>2. todo'[i] = todo[k] /\ todo'[i + 1] = todo[k + 1]
      BY <1>1, <3>1
    <3>3. ASSUME NEW j \in (1..Len(todo')) \ {i, i + 1} PROVE ~Turns(todo'[j])
      <4>1. j \in 1..Len(todo) - 1 /\ j + 1 \in (1..Len(todo)) \ {k, k + 1}
        BY <1>1, <3>1
      <4>2. QED
        BY <1>1, <1>6, <4>1 DEF SwitchesAt
    <3>4. SwitchesAt(todo', i, v)
      BY <1>6, <3>2, <3>3 DEF SwitchesAt
    <3>5. QED
      BY <3>1, <3>4
  <2>3. QED
    BY <2>1, <2>2
<1>7. CASE Remembers(x, regs.capture_mode) /\ Quiet(Tail(todo))
  BY <1>2, <1>3, <1>4, <1>7 DEF Remembers
<1>8. QED
  BY <1>5, <1>6, <1>7 DEF CaptureInv, x

LEMMA PaletteTaken == ASSUME PaletteInv, CallInv, Taken PROVE PaletteInv'
<1> DEFINE x == Head(todo)
           entry == (x.address \div 2) % 256
           row == Table(x.address)
<1>1. StepsOf(todo) = {x} \cup StepsOf(todo')
  BY TakenSteps
<1>2. /\ colors' = colors
      /\ palette' = IF Colors(x) THEN PaletteWritten(x.address, x.val) ELSE palette
  BY DEF Taken
<1>3. row \in 1..3 /\ \A t, e : Hits(x, t, e) <=> Colors(x) /\ row = t /\ entry = e
  BY DEF Table, Hits, Colors
<1>4. Colors(x) => palette' = IF entry \in Entries THEN [palette EXCEPT ![row][entry] = x.val] ELSE palette
  BY <1>2 DEF PaletteWritten
<1> HIDE DEF x, entry, row
<1>5. palette = [t \in 1..3 |-> [e \in Entries |-> palette[t][e]]]
  BY DEF PaletteInv
<1>6. /\ palette' = [t \in 1..3 |-> [e \in Entries |-> palette'[t][e]]]
      /\ \A t \in 1..3, e \in Entries : palette'[t][e] = IF Hits(x, t, e) THEN x.val ELSE palette[t][e]
  <2>1. CASE Colors(x) /\ entry \in Entries
    <3>1. palette' = [palette EXCEPT ![row][entry] = x.val]
      BY <1>4, <2>1
    <3>2. palette' = [t \in 1..3 |-> [e \in Entries |-> IF t = row /\ e = entry THEN x.val ELSE palette[t][e]]]
      BY <1>3, <1>5, <2>1, <3>1
    <3>3. QED
      BY <1>3, <2>1, <3>2
  <2>2. CASE ~(Colors(x) /\ entry \in Entries)
    <3>1. palette' = palette /\ \A t \in 1..3, e \in Entries : ~Hits(x, t, e)
      BY <1>2, <1>3, <1>4, <2>2
    <3>2. QED
      BY <1>5, <3>1
  <2>3. QED
    BY <2>1, <2>2
<1>7. ASSUME NEW t \in 1..3, NEW e \in Entries
      PROVE  /\ \A y \in StepsOf(todo') : Hits(y, t, e) => y.val = colors[t][e]
             /\ palette'[t][e] = colors[t][e] \/ \E y \in StepsOf(todo') : Hits(y, t, e)
  <2>1. /\ \A y \in StepsOf(todo) : Hits(y, t, e) => y.val = colors[t][e]
        /\ palette[t][e] = colors[t][e] \/ \E y \in StepsOf(todo) : Hits(y, t, e)
    BY DEF PaletteInv
  <2>2. palette'[t][e] = IF Hits(x, t, e) THEN x.val ELSE palette[t][e]
    BY <1>6
  <2>3. QED
    BY <1>1, <2>1, <2>2
<1>8. QED
  BY <1>2, <1>6, <1>7 DEF PaletteInv

(* The picture, its timing and its place come closer to what is due. *)
LEMMA ShowTaken ==
  ASSUME ShownInv, TimingInv, PanInv, RegistersInv, BoardInv, CallInv, Taken
  PROVE  ShownInv' /\ TimingInv' /\ PanInv'
<1>1. IsSeq(todo) /\ todo # <<>> /\ todo' = Tail(todo) /\ shown' = shown
  BY DEF CallInv, Taken
<1>2. Advances(regs, Head(todo), regs')
  BY RegistersTaken
<1>3. board'.ready = board.ready /\ board'.memory = board.memory
  BY DEF Taken, BoardInv
<1>4. /\ \A w, h, color, scale : PictureIn(todo, regs, w, h, color, scale) => PictureIn(todo', regs', w, h, color, scale)
      /\ \A line : TimingIn(todo, regs, line) => TimingIn(todo', regs', line)
      /\ \A high, low : PanIn(todo, regs, high, low) => PanIn(todo', regs', high, low)
  BY <1>1, <1>2, PictureTaken
<1>5. /\ Captured' = Captured /\ ShownW' = ShownW /\ ShownH' = ShownH
      /\ ShownScale' = ShownScale /\ ShownColor' = ShownColor
  BY <1>1 DEF Captured, ShownW, ShownH, ShownScale, ShownColor
<1>6. Offset' = Offset
  BY <1>1, <1>3 DEF Offset
<1>7. ShownInv'
  BY <1>1, <1>4, <1>5 DEF ShownInv, PictureDue
<1>8. TimingInv'
  BY <1>4, <1>5 DEF TimingInv, TimingDue
<1>9. PanInv'
  BY <1>1, <1>3, <1>4, <1>6 DEF PanInv
<1>10. QED
  BY <1>7, <1>8, <1>9

LEMMA WorkKeeps == ASSUME DriverInv, Work PROVE DriverInv'
<1>1. LibInv'
  BY WorkKeepsLibrary, LibInvKept DEF DriverInv
<1>2. CASE Taken
  <2>1. CallInv' /\ BoardInv' /\ BlitInv' /\ RegistersInv'
    BY <1>2, CallTaken, BoardTaken, BlitTaken, RegistersTaken DEF DriverInv
  <2>2. CaptureInv' /\ PaletteInv'
    BY <1>2, CaptureTaken, PaletteTaken DEF DriverInv
  <2>3. ShownInv' /\ TimingInv' /\ PanInv'
    BY <1>2, ShowTaken DEF DriverInv
  <2>4. PitchInv'
    BY <1>2 DEF Taken, PitchInv, DriverInv
  <2>5. QED
    BY <1>1, <2>1, <2>2, <2>3, <2>4 DEF DriverInv
<1>3. CASE Return
  <2>1. UNCHANGED <<script, todo, ret, colors, shown, settled, regs, palette, blit, users, board>>
    BY <1>3 DEF Return, historyVars, cardVars, libraryVars
  <2>2. CallInv'
    BY <1>3, <2>1 DEF Return, CallInv, DriverInv
  <2>3. BoardInv' /\ BlitInv' /\ CaptureInv' /\ PaletteInv' /\ PitchInv' /\ RegistersInv'
    BY <2>1 DEF DriverInv, BoardInv, BlitInv, Busy, CaptureInv, PaletteInv, PitchInv, RegistersInv
  <2>4. ShownInv' /\ TimingInv' /\ PanInv'
    BY <2>1 DEF DriverInv, ShownInv, TimingInv, PanInv, PictureDue, TimingDue, Captured, ShownW, ShownH,
                ShownScale, ShownColor, Offset
  <2>5. QED
    BY <1>1, <2>2, <2>3, <2>4 DEF DriverInv
<1>4. QED
  BY <1>2, <1>3, WorkTakes

(* The blitter has done what it was started for. *)
LEMMA CardKeeps == ASSUME DriverInv, Card PROVE DriverInv'
<1>1. /\ UNCHANGED <<script, call, todo, ret, colors, shown, settled, regs, palette, base, users, asked, board>>
      /\ blit' = 0
  BY DEF Card, BlitDone, libraryVars, taskVars, historyVars
<1>2. LibInv'
  BY <1>1, LibInvKept DEF DriverInv
<1>3. BlitInv'
  BY <1>1 DEF DriverInv, BlitInv, Busy
<1>4. CallInv' /\ BoardInv' /\ CaptureInv' /\ PaletteInv' /\ PitchInv' /\ RegistersInv'
  BY <1>1 DEF DriverInv, CallInv, BoardInv, CaptureInv, PaletteInv, PitchInv, RegistersInv
<1>5. ShownInv' /\ TimingInv' /\ PanInv'
  BY <1>1 DEF DriverInv, ShownInv, TimingInv, PanInv, PictureDue, TimingDue, Captured, ShownW, ShownH,
              ShownScale, ShownColor, Offset
<1>6. QED
  BY <1>2, <1>3, <1>4, <1>5 DEF DriverInv

LEMMA StutterKeeps == ASSUME DriverInv, UNCHANGED vars PROVE DriverInv'
<1>1. UNCHANGED <<script, call, todo, ret, colors, shown, settled, regs, palette, blit, base, users, asked, board>>
  BY DEF vars, cardVars, libraryVars, taskVars, historyVars
<1>2. LibInv'
  BY <1>1, LibInvKept DEF DriverInv
<1>3. CallInv' /\ BoardInv' /\ BlitInv' /\ CaptureInv' /\ PaletteInv' /\ PitchInv' /\ RegistersInv'
  BY <1>1 DEF DriverInv, CallInv, BoardInv, BlitInv, Busy, CaptureInv, PaletteInv, PitchInv, RegistersInv
<1>4. ShownInv' /\ TimingInv' /\ PanInv'
  BY <1>1 DEF DriverInv, ShownInv, TimingInv, PanInv, PictureDue, TimingDue, Captured, ShownW, ShownH,
              ShownScale, ShownColor, Offset
<1>5. QED
  BY <1>2, <1>3, <1>4 DEF DriverInv

(* The library and the search for the board, between two calls. *)
LEMMA BoardManaged ==
  ASSUME BoardInv, LibInv, LibraryStep
  PROVE  /\ BoardInv' /\ board'.scratch = board.scratch
         /\ board.ready => board' = board
<1>1. ASSUME InitLib \/ OpenLib \/ CloseLib \/ ExpungeLib PROVE board' = board /\ users' <= MaxUsers
  BY <1>1, LibraryAssumption DEF BoardInv, LibInv, InitLib, OpenLib, CloseLib, ExpungeLib
<1>2. CASE InitLib \/ OpenLib \/ CloseLib \/ ExpungeLib
  BY <1>1, <1>2 DEF BoardInv
<1>3. CASE InitCard
  <2>1. /\ board' = [board EXCEPT !.ready = TRUE, !.color_formats = ColorFormats, !.functions = Functions,
                                  !.max_bitmap = MaxBitmap, !.max_res = <<1920, 1080>>]
        /\ users' = users /\ board.found /\ ~board.ready
    BY <1>3 DEF InitCard
  <2>2. /\ DOMAIN board' = DOMAIN board /\ board'.memory = board.memory
        /\ board'.memory_size = board.memory_size /\ board'.mode_info = board.mode_info
        /\ board'.scratch = board.scratch
    BY <2>1 DEF BoardInv
  <2>3. QED
    BY <2>1, <2>2 DEF BoardInv
<1>4. ASSUME NEW cd \in ConfigDevs, FindCard(cd)
      PROVE  BoardInv' /\ board'.scratch = board.scratch /\ ~board.ready
  <2>1. users' = users /\ ~board.ready
    BY <1>4 DEF FindCard
  <2>2. CASE cd = NULL
    <3>1. board' = board
      BY <1>4, <2>2 DEF FindCard
    <3>2. QED
      BY <2>1, <3>1 DEF BoardInv
  <2>3. CASE cd # NULL
    <3> DEFINE m == cd.address + RegisterSpace
               size == cd.size - RegisterSpace
               found == Found(cd)
    <3>1. board' = [board EXCEPT !.memory = m, !.memory_size = size, !.registers = cd.address, !.found = found]
      BY <1>4, <2>3 DEF FindCard
    <3> HIDE DEF m, size, found
    <3>2. /\ DOMAIN board' = DOMAIN board /\ board'.memory = m /\ board'.memory_size = size
          /\ board'.found = found /\ board'.ready = board.ready /\ board'.mode_info = board.mode_info
          /\ board'.scratch = board.scratch
      BY <3>1 DEF BoardInv
    <3>3. QED
      BY <2>1, <3>2 DEF BoardInv, m, size, found
  <2>4. QED
    BY <2>2, <2>3
<1>5. QED
  BY <1>2, <1>3, <1>4, <1>1 DEF LibraryStep, InitCard

LEMMA ManageKeeps == ASSUME DriverInv, Manage PROVE DriverInv'
<1>1. LibraryStep /\ UNCHANGED <<script, call, todo, ret, colors, shown, settled, regs, palette, blit>>
  BY DEF Manage, LibraryStep, cardVars, taskVars, historyVars
<1>2. LibInv'
  BY <1>1, LibInvStep DEF DriverInv
<1>3. BoardInv' /\ board'.scratch = board.scratch /\ (board.ready => board' = board)
  BY <1>1, BoardManaged DEF DriverInv
<1>4. CallInv' /\ BlitInv' /\ CaptureInv' /\ PaletteInv' /\ PitchInv' /\ RegistersInv'
  BY <1>1, <1>3 DEF DriverInv, CallInv, BlitInv, Busy, CaptureInv, PaletteInv, PitchInv, RegistersInv
<1>5. ShownInv' /\ TimingInv'
  BY <1>1 DEF DriverInv, ShownInv, TimingInv, PictureDue, TimingDue, Captured, ShownW, ShownH,
              ShownScale, ShownColor
<1>6. PanInv'
  BY <1>1, <1>3 DEF DriverInv, PanInv, Offset
<1>7. QED
  BY <1>2, <1>3, <1>4, <1>5, <1>6 DEF DriverInv
-----------------------------------------------------------------------------
(* A call begins.  What every list of steps has to have: the blitter is    *)
(* started only while no video is captured, and waited for.                *)
Sound(s) ==
  /\ IsSeq(s) /\ (\A x \in StepsOf(s) : WellFormed(x)) /\ Guarded(s)
  /\ (\E x \in StepsOf(s) : Starts(x)) => board.scratch = 0 /\ Quiet(s)
Colorless(s) == \A x \in StepsOf(s) : ~Colors(x)
Called(c) == c \in Scripts[script].calls /\ Callable(c) /\ board.ready
SetsMode(s, m, format) ==
  /\ TooSmall(m) => \A f \in ModeFields : ~Touches(s, f)
  /\ ~TooSmall(m) =>
       ModeLeft(s, ScreenW(m), ScreenH(m), RtgToMnt(format), IF Doubled(m) THEN 1 ELSE 0)
KeepsPan(s) == \A f \in PanNames : ~Touches(s, f)

(* What the callers' assumption says of a call. *)
LEMMA CalledAs ==
  ASSUME CallInv, NEW c, Called(c)
  PROVE  /\ c # NULL
         /\ c.fn = "init_mode" => IsMode(c.mode) /\ AskedFor(c.mode)
         /\ c.fn = "get_pitch" => c.width \in 0..MaxBitmap
         /\ c.fn = "set_palette" => c.idx \in Nat /\ c.len \in Nat /\ c.idx + c.len <= 256
         /\ c.fn = "pan" => \A cd \in ConfigDevs : Found(cd) =>
              c.address \in cd.address + RegisterSpace..cd.address + cd.size - 1
         /\ c.fn = "rect_fill" =>
              (c.bitmap = NULL \/ IsBitmap(c.bitmap)) /\ Numbers({c.x, c.y, c.w, c.h, c.color})
         /\ c.fn = "rect_copy" => IsBitmap(c.bitmap) /\ Numbers({c.x, c.y, c.dx, c.dy, c.w, c.h})
<1>1. script \in DOMAIN Scripts /\ c \in Scripts[script].calls
  BY DEF CallInv, Called
<1>2. c.fn = "init_mode" => AskedFor(c.mode)
  BY <1>1 DEF AskedFor
<1>3. /\ c # NULL
      /\ c.fn = "init_mode" => IsMode(c.mode)
      /\ c.fn = "get_pitch" => c.width \in 0..MaxBitmap
      /\ c.fn = "set_palette" => c.idx \in Nat /\ c.len \in Nat /\ c.idx + c.len <= 256
  BY <1>1, CallsAssumption
<1>4. c.fn = "pan" => \A cd \in ConfigDevs : Found(cd) =>
        c.address \in cd.address + RegisterSpace..cd.address + cd.size - 1
  BY <1>1, CallsAssumption
<1>5. /\ c.fn = "rect_fill" =>
           (c.bitmap = NULL \/ IsBitmap(c.bitmap)) /\ Numbers({c.x, c.y, c.w, c.h, c.color})
      /\ c.fn = "rect_copy" => IsBitmap(c.bitmap) /\ Numbers({c.x, c.y, c.dx, c.dy, c.w, c.h})
  BY <1>1, CallsAssumption
<1>6. QED
  BY <1>2, <1>3, <1>4, <1>5

LEMMA AskedMode == ASSUME NEW m, AskedFor(m) PROVE IsMode(m) /\ m # Capture
<1>1. PICK s \in DOMAIN Scripts : \E c \in Scripts[s].calls : c.fn = "init_mode" /\ c.mode = m
  BY DEF AskedFor
<1>2. PICK c \in Scripts[s].calls : c.fn = "init_mode" /\ c.mode = m
  BY <1>1
<1>3. IsMode(c.mode)
  BY <1>2, CallsAssumption
<1>4. QED
  BY <1>2, <1>3 DEF IsMode

LEMMA ModeBegins ==
  ASSUME CallInv, NEW c, Called(c), c.fn = "init_mode"
  PROVE  /\ Sound(Steps(c)) /\ Quiet(Steps(c)) /\ Colorless(Steps(c))
         /\ KeepsPan(Steps(c)) /\ SetsMode(Steps(c), c.mode, c.format)
<1> DEFINE s == InitMode(c.mode, c.format)
<1>1. Steps(c) = s
  BY DEF Steps
<1>2. IsMode(c.mode)
  BY CalledAs
<1>3. /\ ShowList(s, DisplayNames \ PanNames) /\ (TooSmall(c.mode) => s = <<>>)
      /\ ~TooSmall(c.mode) => ModeLeft(s, ScreenW(c.mode), ScreenH(c.mode), RtgToMnt(c.format),
                                       IF Doubled(c.mode) THEN 1 ELSE 0)
  BY <1>2, InitModeList, InitModeShows
<1> HIDE DEF s
<1>4. ShowList(s, DisplayNames)
  <2>1. DisplayNames \ PanNames \subseteq DisplayNames
    OBVIOUS
  <2>2. QED
    BY <1>3, <2>1, ShowWider
<1>5. IsSeq(s) /\ Quiet(s) /\ \A x \in StepsOf(s) : ~Starts(x) /\ ~Colors(x) /\ WellFormed(x)
  BY <1>4, ShowKinds
<1>6. Sound(s) /\ Colorless(s)
  BY <1>5, Startless DEF Sound, Colorless
<1>7. KeepsPan(s)
  BY <1>3, ModeNamesOnly DEF KeepsPan
<1>8. SetsMode(s, c.mode, c.format)
  <2>1. \A f : ~Touches(<<>>, f)
    BY Empty, TouchesSteps
  <2>2. QED
    BY <1>3, <2>1 DEF SetsMode
<1>9. QED
  BY <1>1, <1>5, <1>6, <1>7, <1>8

LEMMA TurnSound ==
  ASSUME NEW s, NEW v, TurnList(s, v)
  PROVE  Sound(s) /\ Colorless(s) /\ \E k \in 1..Len(s) - 1 : SwitchesAt(s, k, v)
<1>1. IsSeq(s) /\ \A x \in StepsOf(s) : ~Starts(x) /\ ~Colors(x) /\ WellFormed(x)
  BY TurnKinds
<1>2. QED
  BY <1>1, Startless DEF Sound, Colorless, TurnList

LEMMA CaptureBegins ==
  ASSUME RegistersInv, NEW c, c.fn = "monitor_switch", c.state = 0
  PROVE  /\ TurnList(Steps(c), 1) /\ ModeLeft(Steps(c), 640, 512, MNTVA_COLOR_16BIT565, 0)
         /\ Leaves(Steps(c), "pan_ptr_hi", 248) /\ Leaves(Steps(c), "pan_ptr_lo", 0)
<1>1. CaptureW = 640 /\ CaptureH = 512
  BY DEF RegistersInv, KeepsBits, CaptureW, CaptureH
<1>2. Steps(c) = CaptureSteps
  BY DEF Steps, MonitorSwitch
<1>3. QED
  BY <1>1, <1>2, CaptureTurns

LEMMA SwitchBegins ==
  ASSUME BoardInv, NEW c, Called(c), c.fn = "monitor_switch", c.state # 0
  PROVE  /\ AskedFor(board.mode_info) /\ TurnList(Steps(c), 0) /\ KeepsPan(Steps(c))
         /\ SetsMode(Steps(c), board.mode_info, board.color_format)
<1> DEFINE m == board.mode_info
           s == RtgSteps \o InitMode(m, board.color_format)
<1>1. Steps(c) = s
  BY DEF Steps, MonitorSwitch
<1>2. AskedFor(m)
  BY DEF Called, Callable, BoardInv
<1>3. IsMode(m)
  BY <1>2, AskedMode
<1> HIDE DEF m
<1>4. /\ TurnList(s, 0) /\ (\A f \in PanNames : ~Touches(s, f))
      /\ TooSmall(m) => \A f \in ModeFields : ~Touches(s, f)
      /\ ~TooSmall(m) =>
           ModeLeft(s, ScreenW(m), ScreenH(m), RtgToMnt(board.color_format), IF Doubled(m) THEN 1 ELSE 0)
  BY <1>3, SwitchTurns
<1> HIDE DEF s
<1>5. QED
  BY <1>1, <1>2, <1>4 DEF KeepsPan, SetsMode, m

(* A panned address is where Picasso96 was told that it would be. *)
PanOffset(c) == (MapAddress(c.address) - board.memory) \div 2
LEMMA PanBegins ==
  ASSUME CallInv, BoardInv, NEW c, Called(c), c.fn = "pan"
  PROVE  /\ TurnList(Steps(c), 0) /\ \A f \in ModeFields : ~Touches(Steps(c), f)
         /\ PanOffset(c) \in Nat /\ MapAddress(c.address) = board.memory + 2 * PanOffset(c)
         /\ Leaves(Steps(c), "pan_ptr_hi", HighWord(PanOffset(c)))
         /\ Leaves(Steps(c), "pan_ptr_lo", LowWord(PanOffset(c)))
<1> DEFINE a == MapAddress(c.address)
<1>1. PICK cd \in ConfigDevs : /\ Found(cd) /\ board.memory = cd.address + RegisterSpace
                               /\ board.memory_size = cd.size - RegisterSpace
  BY DEF BoardInv, Called
<1>2. c.address \in cd.address + RegisterSpace..cd.address + cd.size - 1
  BY <1>1, CalledAs
<1>3. /\ PanOffset(c) \in Nat /\ a = board.memory + 2 * PanOffset(c) /\ PanOffset(c) % 1024 = 0
      /\ HighWord(PanOffset(c)) \in Nat /\ HighWord(PanOffset(c)) < 256
  BY <1>1, <1>2, Mapped DEF PanOffset
<1>4. Steps(c) = Pan(a)
  BY DEF Steps
<1>5. PanOffset(c) = (a - board.memory) \div 2
  BY DEF PanOffset
<1> HIDE DEF a
<1>6. /\ TurnList(Pan(a), 0) /\ \A f \in ModeFields : ~Touches(Pan(a), f)
      /\ Leaves(Pan(a), "pan_ptr_hi", HighWord(PanOffset(c)))
      /\ Leaves(Pan(a), "pan_ptr_lo", LowWord(PanOffset(c)))
  BY <1>3, <1>5, PanTurns
<1>7. QED
  BY <1>3, <1>4, <1>6 DEF a

LEMMA PaletteBegins ==
  ASSUME CallInv, NEW c, Called(c), c.fn = "set_palette"
  PROVE  LET s == Steps(c)
             entries == c.idx..c.idx + c.len - 1
         IN  /\ Sound(s) /\ Quiet(s) /\ \A f : ~Touches(s, f)
             /\ \A x \in StepsOf(s) : \A t, e : Hits(x, t, e) => x.val = <<c.tag, e, t>> /\ e \in entries
             /\ \A t \in 1..3 : \A e \in entries : \E x \in StepsOf(s) : Hits(x, t, e)
<1> DEFINE s == SetPalette(c.idx, c.len, c.tag)
<1>1. c.idx \in Nat /\ c.len \in Nat /\ c.idx + c.len <= 256
  BY CalledAs
<1>2. Steps(c) = s
  BY DEF Steps
<1>3. /\ IsSeq(s) /\ \A x \in StepsOf(s) : Colors(x)
      /\ \A x \in StepsOf(s) : \A t, e : Hits(x, t, e) =>
           x.val = <<c.tag, e, t>> /\ e \in c.idx..c.idx + c.len - 1
      /\ \A t \in 1..3 : \A e \in c.idx..c.idx + c.len - 1 : \E x \in StepsOf(s) : Hits(x, t, e)
  BY <1>1, ColorList
<1> HIDE DEF s
<1>4. Quiet(s) /\ (\A f : ~Touches(s, f)) /\ \A x \in StepsOf(s) : ~Starts(x) /\ WellFormed(x)
  BY <1>3, ColorKinds
<1>5. Sound(s)
  BY <1>3, <1>4, Startless DEF Sound
<1>6. QED
  BY <1>2, <1>3, <1>4, <1>5

(* Drawing, waiting and answering. *)
LEMMA OtherBegins ==
  ASSUME CallInv, BoardInv, NEW c, Called(c),
         c.fn \notin {"init_mode", "monitor_switch", "pan", "set_palette"}
  PROVE  Sound(Steps(c)) /\ Quiet(Steps(c)) /\ Plain(Steps(c))
<1>1. \A what : Sound(Await(what)) /\ Quiet(Await(what)) /\ Plain(Await(what))
  BY AwaitKinds, Startless DEF Sound
<1>2. ASSUME NEW s, DrawList(s), board.scratch = 0 PROVE Sound(s) /\ Quiet(s) /\ Plain(s)
  BY <1>2, DrawKinds DEF Sound
<1>3. board.scratch = 0 \/ board.scratch = 1
  BY DEF BoardInv
<1>4. CASE c.fn = "rect_fill"
  <2>1. Steps(c) = RectFill(c.bitmap, c.x, c.y, c.w, c.h, c.color)
    BY <1>4 DEF Steps
  <2>2. /\ c.bitmap = NULL \/ IsBitmap(c.bitmap)
        /\ c.x \in Nat /\ c.y \in Nat /\ c.w \in Nat /\ c.h \in Nat /\ c.color \in Nat
    <3>1. (c.bitmap = NULL \/ IsBitmap(c.bitmap)) /\ Numbers({c.x, c.y, c.w, c.h, c.color})
      BY <1>4, CalledAs
    <3>2. QED
      BY <3>1 DEF Numbers
  <2>3. DrawList(Steps(c))
    <3>1. DrawList(RectFill(c.bitmap, c.x, c.y, c.w, c.h, c.color))
      BY <2>2, FillDraws
    <3>2. QED
      BY <2>1, <3>1
  <2>4. board.scratch = 1 => Steps(c) = Await("blitter")
    BY <2>1, CapturedDraws
  <2>5. QED
    BY <1>1, <1>2, <1>3, <2>3, <2>4
<1>5. CASE c.fn = "rect_copy"
  <2>1. Steps(c) = RectCopy(c.bitmap, c.x, c.y, c.dx, c.dy, c.w, c.h)
    BY <1>5 DEF Steps
  <2>2. /\ IsBitmap(c.bitmap) /\ c.x \in Nat /\ c.y \in Nat /\ c.dx \in Nat /\ c.dy \in Nat
        /\ c.w \in Nat /\ c.h \in Nat
    <3>1. IsBitmap(c.bitmap) /\ Numbers({c.x, c.y, c.dx, c.dy, c.w, c.h})
      BY <1>5, CalledAs
    <3>2. QED
      BY <3>1 DEF Numbers
  <2>3. DrawList(Steps(c))
    <3>1. DrawList(RectCopy(c.bitmap, c.x, c.y, c.dx, c.dy, c.w, c.h))
      BY <2>2, CopyDraws
    <3>2. QED
      BY <2>1, <3>1
  <2>4. board.scratch = 1 => Steps(c) = Await("blitter")
    BY <2>1, CapturedDraws
  <2>5. QED
    BY <1>1, <1>2, <1>3, <2>3, <2>4
<1>6. CASE c.fn \in {"vsync_wait", "blitter_wait"}
  <2>1. \E what : Steps(c) = Await(what)
    BY <1>6 DEF Steps
  <2>2. QED
    BY <1>1, <2>1
<1>7. CASE c.fn \notin {"rect_fill", "rect_copy", "vsync_wait", "blitter_wait"}
  <2>1. Steps(c) = <<>>
    BY <1>7 DEF Steps
  <2>2. Sound(<<>>) /\ Quiet(<<>>) /\ Plain(<<>>)
    BY NoneKinds DEF Sound
  <2>3. QED
    BY <2>1, <2>2
<1>8. QED
  BY <1>4, <1>5, <1>6, <1>7

(* What every call does when it begins. *)
LEMMA BeginKeeps ==
  ASSUME DriverInv, call = NULL, NEW c, Called(c), Begin(c)
  PROVE  /\ todo = <<>> /\ blit = 0 /\ UNCHANGED <<regs, palette, blit>>
         /\ todo' = Steps(c) /\ call' = c /\ script' = script
         /\ board'.memory = board.memory /\ board'.ready = board.ready /\ board'.scratch = board.scratch
         /\ LibInv' /\ BoardInv' /\ PitchInv' /\ RegistersInv'
<1>1. /\ todo' = Steps(c) /\ call' = c /\ UNCHANGED <<script, regs, palette, blit, base, users, asked>>
      /\ board' = IF c.fn = "init_mode"
                  THEN [board EXCEPT !.mode_info = c.mode, !.border = c.border, !.color_format = c.format]
                  ELSE board
      /\ \E v \in Answers(c) : ret' = [call |-> c, value |-> v]
  BY DEF Begin, cardVars
<1>2. todo = <<>> /\ blit = 0
  BY Empty DEF DriverInv, CallInv, BlitInv
<1>3. LibInv'
  BY <1>1, LibInvKept DEF DriverInv
<1>4. RegistersInv'
  BY <1>1 DEF DriverInv, RegistersInv
<1>5. c.fn = "init_mode" => AskedFor(c.mode)
  BY CalledAs DEF DriverInv
<1>6. BoardInv' /\ board'.memory = board.memory /\ board'.ready = board.ready /\ board'.scratch = board.scratch
  <2>1. CASE c.fn = "init_mode"
    <3>1. board' = [board EXCEPT !.mode_info = c.mode, !.border = c.border, !.color_format = c.format]
      BY <1>1, <2>1
    <3>2. /\ DOMAIN board' = DOMAIN board /\ board'.found = board.found /\ board'.ready = board.ready
          /\ board'.memory = board.memory /\ board'.memory_size = board.memory_size
          /\ board'.mode_info = c.mode /\ board'.scratch = board.scratch
      BY <3>1 DEF DriverInv, BoardInv
    <3>3. QED
      BY <1>1, <1>5, <2>1, <3>2 DEF DriverInv, BoardInv
  <2>2. CASE c.fn # "init_mode"
    <3>1. board' = board
      BY <1>1, <2>2
    <3>2. QED
      BY <1>1, <3>1 DEF DriverInv, BoardInv
  <2>3. QED
    BY <2>1, <2>2
<1>7. PitchInv'
  <2>1. PICK v \in Answers(c) : ret' = [call |-> c, value |-> v]
    BY <1>1
  <2>2. ret'.call = c /\ ret'.value = v
    BY <2>1
  <2>3. c.fn = "get_pitch" =>
          c.width \in 0..MaxBitmap /\ v = CalcPitchBytes(c.width, RtgToMnt(c.format))
    BY CalledAs DEF DriverInv, Answers
  <2>4. QED
    BY <2>2, <2>3 DEF PitchInv
<1>8. QED
  BY <1>1, <1>2, <1>3, <1>4, <1>6, <1>7

LEMMA SoundBegins ==
  ASSUME DriverInv, call = NULL, NEW c, Called(c), Begin(c), Sound(Steps(c))
  PROVE  CallInv' /\ BlitInv'
<1>1. /\ todo = <<>> /\ blit = 0 /\ UNCHANGED <<regs, palette, blit>>
      /\ todo' = Steps(c) /\ call' = c /\ script' = script /\ board'.scratch = board.scratch
  BY BeginKeeps
<1>2. c # NULL
  BY CalledAs DEF DriverInv
<1>3. CallInv'
  BY <1>1, <1>2 DEF Sound, CallInv, DriverInv
<1>4. BlitInv'
  BY <1>1 DEF Sound, BlitInv, Busy
<1>5. QED
  BY <1>3, <1>4

(* Capture mode is switched by the calls that settle it, and by no other. *)
LEMMA CaptureStarts ==
  ASSUME DriverInv, call = NULL, NEW c, Called(c), Begin(c),
         \/ Quiet(Steps(c)) /\ c.fn \notin {"monitor_switch", "pan"}
         \/ \E v \in 0..1 : \E k \in 1..Len(Steps(c)) - 1 : SwitchesAt(Steps(c), k, v)
  PROVE  CaptureInv'
<1>1. /\ todo = <<>> /\ regs' = regs /\ todo' = Steps(c) /\ board'.scratch = board.scratch
  BY BeginKeeps
<1>2. CASE Quiet(Steps(c)) /\ c.fn \notin {"monitor_switch", "pan"}
  <2>1. settled' => settled
    <3>1. settled' = (settled \/ c.fn \in {"monitor_switch", "pan"})
      BY DEF Begin
    <3>2. QED
      BY <1>2, <3>1
  <2>2. settled => regs.capture_mode = board.scratch
    <3>1. 1..Len(todo) - 1 = {}
      BY <1>1, Empty
    <3>2. QED
      BY <1>1, <3>1 DEF DriverInv, CaptureInv
  <2>3. QED
    BY <1>1, <1>2, <2>1, <2>2 DEF CaptureInv
<1>3. CASE \E v \in 0..1 : \E k \in 1..Len(Steps(c)) - 1 : SwitchesAt(Steps(c), k, v)
  BY <1>1, <1>3 DEF CaptureInv
<1>4. QED
  BY <1>2, <1>3

LEMMA PaletteStays ==
  ASSUME DriverInv, call = NULL, NEW c, Called(c), Begin(c), c.fn # "set_palette", Colorless(Steps(c))
  PROVE  PaletteInv'
<1>1. todo = <<>> /\ palette' = palette /\ todo' = Steps(c)
  BY BeginKeeps
<1>2. colors' = colors
  BY DEF Begin
<1>3. \A x, t, e : Hits(x, t, e) => Colors(x)
  BY DEF Hits, Colors
<1>4. StepsOf(todo) = {} /\ \A x \in StepsOf(todo') : ~Colors(x)
  BY <1>1, Empty DEF Colorless
<1>5. QED
  BY <1>1, <1>2, <1>3, <1>4 DEF DriverInv, PaletteInv

LEMMA PaletteChanges ==
  ASSUME DriverInv, call = NULL, NEW c, Called(c), Begin(c), c.fn = "set_palette"
  PROVE  PaletteInv'
<1> DEFINE entries == c.idx..c.idx + c.len - 1
<1>1. todo = <<>> /\ palette' = palette /\ todo' = Steps(c)
  BY BeginKeeps
<1>2. colors' = [t \in 1..3 |-> [e \in Entries |-> IF e \in entries THEN <<c.tag, e, t>> ELSE colors[t][e]]]
  <2>1. colors' = IF c.fn # "set_palette" THEN colors
                  ELSE [t \in 1..3 |-> [e \in Entries |->
                         IF e \in entries THEN <<c.tag, e, t>> ELSE colors[t][e]]]
    BY DEF Begin
  <2> HIDE DEF entries
  <2>2. QED
    BY <2>1
<1>3. /\ \A x \in StepsOf(todo') : \A t, e : Hits(x, t, e) => x.val = <<c.tag, e, t>> /\ e \in entries
      /\ \A t \in 1..3 : \A e \in entries : \E x \in StepsOf(todo') : Hits(x, t, e)
  BY <1>1, PaletteBegins DEF DriverInv
<1> HIDE DEF entries
<1>4. /\ colors' = [t \in 1..3 |-> [e \in Entries |-> colors'[t][e]]]
      /\ \A t \in 1..3, e \in Entries : colors'[t][e] = IF e \in entries THEN <<c.tag, e, t>> ELSE colors[t][e]
  BY <1>2
<1>5. palette = [t \in 1..3 |-> [e \in Entries |-> palette[t][e]]]
  BY DEF DriverInv, PaletteInv
<1>6. \A t \in 1..3, e \in Entries : palette[t][e] = colors[t][e]
  BY <1>1, Empty DEF DriverInv, PaletteInv
<1>7. ASSUME NEW t \in 1..3, NEW e \in Entries
      PROVE  /\ \A x \in StepsOf(todo') : Hits(x, t, e) => x.val = colors'[t][e]
             /\ palette'[t][e] = colors'[t][e] \/ \E x \in StepsOf(todo') : Hits(x, t, e)
  <2>1. colors'[t][e] = IF e \in entries THEN <<c.tag, e, t>> ELSE colors[t][e]
    BY <1>4
  <2>2. palette'[t][e] = colors[t][e]
    BY <1>1, <1>6
  <2>3. ASSUME NEW x \in StepsOf(todo'), Hits(x, t, e) PROVE x.val = colors'[t][e]
    <3>1. x.val = <<c.tag, e, t>> /\ e \in entries
      BY <1>3, <2>3
    <3>2. QED
      BY <2>1, <3>1
  <2>4. CASE e \in entries
    BY <1>3, <2>3, <2>4
  <2>5. CASE e \notin entries
    BY <2>1, <2>2, <2>3, <2>5
  <2>6. QED
    BY <2>4, <2>5
<1>8. QED
  BY <1>1, <1>4, <1>5, <1>7 DEF PaletteInv

(* The mode, its timing and the place: kept by calls that do not set them. *)
LEMMA ShownStays ==
  ASSUME DriverInv, call = NULL, NEW c, Called(c), Begin(c), \A f \in ModeFields : ~Touches(Steps(c), f),
         DOMAIN shown' = DOMAIN shown, shown'.mode = shown.mode, shown'.format = shown.format
  PROVE  ShownInv' /\ TimingInv'
<1>1. todo = <<>> /\ regs' = regs /\ todo' = Steps(c)
  BY BeginKeeps
<1>2. /\ Captured' = Captured /\ ShownW' = ShownW /\ ShownH' = ShownH
      /\ ShownScale' = ShownScale /\ ShownColor' = ShownColor
  BY DEF Captured, ShownW, ShownH, ShownScale, ShownColor
<1>3. /\ \A w, h, color, scale : PictureIn(todo, regs, w, h, color, scale) => PictureIn(todo', regs', w, h, color, scale)
      /\ \A line : TimingIn(todo, regs, line) => TimingIn(todo', regs', line)
  BY <1>1, PictureKept
<1>4. ShownInv'
  BY <1>2, <1>3 DEF DriverInv, ShownInv, PictureDue
<1>5. TimingInv'
  BY <1>2, <1>3 DEF DriverInv, TimingInv, TimingDue
<1>6. QED
  BY <1>4, <1>5

LEMMA PanStays ==
  ASSUME DriverInv, call = NULL, NEW c, Called(c), Begin(c), KeepsPan(Steps(c)), shown'.at = shown.at
  PROVE  PanInv'
<1>1. todo = <<>> /\ regs' = regs /\ todo' = Steps(c) /\ board'.memory = board.memory /\ board'.ready = board.ready
  BY BeginKeeps
<1>2. Offset' = Offset
  BY <1>1 DEF Offset
<1>3. \A high, low : PanIn(todo, regs, high, low) => PanIn(todo', regs', high, low)
  BY <1>1, PanKept DEF KeepsPan
<1>4. QED
  BY <1>1, <1>2, <1>3 DEF DriverInv, PanInv

(* A mode asked for, or gone back to: turned down or shown. *)
LEMMA ModeShown ==
  ASSUME DriverInv, call = NULL, NEW c, Called(c), Begin(c), NEW m, AskedFor(m), NEW format,
         SetsMode(Steps(c), m, format), shown' = Shows(m, format)
  PROVE  ShownInv' /\ TimingInv' /\ shown'.at = shown.at
<1>1. todo = <<>> /\ regs' = regs /\ todo' = Steps(c)
  BY BeginKeeps
<1>2. CASE TooSmall(m)
  <2>1. shown' = shown /\ \A f \in ModeFields : ~Touches(Steps(c), f)
    BY <1>2 DEF Shows, SetsMode
  <2>2. QED
    BY <2>1, ShownStays
<1>3. CASE ~TooSmall(m)
  <2> DEFINE scale == IF Doubled(m) THEN 1 ELSE 0
  <2>1. shown' = [shown EXCEPT !.mode = m, !.format = format]
    BY <1>3 DEF Shows
  <2>2. /\ DOMAIN shown' = {"mode", "format", "at"} /\ shown'.mode = m /\ shown'.format = format
        /\ shown'.at = shown.at
    BY <2>1 DEF DriverInv, ShownInv
  <2>3. ~Captured'
    BY <2>2, AskedMode DEF Captured
  <2>4. /\ ShownW' = ScreenW(m) /\ ShownH' = ScreenH(m) /\ ShownScale' = scale
        /\ ShownColor' = RtgToMnt(format)
    BY <2>2, <2>3 DEF ShownW, ShownH, ShownScale, ShownColor
  <2>5. ModeLeft(todo', ScreenW(m), ScreenH(m), RtgToMnt(format), scale)
    BY <1>1, <1>3 DEF SetsMode
  <2> HIDE DEF scale
  <2>6. /\ PictureIn(todo', regs', ScreenW(m), ScreenH(m), RtgToMnt(format), scale)
        /\ TimingIn(todo', regs', ModeLine(ScreenW(m), ScreenH(m)))
    BY <2>5, PictureBegun
  <2>7. ShownInv'
    BY <1>3, <2>2, <2>3, <2>4, <2>6 DEF ShownInv, PictureDue
  <2>8. TimingInv'
    BY <2>4, <2>6 DEF TimingInv, TimingDue
  <2>9. QED
    BY <2>2, <2>7, <2>8
<1>4. QED
  BY <1>2, <1>3

(* The address the capture is stored at is the last 512 K words but some.  *)
LEMMA CapturePage ==
  \A m \in Nat : \A offset : offset = (m + 2 * 16252928 - m) \div 2 =>
    offset \in Nat /\ m + 2 * 16252928 = m + 2 * offset /\ HighWord(offset) = 248 /\ LowWord(offset) = 0
BY SMT DEF HighWord, LowWord

LEMMA CaptureShown ==
  ASSUME DriverInv, call = NULL, NEW c, Called(c), Begin(c), c.fn = "monitor_switch", c.state = 0
  PROVE  ShownInv' /\ TimingInv' /\ PanInv'
<1> DEFINE place == board.memory + 2 * 16252928
<1>1. /\ todo = <<>> /\ regs' = regs /\ todo' = Steps(c)
      /\ board'.memory = board.memory /\ board'.ready = board.ready
  BY BeginKeeps
<1>2. shown' = [mode |-> Capture, format |-> 10, at |-> place]
  BY DEF Begin
<1>3. /\ ModeLeft(todo', 640, 512, MNTVA_COLOR_16BIT565, 0)
      /\ Leaves(todo', "pan_ptr_hi", 248) /\ Leaves(todo', "pan_ptr_lo", 0)
  BY <1>1, CaptureBegins DEF DriverInv
<1>4. /\ PictureIn(todo', regs', 640, 512, MNTVA_COLOR_16BIT565, 0)
      /\ TimingIn(todo', regs', ModeLine(640, 512)) /\ PanIn(todo', regs', 248, 0)
  BY <1>3, PictureBegun DEF PanIn, DueIn
<1>5. board.memory \in Nat
  <2>1. PICK cd \in ConfigDevs : Found(cd) /\ board.memory = cd.address + RegisterSpace
    BY DEF DriverInv, BoardInv, Called
  <2>2. cd.address \in Nat
    BY <2>1, BoardsAssumption
  <2>3. QED
    BY <2>1, <2>2 DEF RegisterSpace
<1>6. \A offset : offset = (place - board.memory) \div 2 =>
        offset \in Nat /\ place = board.memory + 2 * offset /\ HighWord(offset) = 248 /\ LowWord(offset) = 0
  BY <1>5, CapturePage
<1> HIDE DEF place
<1>7. DOMAIN shown' = {"mode", "format", "at"} /\ shown'.mode = Capture /\ shown'.format = 10 /\ shown'.at = place
  BY <1>2
<1>8. /\ Captured' /\ ShownW' = 640 /\ ShownH' = 512 /\ ShownScale' = 0
      /\ ShownColor' = MNTVA_COLOR_16BIT565
  <2>1. RtgToMnt(10) = MNTVA_COLOR_16BIT565
    BY DEF RtgToMnt, RTG_COLOR_FORMAT_CLUT
  <2>2. QED
    BY <1>7, <2>1 DEF Captured, ShownW, ShownH, ShownScale, ShownColor
<1>9. ShownInv'
  BY <1>4, <1>7, <1>8 DEF ShownInv, PictureDue
<1>10. TimingInv'
  BY <1>4, <1>8 DEF TimingInv, TimingDue
<1>11. PanInv'
  <2>1. Offset' = (place - board.memory) \div 2
    BY <1>1, <1>7 DEF Offset
  <2>2. /\ Offset' \in Nat /\ place = board'.memory + 2 * Offset'
        /\ HighWord(Offset') = 248 /\ LowWord(Offset') = 0
    BY <1>1, <1>6, <2>1
  <2>3. board'.ready
    BY <1>1 DEF Called
  <2>4. QED
    BY <1>4, <1>7, <2>2, <2>3 DEF PanInv
<1>12. QED
  BY <1>9, <1>10, <1>11

LEMMA PanShown ==
  ASSUME DriverInv, call = NULL, NEW c, Called(c), Begin(c), c.fn = "pan"
  PROVE  ShownInv' /\ TimingInv' /\ PanInv'
<1> DEFINE a == MapAddress(c.address)
<1>1. /\ todo = <<>> /\ regs' = regs /\ todo' = Steps(c)
      /\ board'.memory = board.memory /\ board'.ready = board.ready
  BY BeginKeeps
<1>2. shown' = [shown EXCEPT !.at = a]
  BY DEF Begin
<1>3. /\ \A f \in ModeFields : ~Touches(Steps(c), f)
      /\ PanOffset(c) \in Nat /\ a = board.memory + 2 * PanOffset(c)
      /\ Leaves(Steps(c), "pan_ptr_hi", HighWord(PanOffset(c)))
      /\ Leaves(Steps(c), "pan_ptr_lo", LowWord(PanOffset(c)))
  BY PanBegins DEF DriverInv
<1>4. PanOffset(c) = (a - board.memory) \div 2
  BY DEF PanOffset
<1> HIDE DEF a
<1>5. /\ DOMAIN shown' = DOMAIN shown /\ shown'.mode = shown.mode /\ shown'.format = shown.format
      /\ shown'.at = a
  BY <1>2 DEF DriverInv, ShownInv
<1>6. ShownInv' /\ TimingInv'
  BY <1>3, <1>5, ShownStays
<1>7. PanInv'
  <2>1. Offset' = PanOffset(c)
    BY <1>1, <1>4, <1>5 DEF Offset
  <2>2. PanIn(todo', regs', HighWord(PanOffset(c)), LowWord(PanOffset(c)))
    BY <1>1, <1>3 DEF PanIn, DueIn
  <2>3. board'.ready
    BY <1>1 DEF Called
  <2>4. QED
    BY <1>1, <1>3, <1>5, <2>1, <2>2, <2>3 DEF PanInv
<1>8. QED
  BY <1>6, <1>7

(* The values of the kept registers, one by one. *)
LEMMA FieldValues ==
  /\ \A v : v \in Values("fetch_w") <=> v \in 0..4095
  /\ \A v : v \in Values("h_rez") <=> v \in 0..4095
  /\ \A v : v \in Values("v_rez") <=> v \in 0..4095
  /\ \A v : v \in Values("colormode") <=> v \in 0..7
  /\ \A v : v \in Values("capture_mode") <=> v \in 0..1
  /\ \A f \in TimingNames : \A v : v \in Values(f) <=> v \in IF f = "pixel_clk_sel" THEN 0..3 ELSE 0..4095
<1> DEFINE size(f) == 2^Bits(f)
           names == TimingNames \cup {"colormode", "capture_mode"}
<1>1. /\ size("colormode") = 8 /\ size("capture_mode") = 2
      /\ \A f \in TimingNames : size(f) = IF f = "pixel_clk_sel" THEN 4 ELSE 4096
  BY Powers DEF Bits, TimingNames
<1>2. \A f \in names : Values(f) = 0..size(f) - 1
  BY DEF Values, TimingNames
<1> HIDE DEF size
<1>3. \A f \in names : \A v : v \in Values(f) <=> v \in 0..size(f) - 1
  BY <1>2
<1>4. \A v : v \in Values("colormode") <=> v \in 0..7
  BY <1>1, <1>3
<1>5. \A v : v \in Values("capture_mode") <=> v \in 0..1
  BY <1>1, <1>3
<1>6. ASSUME NEW f \in TimingNames, NEW v
      PROVE  v \in Values(f) <=> v \in IF f = "pixel_clk_sel" THEN 0..3 ELSE 0..4095
  <2>1. v \in Values(f) <=> v \in 0..size(f) - 1
    BY <1>3
  <2>2. CASE f = "pixel_clk_sel"
    BY <1>1, <2>1, <2>2
  <2>3. CASE f # "pixel_clk_sel"
    <3>1. size(f) = 4096
      BY <1>1, <2>3
    <3>2. QED
      BY <2>1, <2>3, <3>1
  <2>4. QED
    BY <2>2, <2>3
<1>7. \A f \in {"fetch_w", "h_rez", "v_rez"} : Values(f) = 0..4095
  BY DEF Values
<1>8. QED
  BY <1>4, <1>5, <1>6, <1>7

LEMMA CallerKeeps == ASSUME DriverInv, Caller PROVE DriverInv'
<1>1. PICK c \in Scripts[script].calls : Begin(c)
  BY DEF Caller
<1>2. call = NULL /\ Called(c)
  BY <1>1 DEF Caller, Begin, Called
<1>3. /\ todo' = Steps(c) /\ LibInv' /\ BoardInv' /\ PitchInv' /\ RegistersInv'
  BY <1>1, <1>2, BeginKeeps
<1>4. Sound(Steps(c)) => CallInv' /\ BlitInv'
  BY <1>1, <1>2, SoundBegins
<1>5. CASE c.fn = "init_mode"
  <2>1. /\ Sound(Steps(c)) /\ Quiet(Steps(c)) /\ Colorless(Steps(c))
        /\ KeepsPan(Steps(c)) /\ SetsMode(Steps(c), c.mode, c.format)
    BY <1>2, <1>5, ModeBegins DEF DriverInv
  <2>2. CaptureInv' /\ PaletteInv'
    BY <1>1, <1>2, <1>5, <2>1, CaptureStarts, PaletteStays
  <2>3. shown' = Shows(c.mode, c.format) /\ AskedFor(c.mode)
    <3>1. AskedFor(c.mode)
      BY <1>2, <1>5, CalledAs DEF DriverInv
    <3>2. QED
      BY <1>1, <1>5, <3>1 DEF Begin
  <2>4. ShownInv' /\ TimingInv' /\ shown'.at = shown.at
    BY <1>1, <1>2, <2>1, <2>3, ModeShown
  <2>5. PanInv'
    BY <1>1, <1>2, <2>1, <2>4, PanStays
  <2>6. QED
    BY <1>3, <1>4, <2>1, <2>2, <2>4, <2>5 DEF DriverInv
<1>6. CASE c.fn = "monitor_switch" /\ c.state = 0
  <2>1. TurnList(Steps(c), 1)
    BY <1>6, CaptureBegins DEF DriverInv
  <2>2. Sound(Steps(c)) /\ Colorless(Steps(c)) /\ \E v \in 0..1 : \E k \in 1..Len(Steps(c)) - 1 : SwitchesAt(Steps(c), k, v)
    BY <2>1, TurnSound
  <2>3. CaptureInv' /\ PaletteInv'
    BY <1>1, <1>2, <1>6, <2>2, CaptureStarts, PaletteStays
  <2>4. ShownInv' /\ TimingInv' /\ PanInv'
    BY <1>1, <1>2, <1>6, CaptureShown
  <2>5. QED
    BY <1>3, <1>4, <2>2, <2>3, <2>4 DEF DriverInv
<1>7. CASE c.fn = "monitor_switch" /\ c.state # 0
  <2>1. /\ AskedFor(board.mode_info) /\ TurnList(Steps(c), 0) /\ KeepsPan(Steps(c))
        /\ SetsMode(Steps(c), board.mode_info, board.color_format)
    BY <1>2, <1>7, SwitchBegins DEF DriverInv
  <2>2. Sound(Steps(c)) /\ Colorless(Steps(c)) /\ \E v \in 0..1 : \E k \in 1..Len(Steps(c)) - 1 : SwitchesAt(Steps(c), k, v)
    BY <2>1, TurnSound
  <2>3. CaptureInv' /\ PaletteInv'
    BY <1>1, <1>2, <1>7, <2>2, CaptureStarts, PaletteStays
  <2>4. shown' = Shows(board.mode_info, board.color_format)
    BY <1>1, <1>7 DEF Begin
  <2>5. ShownInv' /\ TimingInv' /\ shown'.at = shown.at
    BY <1>1, <1>2, <2>1, <2>4, ModeShown
  <2>6. PanInv'
    BY <1>1, <1>2, <2>1, <2>5, PanStays
  <2>7. QED
    BY <1>3, <1>4, <2>2, <2>3, <2>5, <2>6 DEF DriverInv
<1>8. CASE c.fn = "pan"
  <2>1. TurnList(Steps(c), 0)
    BY <1>2, <1>8, PanBegins DEF DriverInv
  <2>2. Sound(Steps(c)) /\ Colorless(Steps(c)) /\ \E v \in 0..1 : \E k \in 1..Len(Steps(c)) - 1 : SwitchesAt(Steps(c), k, v)
    BY <2>1, TurnSound
  <2>3. CaptureInv' /\ PaletteInv'
    BY <1>1, <1>2, <1>8, <2>2, CaptureStarts, PaletteStays
  <2>4. ShownInv' /\ TimingInv' /\ PanInv'
    BY <1>1, <1>2, <1>8, PanShown
  <2>5. QED
    BY <1>3, <1>4, <2>2, <2>3, <2>4 DEF DriverInv
<1>9. CASE c.fn \notin {"init_mode", "monitor_switch", "pan"}
  <2>1. shown' = shown
    BY <1>1, <1>9 DEF Begin
  <2>2. Sound(Steps(c)) /\ Quiet(Steps(c)) /\ \A f \in PictureFields : ~Touches(Steps(c), f)
    BY <1>2, <1>9, PaletteBegins, OtherBegins DEF DriverInv, Plain
  <2>3. CaptureInv'
    BY <1>1, <1>2, <1>9, <2>2, CaptureStarts
  <2>4. PaletteInv'
    <3>1. CASE c.fn = "set_palette"
      BY <1>1, <1>2, <3>1, PaletteChanges
    <3>2. CASE c.fn # "set_palette"
      <4>1. Colorless(Steps(c))
        BY <1>2, <1>9, <3>2, OtherBegins DEF DriverInv, Plain, Colorless
      <4>2. QED
        BY <1>1, <1>2, <3>2, <4>1, PaletteStays
    <3>3. QED
      BY <3>1, <3>2
  <2>5. (\A f \in ModeFields : ~Touches(Steps(c), f)) /\ KeepsPan(Steps(c))
    BY <2>2 DEF PictureFields, KeepsPan
  <2>6. ShownInv' /\ TimingInv' /\ PanInv'
    BY <1>1, <1>2, <2>1, <2>5, ShownStays, PanStays
  <2>7. QED
    BY <1>3, <1>4, <2>2, <2>3, <2>4, <2>6 DEF DriverInv
<1>10. QED
  BY <1>5, <1>6, <1>7, <1>8, <1>9

(* The card as it comes up, before anybody has called. *)
LEMMA InitKeeps == ASSUME Init PROVE DriverInv
<1>1. /\ regs = PowerUp /\ blit = 0 /\ users = 0 /\ call = NULL /\ todo = <<>> /\ settled = FALSE
      /\ script \in DOMAIN Scripts /\ ret = [call |-> NULL, value |-> 0] /\ colors = palette
      /\ shown = [mode |-> Capture, format |-> 10, at |-> 0]
      /\ palette = [t \in 1..3 |-> [e \in Entries |-> <<"unset", e, t>>]]
  BY DEF Init, CardInit, LibraryInit
<1>2. board = [found |-> FALSE, ready |-> FALSE, memory |-> 0, memory_size |-> 0, registers |-> 0,
               color_formats |-> {}, functions |-> {}, max_bitmap |-> 0, max_res |-> <<0, 0>>,
               mode_info |-> NULL, border |-> 0, color_format |-> 0, scratch |-> 0]
  BY DEF Init, LibraryInit
<1>3. LibInv
  BY LibInvInit DEF Init
<1>4. BoardInv
  <2>1. /\ DOMAIN board = {"found", "ready", "memory", "memory_size", "registers", "color_formats", "functions",
                           "max_bitmap", "max_res", "mode_info", "border", "color_format", "scratch"}
        /\ ~board.found /\ ~board.ready /\ board.mode_info = NULL /\ board.scratch = 0
    BY <1>2
  <2>2. QED
    BY <1>1, <2>1, LibraryAssumption DEF BoardInv
<1>5. IsSeq(todo) /\ StepsOf(todo) = {} /\ Quiet(todo) /\ Guarded(todo)
  BY <1>1, NoneKinds
<1>6. CallInv /\ BlitInv /\ CaptureInv
  BY <1>1, <1>5 DEF CallInv, BlitInv, Busy, CaptureInv
<1>7. PaletteInv
  <2>1. palette = [t \in 1..3 |-> [e \in Entries |-> palette[t][e]]]
    BY <1>1
  <2>2. colors = [t \in 1..3 |-> [e \in Entries |-> colors[t][e]]]
    BY <1>1, <2>1
  <2>3. \A t \in 1..3, e \in Entries : palette[t][e] = colors[t][e]
    BY <1>1
  <2>4. QED
    BY <1>5, <2>1, <2>2, <2>3 DEF PaletteInv
<1>8. PitchInv
  BY <1>1 DEF PitchInv
<1>9. RegistersInv
  <2>1. /\ regs.h_sync_start = 832 /\ regs.h_sync_end = 896 /\ regs.h_max = 1048 /\ regs.v_sync_start = 601
        /\ regs.v_sync_end = 604 /\ regs.v_max = 631 /\ regs.pixel_clk_sel = 1 /\ regs.fetch_w = 640
        /\ regs.h_rez = 640 /\ regs.v_rez = 512 /\ regs.colormode = 1 /\ regs.capture_mode = 1
        /\ regs.capture_default_screen_w = 640 /\ regs.capture_default_screen_h = 512
        /\ DOMAIN regs = DOMAIN PowerUp
    <3>1. /\ PowerUp.h_sync_start = 832 /\ PowerUp.h_sync_end = 896 /\ PowerUp.h_max = 1048
          /\ PowerUp.v_sync_start = 601 /\ PowerUp.v_sync_end = 604 /\ PowerUp.v_max = 631
          /\ PowerUp.pixel_clk_sel = 1 /\ PowerUp.fetch_w = 640 /\ PowerUp.h_rez = 640 /\ PowerUp.v_rez = 512
          /\ PowerUp.colormode = 1 /\ PowerUp.capture_mode = 1
          /\ PowerUp.capture_default_screen_w = 640 /\ PowerUp.capture_default_screen_h = 512
      BY DEF PowerUp
    <3>2. QED
      BY <1>1, <3>1
  <2>2. ASSUME NEW f \in TimingNames PROVE regs[f] \in Values(f)
    <3>1. regs[f] \in IF f = "pixel_clk_sel" THEN 0..3 ELSE 0..4095
      BY <2>1 DEF TimingNames
    <3>2. QED
      BY <3>1, FieldValues
  <2>3. \A f \in {"fetch_w", "h_rez", "v_rez", "colormode", "capture_mode"} : regs[f] \in Values(f)
    BY <2>1, FieldValues
  <2>4. QED
    BY <2>1, <2>2, <2>3 DEF RegistersInv, KeepsBits, KeptNames
<1>10. Captured /\ ShownW = 640 /\ ShownH = 512 /\ ShownScale = 0 /\ ShownColor = 1 /\ shown.at = 0
  <2>1. shown.mode = Capture /\ shown.format = 10 /\ shown.at = 0
    BY <1>1
  <2>2. QED
    BY <2>1 DEF Captured, ShownW, ShownH, ShownScale, ShownColor, RtgToMnt, RTG_COLOR_FORMAT_CLUT, MNTVA_COLOR_16BIT565
<1>11. ShownInv
  <2>1. /\ regs.colormode = 1 /\ regs.h_rez = 640 /\ regs.v_rez = 512 /\ regs.fetch_w = WordsPerLine(640, 1)
        /\ regs.scale_h = 0 /\ regs.scale_v = 0
    BY <1>1 DEF PowerUp, WordsPerLine, MNTVA_COLOR_32BIT, MNTVA_COLOR_8BIT
  <2>2. PictureIn(todo, regs, 640, 512, 1, 0)
    BY <1>1, <2>1, DueNow DEF PictureIn
  <2>3. DOMAIN shown = {"mode", "format", "at"}
    BY <1>1
  <2>4. QED
    BY <1>10, <2>2, <2>3 DEF ShownInv, PictureDue, MNTVA_COLOR_16BIT565
<1>12. TimingInv
  <2>1. \A k \in 1..7 : PowerUpLine[k] = regs[TimingRegisters[k]]
    BY <1>1 DEF PowerUpLine
  <2>2. TimingIn(todo, regs, PowerUpLine)
    BY <1>1, <2>1, DueNow DEF TimingIn
  <2>3. QED
    BY <1>10, <2>2 DEF TimingInv, TimingDue
<1>13. PanInv
  BY <1>10 DEF PanInv
<1>14. QED
  BY <1>3, <1>4, <1>6, <1>7, <1>8, <1>9, <1>11, <1>12, <1>13 DEF DriverInv
-----------------------------------------------------------------------------
(* The invariant holds in every behavior of the driver, whatever Picasso96 *)
(* calls and in whatever order, with the card moving between any two steps. *)
THEOREM DriverInvariant == Spec => []DriverInv
<1>1. Init => DriverInv
  BY InitKeeps
<1>2. DriverInv /\ [Next]_vars => DriverInv'
  BY CallerKeeps, WorkKeeps, CardKeeps, ManageKeeps, StutterKeeps DEF Next
<1>3. QED
  BY <1>1, <1>2, PTL DEF Spec

(* Between two calls nothing is left to do, and the blitter stands still.  *)
LEMMA IdleNow == ASSUME DriverInv, Idle PROVE todo = <<>> /\ blit = 0 /\ Captured \in BOOLEAN
<1>1. todo = <<>>
  BY DEF DriverInv, CallInv, Idle
<1>2. StepsOf(todo) = {}
  BY <1>1, Empty
<1>3. QED
  BY <1>1, <1>2 DEF DriverInv, BlitInv, Captured

(* What is due is there. *)
LEMMA IdlePicture ==
  ASSUME DriverInv, Idle
  PROVE  /\ regs.colormode = ShownColor /\ regs.h_rez = ShownW /\ regs.v_rez = ShownH
         /\ regs.fetch_w = WordsPerLine(ShownW, ShownColor)
         /\ regs.scale_h = ShownScale /\ regs.scale_v = ShownScale
<1>1. todo = <<>> /\ PictureIn(todo, regs, ShownW, ShownH, ShownColor, ShownScale)
  BY IdleNow DEF DriverInv, ShownInv, PictureDue
<1>2. QED
  BY <1>1, DueNow DEF PictureIn

(* Registers keep the bits the gateware gives them, scratch is a flag, and *)
(* no call of the driver returns with steps left or the blitter started by *)
(* rect_fill or rect_copy still at work: DriverTypeOK.                     *)
THEOREM DriverTypeCorrect == Spec => []DriverTypeOK
<1>1. DriverInv => DriverTypeOK
  <2> SUFFICES ASSUME DriverInv PROVE DriverTypeOK
    OBVIOUS
  <2>1. \A f \in KeptNames : regs[f] \in Values(f)
    BY DEF DriverInv, RegistersInv, KeepsBits
  <2> DEFINE sized(f) == regs[f] \in Values(f)
  <2>2. sized("fetch_w") /\ sized("h_rez") /\ sized("v_rez") /\ sized("colormode") /\ sized("capture_mode")
    BY <2>1 DEF KeptNames
  <2>3. /\ regs.fetch_w \in TwelveBits /\ regs.h_rez \in TwelveBits /\ regs.v_rez \in TwelveBits
        /\ regs.colormode \in 0..7 /\ regs.capture_mode \in 0..1
    <3>1. regs.fetch_w \in TwelveBits
      BY <2>2, FieldValues DEF TwelveBits
    <3>2. regs.h_rez \in TwelveBits
      BY <2>2, FieldValues DEF TwelveBits
    <3>3. regs.v_rez \in TwelveBits
      BY <2>2, FieldValues DEF TwelveBits
    <3>4. regs.colormode \in 0..7
      BY <2>2, FieldValues
    <3>5. regs.capture_mode \in 0..1
      BY <2>2, FieldValues
    <3>6. QED
      BY <3>1, <3>2, <3>3, <3>4, <3>5
  <2>4. TimingsTypeOK
    <3> SUFFICES ASSUME NEW k \in DOMAIN TimingRegisters
                 PROVE  regs[TimingRegisters[k]] \in 0..2^Bits(TimingRegisters[k]) - 1
      BY DEF TimingsTypeOK
    <3>1. k \in 1..7
      BY DEF TimingRegisters
    <3>2. TimingRegisters[k] \in TimingNames
      BY <3>1, TimingNamed
    <3>3. Values(TimingRegisters[k]) = 0..2^Bits(TimingRegisters[k]) - 1
      BY <3>2 DEF Values, TimingNames
    <3>4. QED
      BY <2>1, <3>2, <3>3 DEF KeptNames
  <2>5. blit \in 0..2 /\ board.scratch \in 0..1
    BY DEF DriverInv, BlitInv, BoardInv
  <2>6. users \in 0..MaxUsers
    BY LibraryAssumption DEF DriverInv, LibInv, BoardInv
  <2>7. call = NULL => todo = <<>> /\ blit = 0
    BY IdleNow DEF Idle
  <2>8. QED
    BY <2>3, <2>4, <2>5, <2>6, <2>7, Zenon DEF DriverTypeOK
<1>2. QED
  BY <1>1, DriverInvariant, PTL

(* The blitter never works while captured video is stored, once the driver *)
(* has switched: rect_fill and rect_copy trust what scratch remembers.     *)
THEOREM NoBlitWhileCapturing == Spec => []NoBlitInCapture
<1>1. DriverInv => NoBlitInCapture
  <2> SUFFICES ASSUME DriverInv, settled, blit # 0 PROVE regs.capture_mode = 0
    BY DEF NoBlitInCapture
  <2>1. board.scratch = 0 /\ Quiet(todo) /\ \E x \in StepsOf(todo) : Waits(x)
    BY DEF DriverInv, BlitInv, Busy
  <2>2. IsSeq(todo)
    BY DEF DriverInv, CallInv
  <2>3. CASE \E v \in 0..1 : \E k \in 1..Len(todo) - 1 : SwitchesAt(todo, k, v)
    <3>1. PICK v \in 0..1, k \in 1..Len(todo) - 1 : SwitchesAt(todo, k, v)
      BY <2>3
    <3>2. k \in 1..Len(todo) /\ Turns(todo[k])
      BY <2>2, <3>1, LenOf DEF SwitchesAt, Captures, Turns
    <3>3. QED
      BY <2>1, <3>2 DEF Quiet, StepsOf
  <2>4. CASE todo # <<>> /\ Remembers(Head(todo), regs.capture_mode)
    <3>1. Head(todo) \in StepsOf(todo) /\ Turns(Head(todo))
      BY <2>2, <2>4, Headed DEF Remembers, Turns
    <3>2. QED
      BY <2>1, <3>1 DEF Quiet
  <2>5. QED
    BY <2>1, <2>3, <2>4 DEF DriverInv, CaptureInv
<1>2. QED
  BY <1>1, DriverInvariant, PTL

(* After any set_palette, and through every other call, each entry of each *)
(* channel holds the color last set for it.                                *)
THEOREM PaletteAlwaysRight == Spec => []PaletteRight
<1>1. DriverInv => PaletteRight
  <2> SUFFICES ASSUME DriverInv, Idle PROVE palette = colors
    BY DEF PaletteRight
  <2>1. StepsOf(todo) = {}
    BY IdleNow, Empty
  <2>2. \A t \in 1..3, e \in Entries : palette[t][e] = colors[t][e]
    BY <2>1 DEF DriverInv, PaletteInv
  <2>3. /\ palette = [t \in 1..3 |-> [e \in Entries |-> palette[t][e]]]
        /\ colors = [t \in 1..3 |-> [e \in Entries |-> colors[t][e]]]
    BY DEF DriverInv, PaletteInv
  <2>4. [t \in 1..3 |-> [e \in Entries |-> palette[t][e]]] = [t \in 1..3 |-> [e \in Entries |-> colors[t][e]]]
    BY <2>2
  <2>5. QED
    BY <2>3, <2>4
<1>2. QED
  BY <1>1, DriverInvariant, PTL

(* get_pitch: a row of any bitmap InitCard allows, in every format with at *)
(* least a byte per pixel, has its size and fits the 16 bits it is put in. *)
THEOREM PitchAlwaysRight == Spec => []PitchRight
<1>1. DriverInv => PitchRight
  <2> SUFFICES ASSUME DriverInv, ret.call # NULL, ret.call.fn = "get_pitch", ret.call.format # 0
               PROVE  ret.value = ret.call.width * BytesPerPixel(ret.call.format)
    BY DEF PitchRight
  <2> DEFINE w == ret.call.width
             format == ret.call.format
  <2>1. w \in 0..MaxBitmap /\ ret.value = CalcPitchBytes(w, RtgToMnt(format))
    BY DEF DriverInv, PitchInv
  <2> HIDE DEF w, format
  <2>2. w \in Nat /\ w <= MaxBitmap
    BY <2>1, SMT DEF MaxBitmap
  <2>3. CalcPitchBytes(w, RtgToMnt(format)) = w * BytesPerPixel(format)
    <3>1. format # 0
      BY DEF format
    <3>2. QED
      BY <2>2, <3>1, PitchBytes
  <2>4. QED
    BY <2>1, <2>3 DEF w, format
<1>2. QED
  BY <1>1, DriverInvariant, PTL

(* The card shows the mode last set, or the Amiga's video, in its size and *)
(* colors: through modes turned down, switches away and back, and pans.    *)
THEOREM ModeAlwaysShown == Spec => []ShownRight
<1>1. DriverInv => ShownRight
  <2> SUFFICES ASSUME DriverInv, Idle PROVE ShownRight
    BY DEF ShownRight
  <2>1. /\ regs.colormode = ShownColor /\ regs.h_rez = ShownW /\ regs.v_rez = ShownH
        /\ regs.scale_h = ShownScale /\ regs.scale_v = ShownScale
    BY IdlePicture
  <2>2. CASE shown.mode = Capture
    <3>1. regs.capture_default_screen_w = 640 /\ regs.capture_default_screen_h = 512
      BY DEF DriverInv, RegistersInv, KeepsBits
    <3>2. QED
      BY <2>1, <2>2, <3>1 DEF ShownRight, ShownColor, ShownW, ShownH, Captured
  <2>3. CASE shown.mode # Capture
    <3> DEFINE m == shown.mode
               scale == regs.scale_h
    <3>1. IsMode(m)
      BY <2>3, AskedMode DEF DriverInv, ShownInv, Captured
    <3>2. /\ regs.h_rez = ScreenW(m) /\ regs.v_rez = ScreenH(m) /\ regs.scale_v = scale
          /\ scale = IF Doubled(m) THEN 1 ELSE 0
      BY <2>1, <2>3 DEF ShownW, ShownH, ShownScale, Captured
    <3> DEFINE w == m.width
               h == m.height
    <3>3. w \in 0..1920 /\ h \in 0..1080
      BY <3>1 DEF IsMode
    <3>4. /\ ScreenW(m) = IF Doubled(m) THEN 2 * w ELSE w
          /\ ScreenH(m) = IF ~Doubled(m) THEN h ELSE IF 2 * h < 480 THEN 480 ELSE 2 * h
      BY DEF ScreenW, ScreenH
    <3>5. regs.colormode = RtgToMnt(shown.format)
      BY <2>1 DEF ShownColor
    <3> HIDE DEF w, h, scale, m
    <3>6. regs.h_rez = w * (scale + 1) /\ regs.v_rez >= h * (scale + 1)
      <4>1. CASE Doubled(m)
        BY <3>2, <3>3, <3>4, <4>1
      <4>2. CASE ~Doubled(m)
        BY <3>2, <3>3, <3>4, <4>2
      <4>3. QED
        BY <4>1, <4>2
    <3>7. QED
      BY <2>3, <3>2, <3>5, <3>6 DEF ShownRight, m, w, h, scale
  <2>4. QED
    BY <2>2, <2>3
<1>2. QED
  BY <1>1, DriverInvariant, PTL

(* Whatever a line shows has been fetched for it, in every color mode and  *)
(* size: line_w is written after screen_w.                                 *)
THEOREM LinesAlwaysFit == Spec => []LineFits
<1>1. DriverInv => LineFits
  <2> SUFFICES ASSUME DriverInv, Idle
               PROVE  PixelsOf(regs.fetch_w, regs.colormode) * (regs.scale_h + 1) >= regs.h_rez
    BY DEF LineFits
  <2> DEFINE w == ShownW
             color == ShownColor
             scale == ShownScale
  <2>1. /\ regs.colormode = color /\ regs.h_rez = w /\ regs.fetch_w = WordsPerLine(w, color)
        /\ regs.scale_h = scale
    BY IdlePicture
  <2>2. w \in Nat /\ w % 2 = 0
    <3>1. CASE Captured
      BY <3>1 DEF ShownW
    <3>2. CASE ~Captured
      <4>1. IsMode(shown.mode) /\ ShownW = ScreenW(shown.mode)
        BY <3>2, AskedMode DEF DriverInv, ShownInv, ShownW
      <4>2. ScreenW(shown.mode) \in 0..1920 /\ ScreenW(shown.mode) % 2 = 0
        BY <4>1, ScreenRange
      <4>3. QED
        BY <4>1, <4>2
    <3>3. QED
      BY <3>1, <3>2
  <2>3. scale \in 0..1
    BY DEF ShownScale
  <2> HIDE DEF w, color, scale
  <2>4. PixelsOf(WordsPerLine(w, color), color) \in Nat /\ PixelsOf(WordsPerLine(w, color), color) >= w
    BY <2>2 DEF PixelsOf, WordsPerLine, MNTVA_COLOR_8BIT, MNTVA_COLOR_32BIT
  <2> DEFINE pixels == PixelsOf(WordsPerLine(w, color), color)
  <2>5. pixels \in Nat /\ pixels >= w
    BY <2>4
  <2> HIDE DEF pixels
  <2>6. pixels * (scale + 1) >= w
    <3>1. CASE scale = 0
      BY <2>5, <3>1
    <3>2. CASE scale = 1
      BY <2>2, <2>5, <3>2
    <3>3. QED
      BY <2>3, <3>1, <3>2
  <2>7. QED
    BY <2>1, <2>6 DEF pixels
<1>2. QED
  BY <1>1, DriverInvariant, PTL

(* An address that map_address gave out is panned to exactly, wherever in  *)
(* the memory of whichever board: map_address and pan round alike.         *)
THEOREM PanAlwaysExact == Spec => []PanExact
<1>1. DriverInv => PanExact
  <2> SUFFICES ASSUME DriverInv, Idle, shown.at # 0
               PROVE  board.memory + 2 * (regs.pan_ptr_hi * 65536 + regs.pan_ptr_lo) = shown.at
    BY DEF PanExact
  <2> DEFINE offset == Offset
  <2>1. /\ offset \in Nat /\ shown.at = board.memory + 2 * offset
        /\ PanIn(<<>>, regs, HighWord(offset), LowWord(offset))
    BY IdleNow DEF DriverInv, PanInv
  <2> HIDE DEF offset
  <2>2. regs.pan_ptr_hi = HighWord(offset) /\ regs.pan_ptr_lo = LowWord(offset)
    BY <2>1, DueNow DEF PanIn
  <2>3. \A n \in Nat : \A m, hi, lo : hi = HighWord(n) /\ lo = LowWord(n) => m + 2 * (hi * 65536 + lo) = m + 2 * n
    BY Rejoined, SMT
  <2>4. QED
    BY <2>1, <2>2, <2>3, SMT
<1>2. QED
  BY <1>1, DriverInvariant, PTL

(* A mode whose picture ends before its sync pulses: init_modeline has     *)
(* timings for five sizes, and whoever defines other modes has to keep     *)
(* them within 800x600's.                                                  *)
Timed(m) ==
  LET line == ModeLine(ScreenW(m), ScreenH(m))
  IN  ScreenW(m) <= line[1] /\ ScreenH(m) <= line[4]
TimedModes ==
  \A s \in DOMAIN Scripts : \A c \in Scripts[s].calls :
    c.fn = "init_mode" /\ ~TooSmall(c.mode) => Timed(c.mode)

LEMMA LineOrdered ==
  ASSUME NEW w, NEW h
  PROVE  LET line == ModeLine(w, h)
         IN  line[1] < line[2] /\ line[2] < line[3] /\ line[4] < line[5] /\ line[5] < line[6]
BY DEF ModeLine

(* The timing of the card is that of one line, and wide enough.            *)
LEMMA IdleTiming ==
  ASSUME DriverInv, Idle, TimedModes
  PROVE  \E line : /\ \A k \in 1..7 : regs[TimingRegisters[k]] = line[k]
                   /\ line[1] < line[2] /\ line[2] < line[3] /\ line[4] < line[5] /\ line[5] < line[6]
                   /\ ShownW <= line[1] /\ ShownH <= line[4]
<1>1. \A line : TimingDue(line) => \A k \in 1..7 : regs[TimingRegisters[k]] = line[k]
  BY IdleNow, DueNow DEF TimingDue, TimingIn
<1>2. CASE Captured /\ TimingDue(PowerUpLine)
  <2>1. /\ PowerUpLine[1] = 832 /\ PowerUpLine[2] = 896 /\ PowerUpLine[3] = 1048
        /\ PowerUpLine[4] = 601 /\ PowerUpLine[5] = 604 /\ PowerUpLine[6] = 631
    BY DEF PowerUpLine, PowerUp, TimingRegisters
  <2>2. ShownW = 640 /\ ShownH = 512
    BY <1>2 DEF ShownW, ShownH
  <2>3. /\ ShownW <= PowerUpLine[1] /\ ShownH <= PowerUpLine[4]
        /\ PowerUpLine[1] < PowerUpLine[2] /\ PowerUpLine[2] < PowerUpLine[3]
        /\ PowerUpLine[4] < PowerUpLine[5] /\ PowerUpLine[5] < PowerUpLine[6]
    BY <2>1, <2>2
  <2>4. QED
    BY <1>1, <1>2, <2>3
<1>3. CASE TimingDue(ModeLine(ShownW, ShownH))
  <2>1. ShownW <= ModeLine(ShownW, ShownH)[1] /\ ShownH <= ModeLine(ShownW, ShownH)[4]
    <3>1. CASE Captured
      BY <3>1 DEF ShownW, ShownH, ModeLine
    <3>2. CASE ~Captured
      <4>1. AskedFor(shown.mode) /\ ~TooSmall(shown.mode)
        BY <3>2 DEF DriverInv, ShownInv
      <4>2. Timed(shown.mode)
        BY <4>1 DEF AskedFor, TimedModes
      <4>3. QED
        BY <3>2, <4>2 DEF Timed, ShownW, ShownH
    <3>3. QED
      BY <3>1, <3>2
  <2>2. QED
    BY <1>1, <1>3, <2>1, LineOrdered
<1>4. QED
  BY <1>2, <1>3 DEF DriverInv, TimingInv

(* The picture ends before the sync pulses begin, provided that the modes  *)
(* callers set are within the timings init_modeline chooses for them.      *)
THEOREM TimingsAlwaysFit == ASSUME TimedModes PROVE Spec => []TimingFits
<1>1. DriverInv => TimingFits
  <2> SUFFICES ASSUME DriverInv, Idle
               PROVE  /\ regs.h_rez <= regs.h_sync_start /\ regs.h_sync_start < regs.h_sync_end
                      /\ regs.h_sync_end < regs.h_max
                      /\ regs.v_rez <= regs.v_sync_start /\ regs.v_sync_start < regs.v_sync_end
                      /\ regs.v_sync_end < regs.v_max
    BY DEF TimingFits
  <2>1. PICK line : /\ \A k \in 1..7 : regs[TimingRegisters[k]] = line[k]
                    /\ line[1] < line[2] /\ line[2] < line[3] /\ line[4] < line[5] /\ line[5] < line[6]
                    /\ ShownW <= line[1] /\ ShownH <= line[4]
    BY IdleTiming
  <2>2. regs.h_rez = ShownW /\ regs.v_rez = ShownH
    BY IdlePicture
  <2>3. /\ regs.h_sync_start = line[1] /\ regs.h_sync_end = line[2] /\ regs.h_max = line[3]
        /\ regs.v_sync_start = line[4] /\ regs.v_sync_end = line[5] /\ regs.v_max = line[6]
    BY <2>1 DEF TimingRegisters
  <2>4. QED
    BY <2>1, <2>2, <2>3
<1>2. QED
  BY <1>1, DriverInvariant, PTL
=============================================================================
