------------------------------- MODULE MCRTG -------------------------------
(***************************************************************************)
(* Instances of RTGDriver for TLC.  A behavior follows one script: callers *)
(* that set modes, callers that come and go, callers that draw.            *)
(***************************************************************************)
EXTENDS RTGDriver, FiniteSets

Memory == 1074266112   \* a board at 0x40070000
MCConfigDevs ==
  {NULL, [address |-> Memory - RegisterSpace, size |-> 16777216, fwrev |-> 5],
   [address |-> Memory - RegisterSpace, size |-> 16777216, fwrev |-> 4]}
MCEntries == {0, 1, 2, 254, 255}
MCMemBytes == 60

Mode(w, h) == [width |-> w, height |-> h]
Modes ==
  {Mode(320, 200), Mode(320, 256), Mode(400, 300), Mode(640, 360), Mode(640, 400), Mode(640, 480),
   Mode(800, 600), Mode(1024, 768), Mode(1280, 720), Mode(1280, 1024), Mode(1920, 1080), Mode(160, 100)}
InitModes(modes, formats) ==
  [fn : {"init_mode"}, mode : modes, border : {0}, format : formats]
Switches == [fn : {"monitor_switch"}, state : {0, 1}]
Pans == [fn : {"pan"}, address : {Memory, Memory + 5001, Memory + 8386560}]
Palettes == [fn : {"set_palette"}, idx : {0, 253}, len : {1, 3}, tag : {"dawn", "dusk"}]
Pitches == [fn : {"get_pitch"}, width : {320, 8191}, format : ColorFormats]
Answering == [fn : {"enable_display", "is_vsynced", "vsync_wait", "blitter_wait", "get_pixelclock_hz", "init_dac"}]

(* Bitmaps of three rows, in each format; one begins in mid-memory. *)
Bitmap(memory, pitch, format) == [memory |-> memory, pitch |-> pitch, format |-> format]
Clut == Bitmap(12, 10, 1)
HiColor == Bitmap(0, 10, 10)
TrueColor == Bitmap(0, 20, 9)
Spans(n) == {<<a, k>> \in (0..n - 1) \X (1..n) : a + k <= n}
Fills(r, width, color) ==
  {[fn |-> "rect_fill", bitmap |-> r, x |-> sx[1], y |-> sy[1], w |-> sx[2], h |-> sy[2], color |-> color] :
     sx \in Spans(width), sy \in Spans(3)}
Moves(n) == {<<s, d>> \in Spans(n) \X (0..n - 1) : d + s[2] <= n}
Copies(r, width) ==
  {[fn |-> "rect_copy", bitmap |-> r, x |-> mx[1][1], y |-> my[1][1], dx |-> mx[2], dy |-> my[2],
    w |-> mx[1][2], h |-> my[1][2]] : mx \in Moves(width), my \in Moves(3)}
Drawing ==
  Fills(Clut, 10, 7) \cup Fills(HiColor, 5, 1800) \cup Fills(TrueColor, 3, 16909060)
  \cup Copies(Clut, 10) \cup Copies(HiColor, 5) \cup {c \in Copies(TrueColor, 5) : c.w >= 4}
Few == {c \in Fills(Clut, 10, 7) : c.x \in {0, 3} /\ c.w = 5 /\ c.h = 2}
       \cup {c \in Copies(Clut, 10) : c.x = 1 /\ c.w = 6 /\ c.h = 2 /\ c.dx \in {0, 3}}

Script(calls, limit) == [calls |-> calls, limit |-> limit, library |-> FALSE]
MCScripts ==
  [modes    |-> Script(InitModes(Modes, {1, 9, 10, 11}), 2),
   switches |-> Script(InitModes({Mode(640, 480), Mode(1024, 768), Mode(160, 100)}, {1, 9, 10})
                       \cup Switches \cup Pans, 0),
   colors   |-> Script(Palettes, 0),
   answers  |-> Script(Pitches \cup Answering, 1),
   drawing  |-> Script(Drawing, 1),
   captured |-> Script(Few \cup Switches, 3),
   library  |-> [calls |-> Palettes, limit |-> 1, library |-> TRUE]]
=============================================================================
