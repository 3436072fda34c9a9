------------------------------ MODULE RTGCard ------------------------------
(***************************************************************************)
(* The card as its Picasso96 driver sees it: the registers of MNTVARegs as *)
(* the gateware decodes them (va2000.v, REGWRITE), the palette, the video  *)
(* memory and the blitter.  How the blitter shares the memory with fetches *)
(* is the matter of RamArbiter; here a blit is done at one moment between  *)
(* its start and the fall of blitter_enable.                               *)
(***************************************************************************)
EXTENDS Integers, Sequences

CONSTANTS
  MemBytes,            \* bytes of the video memory that are followed
  Entries,             \* entries of the palette that are followed
  BLITTER_COPY_SIZE    \* words of the copy buffer

ASSUME CardAssumption ==
  MemBytes \in Nat /\ Entries \subseteq 0..255 /\ BLITTER_COPY_SIZE \in Nat \ {0}

VARIABLES
  regs,       \* the registers
  palette,    \* the palette registers: a value per channel and entry
  mem,        \* the video memory, byte by byte from b->memory
  blit        \* 0, 1 a fill or 2 a copy under way

cardVars == <<regs, palette, mem, blit>>

HighWord(n) == n \div 65536
LowWord(n) == n % 65536

(* Bits a register keeps of what is written to it. *)
Bits(name) ==
  CASE name \in {"h_sync_start", "h_sync_end", "h_max", "v_sync_start", "v_sync_end", "v_max"} -> 12
    [] name \in {"blitter_x3", "blitter_y3", "blitter_x4", "blitter_y4"} -> 12
    [] name \in {"pan_ptr_hi", "blitter_src_hi", "blitter_dst_hi"} -> 8
    [] name \in {"colormode", "blitter_colormode"} -> 3
    [] name = "pixel_clk_sel" -> 2
    [] name = "capture_mode" -> 1
    [] name = "safe_x2" -> 11
    [] OTHER -> 16

(* Registers the driver writes and the gateware does not decode. *)
Undecoded == {"ram_fetch_delay2_max", "row_pitch_shift"}

(* screen_w sets the words fetched per line and the pixels shown, line_w   *)
(* the words alone: the later of the two counts.                           *)
Written(r, name, v) ==
  CASE name \in Undecoded -> r
    [] name = "line_w"    -> [r EXCEPT !.fetch_w = v % 4096]
    [] name = "screen_w"  -> [r EXCEPT !.fetch_w = v % 4096, !.h_rez = v % 4096]
    [] name = "screen_h"  -> [r EXCEPT !.v_rez = v % 4096]
    [] name = "scalemode" -> [r EXCEPT !.scale_h = v % 4, !.scale_v = (v \div 4) % 4]
    [] OTHER -> [r EXCEPT ![name] = v % 2^Bits(name)]

(* A write at 'h200 or above goes to one of three tables of 256 entries,   *)
(* whatever their colors: the driver calls the first one red.              *)
Table(address) == IF address >= 1536 THEN 3 ELSE IF address >= 1024 THEN 2 ELSE 1
PaletteWritten(address, v) ==
  LET entry == (address \div 2) % 256
  IN  IF entry \in Entries THEN [palette EXCEPT ![Table(address)][entry] = v] ELSE palette

Byte(m, a) == IF a \in DOMAIN m THEN m[a] ELSE 0
Stored(m, a, v) == IF a \in DOMAIN m THEN [m EXCEPT ![a] = v] ELSE m

Base == regs.blitter_src_hi * 65536 + regs.blitter_src_lo   \* blitter_base
Base2 == regs.blitter_dst_hi * 65536 + regs.blitter_dst_lo  \* blitter_base2

(* A fill: rows from the one at Base, words x1 to x2 of each.  True color  *)
(* takes its two halves in turn, the very first word rgb16.                *)
FillWord(row, column) ==
  IF regs.blitter_colormode # 2 \/ (row = 0 /\ column = regs.blitter_x1) THEN regs.blitter_rgb16
  ELSE IF (column - regs.blitter_x1) % 2 = 0 THEN regs.blitter_rgb32_hi ELSE regs.blitter_rgb32_lo
FillRows == IF regs.blitter_y2 > regs.blitter_y1 THEN regs.blitter_y2 - regs.blitter_y1 ELSE 0
Filled ==
  LET base == Base
      pixels == (0..FillRows) \X (regs.blitter_x1..regs.blitter_x2)
      fills(a) == {p \in pixels : a = base + p[1] * regs.blitter_row_pitch + p[2]}
  IN  [a \in DOMAIN mem |->
         IF fills(a \div 2) = {} THEN mem[a]
         ELSE LET p == CHOOSE p \in fills(a \div 2) : TRUE
                  word == FillWord(p[1], p[2])
              IN  IF a % 2 = 0 THEN word \div 256 ELSE word % 256]

(* A copy: every word moves by the same distance.  The rows and the words  *)
(* of a row come in the order the registers give, and as many words as the *)
(* copy buffer holds are read before they are written.                     *)
DirX == IF regs.blitter_x3 > regs.blitter_x4 THEN -1 ELSE 1
DirY == IF regs.blitter_y3 > regs.blitter_y4 THEN -1 ELSE 1
CopyRows == (regs.blitter_y4 - regs.blitter_y3) * DirY + 1
CopyColumns == (regs.blitter_x4 - regs.blitter_x3) * DirX + 1
Distance == 2 * (Base + regs.blitter_x1 - Base2 - regs.blitter_x3)
(* The words it writes, each with its turn. *)
TurnOf ==
  LET first == Base + regs.blitter_x1
      word(p) == first + p[1] * DirY * regs.blitter_row_pitch + p[2] * DirX
      moves == (0..CopyRows - 1) \X (0..CopyColumns - 1)
  IN  [w \in {word(p) : p \in moves} |->
         LET p == CHOOSE p \in moves : word(p) = w
         IN  p[1] * CopyColumns + p[2] \div BLITTER_COPY_SIZE]
(* A source that was a target at an earlier turn has its new value. *)
Copied ==
  LET turn == TurnOf
      written == DOMAIN turn
      distance == Distance
      copied[a \in DOMAIN mem] ==
        LET src == a - distance
        IN  IF a \div 2 \notin written THEN mem[a]
            ELSE IF src \notin DOMAIN mem THEN 0
            ELSE IF src \div 2 \in written /\ turn[src \div 2] < turn[a \div 2] THEN copied[src]
            ELSE mem[src]
  IN  [a \in DOMAIN mem |-> copied[a]]

BlitDone_Stays ==
  /\ blit # 0
  /\ mem' = IF blit = 1 THEN Filled ELSE Copied
  /\ UNCHANGED <<regs, palette, blit>>
BlitDone ==
  /\ blit # 0 /\ blit' = 0
  /\ mem' = IF blit = 1 THEN Filled ELSE Copied
  /\ UNCHANGED <<regs, palette>>

(* After RESET: the Amiga's video is captured and shown. *)
PowerUp ==
  [fetch_w |-> 640, h_rez |-> 640, v_rez |-> 512, scale_h |-> 0, scale_v |-> 0,
   h_sync_start |-> 832, h_sync_end |-> 896, h_max |-> 1048,
   v_sync_start |-> 601, v_sync_end |-> 604, v_max |-> 631, pixel_clk_sel |-> 1,
   colormode |-> 1, safe_x2 |-> 480, fetch_preroll |-> 480, row_pitch |-> 1024,
   pan_ptr_hi |-> 248, pan_ptr_lo |-> 0, capture_mode |-> 1,
   capture_default_screen_w |-> 640, capture_default_screen_h |-> 512,
   blitter_row_pitch |-> 640, blitter_colormode |-> 1,
   blitter_src_hi |-> 0, blitter_src_lo |-> 0, blitter_dst_hi |-> 0, blitter_dst_lo |-> 0,
   blitter_x1 |-> 0, blitter_y1 |-> 0, blitter_x2 |-> 0, blitter_y2 |-> 0,
   blitter_x3 |-> 0, blitter_y3 |-> 0, blitter_x4 |-> 0, blitter_y4 |-> 0,
   blitter_rgb16 |-> 0, blitter_rgb32_hi |-> 0, blitter_rgb32_lo |-> 0]

CardInit ==
  /\ regs = PowerUp /\ blit = 0
  /\ palette = [t \in 1..3 |-> [e \in Entries |-> <<"unset", e, t>>]]
  \* every byte differs from its neighbours and from every color
  /\ mem = [a \in 0..MemBytes - 1 |-> 256 + a]
=============================================================================
