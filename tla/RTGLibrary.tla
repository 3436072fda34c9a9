----------------------------- MODULE RTGLibrary -----------------------------
(***************************************************************************)
(* mntgfx.card as a library of exec: its base lives as long as somebody    *)
(* has it open, FindCard looks for the board and InitCard fills in what    *)
(* Picasso96 may ask of it.  Exec calls Open, Close and Expunge with task  *)
(* switching off, so each of them is one step.                             *)
(***************************************************************************)
EXTENDS Integers

CONSTANTS
  NULL,
  ConfigDevs,       \* what expansion.library may know of the card
  MaxUsers          \* bound: users who have the library open

ASSUME LibraryAssumption ==
  MaxUsers \in Nat /\ \A cd \in ConfigDevs : cd = NULL \/ cd.fwrev \in Nat

VARIABLES
  base,     \* MNTGFXBase: loaded, lib_OpenCnt, LIBF_DELEXP
  users,    \* history: users who have the library open
  asked,    \* history: memory was short and nobody has opened it since
  board     \* struct RTGBoard, as far as the driver reads or sets it

libraryVars == <<base, users, asked, board>>

LibStart == [loaded |-> TRUE, opens |-> 0, delexp |-> FALSE]
Freed == [loaded |-> FALSE, opens |-> 0, delexp |-> FALSE]

Expunged(b) == IF b.opens = 0 THEN Freed ELSE [b EXCEPT !.delexp = TRUE]

InitLib ==
  /\ ~base.loaded /\ base' = LibStart /\ asked' = FALSE
  /\ UNCHANGED <<users, board>>

Opened_Uncounted(b) == [b EXCEPT !.delexp = FALSE]
Opened(b) == [b EXCEPT !.opens = b.opens + 1, !.delexp = FALSE]
OpenLib ==
  /\ base.loaded /\ users < MaxUsers
  /\ base' = Opened(base)
  /\ users' = users + 1 /\ asked' = FALSE /\ UNCHANGED board

Closed(b) ==
  LET left == [b EXCEPT !.opens = b.opens - 1]
  IN  IF left.opens = 0 /\ left.delexp THEN Expunged(left) ELSE left
CloseLib ==
  /\ base.loaded /\ users > 0
  /\ base' = Closed(base) /\ users' = users - 1
  /\ asked' = (asked /\ base'.loaded) /\ UNCHANGED board

ExpungeLib ==
  /\ base.loaded /\ base' = Expunged(base)
  /\ asked' = base'.loaded /\ UNCHANGED <<users, board>>

(* FindCard: the register space is 64 KB, the memory follows it.           *)
(* Firmware below revision 5 is turned down with the fields already set.   *)
FirmwareNeeded == 5
RegisterSpace == 65536
Found(cd) == cd # NULL /\ cd.fwrev >= FirmwareNeeded
FindCard(cd) ==
  /\ base.loaded /\ users > 0 /\ ~board.ready
  /\ board' = IF cd = NULL THEN board
              ELSE [board EXCEPT !.memory = cd.address + RegisterSpace,
                                 !.memory_size = cd.size - RegisterSpace,
                                 !.registers = cd.address, !.found = Found(cd)]
  /\ UNCHANGED <<base, users, asked>>

(* InitCard: the formats are bits of color_formats, 1|2|512|1024|2048.     *)
ColorFormats == {0, 1, 9, 10, 11}
Functions ==
  {"init_dac", "init_mode", "get_pitch", "map_address", "is_bitmap_compatible", "set_palette",
   "enable_display", "rect_fill", "rect_copy", "blitter_wait", "get_pixelclock_index",
   "get_pixelclock_hz", "set_clock", "monitor_switch", "vsync_wait", "is_vsynced", "pan",
   "set_memory_mode", "set_write_mask", "set_clear_mask", "set_read_plane"}
MaxBitmap == 8191
InitCard ==
  /\ base.loaded /\ users > 0 /\ board.found /\ ~board.ready
  /\ board' = [board EXCEPT !.ready = TRUE, !.color_formats = ColorFormats, !.functions = Functions,
                            !.max_bitmap = MaxBitmap, !.max_res = <<1920, 1080>>]
  /\ UNCHANGED <<base, users, asked>>

(* Before: the board structure is cleared, scratch[SCR_CAPMODE] included.  *)
LibraryInit ==
  /\ base = LibStart /\ users = 0 /\ asked = FALSE
  /\ board = [found |-> FALSE, ready |-> FALSE, memory |-> 0, memory_size |-> 0, registers |-> 0,
              color_formats |-> {}, functions |-> {}, max_bitmap |-> 0, max_res |-> <<0, 0>>,
              mode_info |-> NULL, border |-> 0, color_format |-> 0, scratch |-> 0]

LibraryStep ==
  \/ InitLib \/ OpenLib \/ CloseLib \/ ExpungeLib \/ InitCard
  \/ \E cd \in ConfigDevs : FindCard(cd)
=============================================================================
