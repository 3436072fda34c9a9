------------------------------- MODULE MCCard -------------------------------
(***************************************************************************)
(* Small instances of the memory path: one bank of one or two rows of      *)
(* eight words.                                                            *)
(***************************************************************************)
EXTENDS ZorroBus, FiniteSets

CONSTANTS u, l         \* the two byte lanes

MCLanes == {u, l}
MCByte == {0, 1}
ZeroWord == [x \in MCLanes |-> 0]
OneWord  == [x \in MCLanes |-> 1]
UpperWord == [x \in MCLanes |-> IF x = u THEN 1 ELSE 0]
MCInitMem == [c \in Cells |-> ZeroWord]

\* Words that differ from their neighbours in the row and in the rows of four.
NumberedWord(n) == [x \in MCLanes |-> IF x = u THEN n % 2 ELSE (n \div 2) % 2]
NumberedMem == [c \in Cells |-> LET a == c[2] * NCols + c[3] IN NumberedWord(a + a \div 4)]

Both(w) == [h \in {0, 1} |-> w]
NoStrobe == Both({})

Read(a) == [kind |-> "read", addr |-> a, strobes |-> NoStrobe, data |-> Both(ZeroWord),
            reg |-> "none", value |-> 0]
Write(a, strobes, w) == [Read(a) EXCEPT !.kind = "write", !.strobes = strobes, !.data = Both(w)]
SetReg(r, v) == [Read(0) EXCEPT !.kind = "reg", !.reg = r, !.value = v]

Long == [h \in {0, 1} |-> MCLanes]
LowByte == [h \in {0, 1} |-> IF h = 1 THEN {l} ELSE {}]

HostAt == 2

MemoryOps == {Read(HostAt), Write(HostAt, Long, OneWord), Write(HostAt, LowByte, ZeroWord)}

MCCaptureWords == <<UpperWord, OneWord>>
CaptureOps == {SetReg("videocap_mode", 1)}
ReadOps == {Read(HostAt)}
ServedOps == {Read(HostAt), Write(HostAt, Long, ZeroWord), SetReg("vga_clk_sel", 0)}
Anywhere == BOOLEAN
Always == {TRUE}
Blank == [x1 |-> 0, x2 |-> 0, x3 |-> 0, x4 |-> 0, y1 |-> 0, y2 |-> 0, y3 |-> 0, y4 |-> 0,
              curx |-> 0, cury |-> 0, curx2 |-> 0, cury2 |-> 0, dirx |-> FALSE, diry |-> FALSE,
              ptr |-> 0, ptr2 |-> 0, base |-> 0, base2 |-> 0, pitch |-> 0,
              colormode |-> 1, rgb |-> ZeroWord, rgb32 |-> [i \in {0, 1} |-> ZeroWord], t |-> 1]
NoProgram == {Blank}

Starts(v) == {Read(HostAt), SetReg("blitter_enable", v)}

\* A fill of two rows of three pixels, the second in the next row of the chip,
\* in one color and in the two halves of a true color.
Fill == [Blank EXCEPT !.x1 = 1, !.x2 = 3, !.y1 = 1, !.y2 = 2, !.base = 4, !.pitch = 4,
                      !.rgb = OneWord, !.rgb32 = [i \in {0, 1} |-> IF i = 0 THEN UpperWord ELSE OneWord]]
FillPrograms == {Fill, [Fill EXCEPT !.colormode = 2]}
FillOps == Starts(1)
FillWriteOps == {SetReg("blitter_enable", 1), Write(HostAt, Long, OneWord)}

\* Copies of two rows of three words onto an overlapping place: one word to
\* the left, one to the right, one row up and one row down, and the registers
\* as rect_copy of the driver writes them.
Copy(x1, x2, x3, x4, y1, y2, y3, y4, to, from) ==
  [Blank EXCEPT !.x1 = x1, !.x2 = x2, !.x3 = x3, !.x4 = x4,
                !.y1 = y1, !.y2 = y2, !.y3 = y3, !.y4 = y4,
                !.base = to, !.base2 = from, !.pitch = 4]
CopyPrograms == {Copy(0, 2, 1, 3, 0, 1, 0, 1, 4, 4), Copy(3, 1, 2, 0, 1, 0, 1, 0, 8, 8),
                 Copy(0, 2, 0, 2, 0, 1, 1, 2, 4, 8), Copy(2, 0, 2, 0, 2, 1, 1, 0, 12, 8)}
CopyOps == Starts(2)

\* The copies that start from the first contents.
FirstBlit == blit_from = InitMem
NoInputs == {}
=============================================================================
