------------------------------- MODULE MCSDRAM -------------------------------
(***************************************************************************)
(* Small instances of the SDRAM controller driven by a free client.        *)
(***************************************************************************)
EXTENDS SDRAMRefinement, FiniteSets

CONSTANTS u, l         \* the two byte lanes

MCLanes == {u, l}
MCByte == {0, 1}
ZeroWord == [x \in MCLanes |-> 0]
OneWord  == [x \in MCLanes |-> 1]
MCInitMem == [c \in Cells |-> ZeroWord]

Quiet == [reset |-> FALSE, enable |-> FALSE, wr |-> FALSE, bank |-> 0, row |-> 0,
          col |-> 0, lanes |-> MCLanes, data |-> ZeroWord, next |-> ZeroWord,
          burst |-> 0]

\* The same column in two rows of a bank and in a second bank, and a second
\* column of the first row: every way two accesses can relate.
Request(b, r, c) == [Quiet EXCEPT !.enable = TRUE, !.bank = b, !.row = r, !.col = c]
Requests == {Request(0, 0, 0), Request(0, 0, 1), Request(0, 1, 0), Request(1, 0, 0)}

Write(in, w, lanes) == [in EXCEPT !.wr = TRUE, !.data = w, !.lanes = lanes]

\* Single accesses: a read, or a write of the upper byte or the whole word.
SingleInputs ==
  {Quiet} \cup Requests
    \cup {Write(in, OneWord, {u}) : in \in Requests}
    \cup {Write(in, ZeroWord, MCLanes) : in \in Requests}
=============================================================================
