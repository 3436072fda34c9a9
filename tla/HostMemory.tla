----------------------------- MODULE HostMemory -----------------------------
(***************************************************************************)
(* The card's memory as the Amiga sees it through the Zorro III bus: one   *)
(* access at a time, a long word as two halves, every half of a write      *)
(* stored under its byte strobes before the access ends, a read answered   *)
(* with what the two halves hold, and no word that changes because of      *)
(* anything but a host write.  The display, the blitter, the capture and   *)
(* the refresh do not exist here.                                          *)
(***************************************************************************)
EXTENDS Integers

CONSTANTS
  Half0, Half1,   \* the cells of an access, as functions of its address
  HostCells,      \* the cells the host uses
  Lanes,          \* byte lanes of a half
  Accesses,       \* the accesses the host makes
  FirstContents, NoAnswer

VARIABLES contents, phase, access, left, answer

hostVars == <<contents, phase, access, left, answer>>

Cell(o, h) == IF h = 0 THEN Half0[o.addr] ELSE Half1[o.addr]

HostInit ==
  /\ contents = FirstContents
  /\ phase = "idle"
  /\ access \in Accesses
  /\ left = {}
  /\ answer = NoAnswer

\* The halves of a write that carry a strobe.
Strobed(o) == IF o.kind = "write" THEN {h \in {0, 1} : o.strobes[h] # {}} ELSE {}

\* The host puts an access on the bus; the card notices it later.
Ask ==
  /\ phase = "idle"
  /\ access' \in Accesses
  /\ UNCHANGED <<contents, phase, left, answer>>

Begin ==
  /\ phase = "idle" /\ phase' = "busy"
  /\ left' = Strobed(access)
  /\ UNCHANGED <<contents, access, answer>>

Store(h) ==
  /\ phase = "busy" /\ h \in left
  /\ contents' = [contents EXCEPT ![Cell(access, h)] =
       [x \in Lanes |-> IF x \in access.strobes[h] THEN access.data[h][x] ELSE @[x]]]
  /\ left' = left \ {h}
  /\ UNCHANGED <<phase, access, answer>>

Finish ==
  /\ phase = "busy" /\ left = {} /\ phase' = "done"
  /\ answer' = IF access.kind = "read"
               THEN <<contents[Half0[access.addr]], contents[Half1[access.addr]]>>
               ELSE answer
  /\ UNCHANGED <<contents, access, left>>

Release == phase = "done" /\ phase' = "idle" /\ UNCHANGED <<contents, access, left, answer>>

HostNext ==
  \/ Ask
  \/ Begin
  \/ \E h \in {0, 1} : Store(h)
  \/ Finish
  \/ Release

HostSpec == HostInit /\ [][HostNext]_hostVars
=============================================================================
