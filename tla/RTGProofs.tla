------------------------------ MODULE RTGProofs -----------------------------
(***************************************************************************)
(* Theorems about the graphics driver, for every board, script of calls    *)
(* and number of users.                                                    *)
(***************************************************************************)
EXTENDS RTGDriver, TLAPS

(* While the library is loaded lib_OpenCnt counts its users; it is freed    *)
(* for nobody's sake but an expunge's, which LIBF_DELEXP remembers.         *)
LibInv ==
  /\ users \in Nat
  /\ DOMAIN base = {"loaded", "opens", "delexp"}
  /\ base.loaded => base.opens = users
  /\ ~base.loaded => users = 0
  /\ asked => base.loaded /\ base.delexp /\ users > 0

(* The library as exec starts it satisfies the invariant. *)
LEMMA LibInvInit == LibraryInit => LibInv
<1> SUFFICES ASSUME base = LibStart, users = 0, asked = FALSE PROVE LibInv
  BY DEF LibraryInit
<1>1. DOMAIN base = {"loaded", "opens", "delexp"} /\ base.loaded /\ base.opens = 0
  BY DEF LibStart
<1>2. QED
  BY <1>1 DEF LibInv

(* Steps of calls and of the card leave the library as it is. *)
LEMMA LibInvKept == LibInv /\ UNCHANGED <<base, users, asked>> => LibInv'
  BY DEF LibInv

(* Exec's calls of InitLib, Open, Close and Expunge preserve the invariant; *)
(* FindCard and InitCard do not touch what it speaks of.                    *)
LEMMA LibInvStep == LibInv /\ LibraryStep => LibInv'
<1> SUFFICES ASSUME LibInv, LibraryStep PROVE LibInv'
  OBVIOUS
<1> USE DEF LibInv
<1>1. CASE InitLib
  BY <1>1 DEF InitLib, LibStart
<1>2. CASE OpenLib
  <2>1. /\ DOMAIN base' = {"loaded", "opens", "delexp"}
        /\ base'.loaded /\ base'.opens = users + 1
    BY <1>2 DEF OpenLib, Opened
  <2>2. QED
    BY <1>2, <2>1 DEF OpenLib
<1>3. CASE CloseLib
  <2> DEFINE left == [base EXCEPT !.opens = base.opens - 1]
  <2>1. /\ DOMAIN left = {"loaded", "opens", "delexp"}
        /\ left.loaded /\ left.opens = users - 1 /\ left.delexp = base.delexp
    BY <1>3 DEF CloseLib
  <2>2. base' = IF left.opens = 0 /\ left.delexp THEN Expunged(left) ELSE left
    BY <1>3 DEF CloseLib, Closed
  <2> HIDE DEF left
  <2>3. users' = users - 1 /\ users > 0 /\ asked' = (asked /\ base'.loaded)
    BY <1>3 DEF CloseLib
  <2>4. CASE left.opens = 0 /\ left.delexp
    <3>1. base' = Freed
      BY <2>2, <2>4 DEF Expunged
    <3>2. DOMAIN base' = {"loaded", "opens", "delexp"} /\ ~base'.loaded
      BY <3>1 DEF Freed
    <3>3. users' = 0 /\ ~asked'
      BY <2>1, <2>3, <2>4, <3>2
    <3>4. QED
      BY <3>2, <3>3
  <2>5. CASE ~(left.opens = 0 /\ left.delexp)
    <3>1. base' = left
      BY <2>2, <2>5
    <3>2. asked' => base.delexp
      BY <2>3
    <3>3. asked' => users' # 0
      BY <2>1, <2>3, <2>5, <3>2
    <3>4. QED
      BY <2>1, <2>3, <3>1, <3>2, <3>3
  <2>6. QED
    BY <2>4, <2>5
<1>4. CASE ExpungeLib
  <2>1. CASE base.opens = 0
    BY <1>4, <2>1 DEF ExpungeLib, Expunged, Freed
  <2>2. CASE base.opens # 0
    <3>1. /\ DOMAIN base' = {"loaded", "opens", "delexp"}
          /\ base'.loaded /\ base'.opens = users /\ base'.delexp
      BY <1>4, <2>2 DEF ExpungeLib, Expunged
    <3>2. QED
      BY <1>4, <2>2, <3>1 DEF ExpungeLib
  <2>3. QED
    BY <2>1, <2>2
<1>5. CASE InitCard
  BY <1>5 DEF InitCard
<1>6. ASSUME NEW cd \in ConfigDevs, FindCard(cd) PROVE LibInv'
  BY <1>6 DEF FindCard
<1>7. QED
  BY <1>1, <1>2, <1>3, <1>4, <1>5, <1>6 DEF LibraryStep

(* The call that runs leaves the library's count and flags alone. *)
LEMMA WorkKeepsLibrary == Work => UNCHANGED <<base, users, asked>>
<1> USE DEF libraryVars
<1>1. WriteRegister => UNCHANGED <<base, users, asked>>
  BY DEF WriteRegister
<1>2. WriteScratch => UNCHANGED <<base, users, asked>>
  BY DEF WriteScratch
<1>3. AwaitVsync \/ AwaitBlitter => UNCHANGED <<base, users, asked>>
  BY DEF AwaitVsync, AwaitBlitter
<1>4. MoveByte \/ PaintByte \/ WriteColor => UNCHANGED <<base, users, asked>>
  BY DEF MoveByte, PaintByte, WriteColor
<1>5. Fallback \/ Return => UNCHANGED <<base, users, asked>>
  BY DEF Fallback, Return
<1>6. QED
  BY <1>1, <1>2, <1>3, <1>4, <1>5 DEF Work

(* A library in use is never freed, and a deferred expunge is not           *)
(* forgotten: LibraryLives, however many users come and go.                 *)
THEOREM LibraryAlwaysLives == Spec => []LibraryLives
<1>1. Init => LibInv
  BY LibInvInit DEF Init
<1>2. LibInv /\ [Next]_vars => LibInv'
  <2> SUFFICES ASSUME LibInv, [Next]_vars PROVE LibInv'
    OBVIOUS
  <2>1. CASE Caller
    <3>1. PICK c \in Scripts[script].calls : Begin(c)
      BY <2>1 DEF Caller
    <3>2. UNCHANGED <<base, users, asked>>
      BY <3>1 DEF Begin
    <3>3. QED
      BY <3>2, LibInvKept
  <2>2. CASE Work
    BY <2>2, WorkKeepsLibrary, LibInvKept
  <2>3. CASE Card
    BY <2>3, LibInvKept DEF Card, libraryVars
  <2>4. CASE Manage
    <3>1. OpenLib => LibraryStep
      BY DEF LibraryStep
    <3>2. InitCard => LibraryStep
      BY DEF LibraryStep
    <3>3. (\E cd \in ConfigDevs : FindCard(cd)) => LibraryStep
      BY DEF LibraryStep
    <3>4. LibraryStep
      BY <2>4, <3>1, <3>2, <3>3 DEF Manage
    <3>5. QED
      BY <3>4, LibInvStep
  <2>5. CASE UNCHANGED vars
    BY <2>5, LibInvKept DEF vars, libraryVars
  <2>6. QED
    BY <2>1, <2>2, <2>3, <2>4, <2>5 DEF Next
<1>3. LibInv => LibraryLives
  BY DEF LibInv, LibraryLives
<1>4. QED
  BY <1>1, <1>2, <1>3, PTL DEF Spec
-----------------------------------------------------------------------------
(* A call's steps as a sequence of whatever they are. *)
StepsOf(s) == {s[k] : k \in 1..Len(s)}
IsSeq(s) == s \in Seq(StepsOf(s))

(* What a step does: a start of the blitter, a wait for it, a change of    *)
(* what is captured or remembered as captured, a color for one entry.      *)
Starts(x) == x.do = "reg" /\ x.name = "blitter_enable"
Waits(x) == x.do = "await" /\ x.for = "blitter"
Captures(x, v) == x.do = "reg" /\ x.name = "capture_mode" /\ x.val = v
Remembers(x, v) == x.do = "scratch" /\ x.val = v
Turns(x) == x.do = "scratch" \/ (x.do = "reg" /\ x.name = "capture_mode")
Hits(x, t, e) == x.do = "color" /\ Table(x.address) = t /\ (x.address \div 2) % 256 = e

(* A start is followed by a wait; nothing is switched; a switch is a write *)
(* of the register and then of scratch.                                    *)
Guarded(s) ==
  \A k \in 1..Len(s) : Starts(s[k]) => \E j \in k + 1..Len(s) : Waits(s[j])
Quiet(s) == \A x \in StepsOf(s) : ~Turns(x)
SwitchesAt(s, k, v) ==
  /\ Captures(s[k], v) /\ Remembers(s[k + 1], v)
  /\ \A j \in (1..Len(s)) \ {k, k + 1} : ~Turns(s[j])

(* The registers a write changes, and what it leaves in each of them. *)
FieldsOf(name) ==
  CASE name \in Undecoded -> {}
    [] name = "line_w"    -> {"fetch_w"}
    [] name = "screen_w"  -> {"fetch_w", "h_rez"}
    [] name = "screen_h"  -> {"v_rez"}
    [] name = "scalemode" -> {"scale_h", "scale_v"}
    [] OTHER -> {name}
ValueOf(name, v, f) ==
  IF name \in {"line_w", "screen_w", "screen_h"} THEN v % 4096
  ELSE IF name # "scalemode" THEN v % 2^Bits(name)
  ELSE IF f = "scale_h" THEN v % 4 ELSE (v \div 4) % 4
Writes(x, f) == x.do = "reg" /\ f \in FieldsOf(x.name)
Touches(s, f) == \E k \in 1..Len(s) : Writes(s[k], f)
(* The last write of f in s leaves v there. *)
Leaves(s, f, v) ==
  \E k \in 1..Len(s) :
    /\ Writes(s[k], f) /\ ValueOf(s[k].name, s[k].val, f) = v
    /\ \A j \in k + 1..Len(s) : ~Writes(s[j], f)
(* Once the steps s are taken, from registers r on, f holds v. *)
DueIn(s, r, f, v) == Leaves(s, f, v) \/ (r[f] = v /\ ~Touches(s, f))
-----------------------------------------------------------------------------
(* Sequences of steps.                                                     *)

(* A sequence over any set is one of its own elements. *)
LEMMA IsSeqOf == ASSUME NEW S, NEW s \in Seq(S) PROVE IsSeq(s)
<1>1. Len(s) \in Nat /\ DOMAIN s = 1..Len(s)
  OBVIOUS
<1>2. s \in [1..Len(s) -> StepsOf(s)]
  BY <1>1 DEF StepsOf
<1>3. QED
  BY <1>1, <1>2 DEF IsSeq

LEMMA LenOf == ASSUME NEW s, IsSeq(s) PROVE Len(s) \in Nat
BY DEF IsSeq

(* The steps of two sequences in a row. *)
LEMMA Joined ==
  ASSUME NEW s, NEW t, IsSeq(s), IsSeq(t)
  PROVE  /\ IsSeq(s \o t) /\ Len(s \o t) = Len(s) + Len(t)
         /\ \A k \in 1..Len(s) : (s \o t)[k] = s[k]
         /\ \A k \in Len(s) + 1..Len(s) + Len(t) : (s \o t)[k] = t[k - Len(s)]
         /\ StepsOf(s \o t) = StepsOf(s) \cup StepsOf(t)
<1> DEFINE S == StepsOf(s) \cup StepsOf(t)
<1>1. s \in Seq(S) /\ t \in Seq(S)
  BY DEF IsSeq
<1>2. s \o t \in Seq(S) /\ Len(s) \in Nat /\ Len(t) \in Nat
  BY <1>1
<1>3. IsSeq(s \o t)
  BY <1>2, IsSeqOf
<1>4. Len(s \o t) = Len(s) + Len(t)
  BY <1>1
<1>5. \A k \in 1..Len(s) : (s \o t)[k] = s[k]
  BY <1>1
<1>6. \A k \in Len(s) + 1..Len(s) + Len(t) : (s \o t)[k] = t[k - Len(s)]
  BY <1>1
<1>7. StepsOf(s \o t) = StepsOf(s) \cup StepsOf(t)
  <2> HIDE DEF S
  <2>1. \A x \in StepsOf(s \o t) : x \in StepsOf(s) \cup StepsOf(t)
    <3> SUFFICES ASSUME NEW k \in 1..Len(s) + Len(t) PROVE (s \o t)[k] \in StepsOf(s) \cup StepsOf(t)
      BY <1>4 DEF StepsOf
    <3>1. CASE k <= Len(s)
      BY <3>1, <1>2, <1>5 DEF StepsOf
    <3>2. CASE k > Len(s)
      <4>1. k \in Len(s) + 1..Len(s) + Len(t) /\ k - Len(s) \in 1..Len(t)
        BY <3>2, <1>2
      <4>2. QED
        BY <4>1, <1>6 DEF StepsOf
    <3>3. QED
      BY <3>1, <3>2, <1>2
  <2>2. \A x \in StepsOf(s) : x \in StepsOf(s \o t)
    BY <1>2, <1>4, <1>5 DEF StepsOf
  <2>3. \A x \in StepsOf(t) : x \in StepsOf(s \o t)
    <3> SUFFICES ASSUME NEW k \in 1..Len(t) PROVE t[k] \in StepsOf(s \o t)
      BY DEF StepsOf
    <3>1. k + Len(s) \in Len(s) + 1..Len(s) + Len(t) /\ k + Len(s) \in 1..Len(s) + Len(t)
      BY <1>2
    <3>2. (s \o t)[k + Len(s)] = t[k]
      BY <3>1, <1>2, <1>6
    <3>3. QED
      BY <3>1, <3>2, <1>4 DEF StepsOf
  <2>4. QED
    BY <2>1, <2>2, <2>3
<1>8. QED
  BY <1>3, <1>4, <1>5, <1>6, <1>7

LEMMA Associative ==
  ASSUME NEW s, NEW t, NEW u, IsSeq(s), IsSeq(t), IsSeq(u) PROVE (s \o t) \o u = s \o (t \o u)
<1> DEFINE S == StepsOf(s) \cup StepsOf(t) \cup StepsOf(u)
<1>1. s \in Seq(S) /\ t \in Seq(S) /\ u \in Seq(S)
  BY DEF IsSeq
<1> HIDE DEF S
<1>2. QED
  BY <1>1

(* The first step, and those after it. *)
LEMMA Headed ==
  ASSUME NEW s, IsSeq(s), s # <<>>
  PROVE  /\ IsSeq(Tail(s)) /\ Len(s) \in Nat \ {0} /\ Len(Tail(s)) = Len(s) - 1
         /\ Head(s) = s[1] /\ \A k \in 1..Len(s) - 1 : Tail(s)[k] = s[k + 1]
         /\ StepsOf(s) = {Head(s)} \cup StepsOf(Tail(s))
<1>1. /\ Len(s) \in Nat \ {0} /\ Tail(s) \in Seq(StepsOf(s)) /\ Head(s) = s[1]
      /\ Len(Tail(s)) = Len(s) - 1 /\ \A k \in 1..Len(s) - 1 : Tail(s)[k] = s[k + 1]
  BY DEF IsSeq
<1>2. IsSeq(Tail(s))
  BY <1>1, IsSeqOf
<1>3. \A x \in StepsOf(s) : x = Head(s) \/ x \in StepsOf(Tail(s))
  <2> SUFFICES ASSUME NEW k \in 1..Len(s), k # 1 PROVE s[k] \in StepsOf(Tail(s))
    BY <1>1 DEF StepsOf
  <2>1. k - 1 \in 1..Len(s) - 1 /\ (k - 1) + 1 = k
    BY <1>1
  <2>2. Tail(s)[k - 1] = s[k]
    BY <1>1, <2>1
  <2>3. QED
    BY <1>1, <2>1, <2>2 DEF StepsOf
<1>4. StepsOf(Tail(s)) \subseteq StepsOf(s) /\ Head(s) \in StepsOf(s)
  BY <1>1 DEF StepsOf
<1>5. QED
  BY <1>1, <1>2, <1>3, <1>4

(* No step, and a single one. *)
LEMMA Empty == IsSeq(<<>>) /\ Len(<<>>) = 0 /\ StepsOf(<<>>) = {}
BY DEF IsSeq, StepsOf

LEMMA Single == ASSUME NEW x PROVE IsSeq(<<x>>) /\ Len(<<x>>) = 1 /\ <<x>>[1] = x /\ StepsOf(<<x>>) = {x}
BY DEF IsSeq, StepsOf

(* One step for every number up to n. *)
LEMMA Listed ==
  ASSUME NEW n \in Int, NEW s, s = [k \in 1..n |-> s[k]]
  PROVE  /\ IsSeq(s) /\ (\A k \in 1..n : s[k] \in StepsOf(s))
         /\ \A x \in StepsOf(s) : \E k \in 1..n : x = s[k]
<1>1. CASE n >= 0
  <2>1. s \in Seq({s[k] : k \in 1..n}) /\ Len(s) = n
    BY <1>1
  <2>2. QED
    BY <2>1, IsSeqOf DEF StepsOf
<1>2. CASE n < 0
  <2>1. 1..n = {}
    BY <1>2
  <2>2. s = <<>>
    BY <2>1
  <2>3. QED
    BY <2>1, <2>2, Empty
<1>3. QED
  BY <1>1, <1>2
-----------------------------------------------------------------------------
(* The steps of the calls, sorted by what they are about.                  *)
TimingNames == {"h_sync_start", "h_sync_end", "h_max", "v_sync_start", "v_sync_end", "v_max", "pixel_clk_sel"}
SizeNames == {"screen_w", "screen_h", "line_w"}
PanNames == {"pan_ptr_hi", "pan_ptr_lo"}
OtherNames == {"safe_x2", "fetch_preroll", "ram_fetch_delay2_max", "row_pitch", "row_pitch_shift"}
ModeNames == {"colormode", "scalemode"}
DisplayNames == TimingNames \cup SizeNames \cup PanNames \cup OtherNames \cup ModeNames
BlitterNames ==
  {"blitter_row_pitch", "blitter_colormode", "blitter_src_hi", "blitter_src_lo", "blitter_dst_hi",
   "blitter_dst_lo", "blitter_x1", "blitter_y1", "blitter_x2", "blitter_y2", "blitter_x3", "blitter_y3",
   "blitter_x4", "blitter_y4", "blitter_rgb16", "blitter_rgb32_hi", "blitter_rgb32_lo"}

(* Every write a call makes: a value the driver computes, to a register it *)
(* knows.                                                                  *)
WrittenNames == DisplayNames \cup BlitterNames \cup {"capture_mode"}
WellFormed(x) ==
  /\ x.do = "reg" => x.val \in Int
  /\ x.do = "reg" => x.name \in WrittenNames \/ (x.name = "blitter_enable" /\ x.val \in 1..2)
  /\ x.do = "scratch" => x.val \in 0..1

(* Steps of these registers, waits for the picture, and nothing else. *)
Showing(x, names) ==
  \/ x.do = "reg" /\ x.name \in names /\ x.val \in Int
  \/ x.do = "await" /\ x.for = "vsync"
DrawsPlainly(x) ==
  \/ x.do = "reg" /\ x.name \in BlitterNames /\ x.val \in Int
  \/ x.do \in {"move", "paint", "fallback"}
Draws(x) == DrawsPlainly(x) \/ Waits(x) \/ (Starts(x) /\ x.val \in 1..2)
ShowList(s, names) == IsSeq(s) /\ \A x \in StepsOf(s) : Showing(x, names)
PlainList(s) == IsSeq(s) /\ \A x \in StepsOf(s) : DrawsPlainly(x)
DrawList(s) == IsSeq(s) /\ (\A x \in StepsOf(s) : Draws(x)) /\ Guarded(s)

LEMMA ShowJoin ==
  \A s, t, names : ShowList(s, names) /\ ShowList(t, names) => ShowList(s \o t, names)
<1> SUFFICES ASSUME NEW s, NEW t, NEW names, ShowList(s, names), ShowList(t, names)
             PROVE  ShowList(s \o t, names)
  OBVIOUS
<1>1. IsSeq(s \o t) /\ StepsOf(s \o t) = StepsOf(s) \cup StepsOf(t)
  BY Joined DEF ShowList
<1>2. QED
  BY <1>1 DEF ShowList

LEMMA ShowWider ==
  ASSUME NEW s, NEW some, NEW names, some \subseteq names, ShowList(s, some) PROVE ShowList(s, names)
BY DEF ShowList, Showing

LEMMA ShowSet ==
  ASSUME NEW names, NEW name \in names, NEW v \in Int PROVE ShowList(Set(name, v), names)
<1> DEFINE x == [do |-> "reg", name |-> name, val |-> v]
<1>1. x.do = "reg" /\ x.name = name /\ x.val = v /\ Set(name, v) = <<x>>
  BY DEF Set
<1> HIDE DEF x
<1>2. QED
  BY <1>1, Single DEF ShowList, Showing

LEMMA ShowNothing == \A names : ShowList(<<>>, names)
BY Empty DEF ShowList

LEMMA PlainJoin == \A s, t : PlainList(s) /\ PlainList(t) => PlainList(s \o t)
<1> SUFFICES ASSUME NEW s, NEW t, PlainList(s), PlainList(t) PROVE PlainList(s \o t)
  OBVIOUS
<1>1. IsSeq(s \o t) /\ StepsOf(s \o t) = StepsOf(s) \cup StepsOf(t)
  BY Joined DEF PlainList
<1>2. QED
  BY <1>1 DEF PlainList

LEMMA PlainSet == ASSUME NEW name \in BlitterNames, NEW v \in Int PROVE PlainList(Set(name, v))
<1> DEFINE x == [do |-> "reg", name |-> name, val |-> v]
<1>1. x.do = "reg" /\ x.name = name /\ x.val = v /\ Set(name, v) = <<x>>
  BY DEF Set
<1> HIDE DEF x
<1>2. QED
  BY <1>1, Single DEF PlainList, DrawsPlainly

LEMMA PlainNothing == PlainList(<<>>)
BY Empty DEF PlainList

(* No plain step is a start. *)
LEMMA PlainDraws == \A s : PlainList(s) => DrawList(s)
<1> SUFFICES ASSUME NEW s, PlainList(s) PROVE DrawList(s)
  OBVIOUS
<1>1. \A x \in StepsOf(s) : DrawsPlainly(x)
  BY DEF PlainList
<1>2. \A x : DrawsPlainly(x) => ~Starts(x) /\ Draws(x)
  BY DEF DrawsPlainly, Starts, Draws, BlitterNames
<1>3. Guarded(s)
  BY <1>1, <1>2 DEF Guarded, StepsOf
<1>4. QED
  BY <1>1, <1>2, <1>3 DEF PlainList, DrawList

(* Both parts end what they start. *)
LEMMA DrawJoin == \A s, t : DrawList(s) /\ DrawList(t) => DrawList(s \o t)
<1> SUFFICES ASSUME NEW s, NEW t, DrawList(s), DrawList(t) PROVE DrawList(s \o t)
  OBVIOUS
<1> DEFINE u == s \o t
<1>1. IsSeq(s) /\ IsSeq(t) /\ Guarded(s) /\ Guarded(t) /\ Len(s) \in Nat /\ Len(t) \in Nat
  BY LenOf DEF DrawList
<1>2. /\ IsSeq(u) /\ Len(u) = Len(s) + Len(t)
      /\ \A k \in 1..Len(s) : u[k] = s[k]
      /\ \A k \in Len(s) + 1..Len(s) + Len(t) : u[k] = t[k - Len(s)]
      /\ StepsOf(u) = StepsOf(s) \cup StepsOf(t)
  BY <1>1, Joined
<1> HIDE DEF u
<1>3. Guarded(u)
  <2> SUFFICES ASSUME NEW k \in 1..Len(u), Starts(u[k]) PROVE \E j \in k + 1..Len(u) : Waits(u[j])
    BY DEF Guarded
  <2>1. CASE k <= Len(s)
    <3>1. PICK j \in k + 1..Len(s) : Waits(s[j])
      BY <1>1, <1>2, <2>1 DEF Guarded
    <3>2. j \in k + 1..Len(u) /\ j \in 1..Len(s)
      BY <1>1, <1>2
    <3>3. QED
      BY <1>2, <3>1, <3>2
  <2>2. CASE k > Len(s)
    <3> DEFINE i == k - Len(s)
    <3>1. i \in 1..Len(t) /\ k \in Len(s) + 1..Len(s) + Len(t)
      BY <1>1, <1>2, <2>2
    <3>2. u[k] = t[i]
      BY <1>2, <3>1
    <3>3. PICK j \in i + 1..Len(t) : Waits(t[j])
      BY <1>1, <3>1, <3>2 DEF Guarded
    <3> DEFINE m == j + Len(s)
    <3>4. m \in k + 1..Len(u) /\ m \in Len(s) + 1..Len(s) + Len(t) /\ m - Len(s) = j
      BY <1>1, <1>2, <3>1
    <3>5. u[m] = t[j]
      BY <1>2, <3>4
    <3>6. QED
      BY <3>3, <3>4, <3>5
  <2>3. QED
    BY <1>1, <1>2, <2>1, <2>2
<1>4. QED
  BY <1>2, <1>3 DEF DrawList, u

LEMMA AwaitDraws == DrawList(Await("blitter"))
<1> DEFINE x == [do |-> "await", for |-> "blitter"]
<1>1. Await("blitter") = <<x>> /\ Waits(x) /\ ~Starts(x)
  BY DEF Await, Waits, Starts
<1> HIDE DEF x
<1>2. QED
  BY <1>1, Single DEF DrawList, Draws, Guarded

(* A start with the wait for its end. *)
LEMMA StartDraws == ASSUME NEW kind \in 1..2 PROVE DrawList(Set("blitter_enable", kind) \o Await("blitter"))
<1> DEFINE x == [do |-> "reg", name |-> "blitter_enable", val |-> kind]
           y == [do |-> "await", for |-> "blitter"]
           u == <<x>> \o <<y>>
<1>1. Starts(x) /\ x.val \in 1..2 /\ Waits(y) /\ ~Starts(y)
  BY DEF Starts, Waits
<1>2. Set("blitter_enable", kind) \o Await("blitter") = u
  BY DEF Set, Await
<1>3. /\ IsSeq(u) /\ Len(u) = 2 /\ StepsOf(u) = {x} \cup {y} /\ u[1] = x /\ u[2] = y
  <2> HIDE DEF x, y
  <2>1. QED
    BY Single, Joined
<1> HIDE DEF x, y, u
<1>4. Guarded(u)
  BY <1>1, <1>3 DEF Guarded
<1>5. QED
  BY <1>1, <1>2, <1>3, <1>4 DEF DrawList, Draws
-----------------------------------------------------------------------------
(* The drawing calls.                                                      *)

LEMMA IfPlain == ASSUME NEW p \in BOOLEAN, NEW s, PlainList(s) PROVE PlainList(If(p, s))
BY PlainNothing DEF If

LEMMA IfDraws == ASSUME NEW p \in BOOLEAN, NEW s, DrawList(s) PROVE DrawList(If(p, s))
BY PlainNothing, PlainDraws DEF If

LEMMA BaseDraws ==
  ASSUME NEW r, IsBitmap(r), NEW row \in Int
  PROVE  PlainList(SetBase(r, row)) /\ PlainList(SetBase2(r, row))
<1>1. WordsOf(r, row) \in Int
  BY DEF WordsOf, IsBitmap
<1>2. HighWord(WordsOf(r, row)) \in Int /\ LowWord(WordsOf(r, row)) \in Int
  BY <1>1 DEF HighWord, LowWord
<1>3. PlainList(Set("blitter_src_hi", HighWord(WordsOf(r, row)))) /\ PlainList(Set("blitter_src_lo", LowWord(WordsOf(r, row))))
  BY <1>2, PlainSet DEF BlitterNames
<1>4. PlainList(Set("blitter_dst_hi", HighWord(WordsOf(r, row)))) /\ PlainList(Set("blitter_dst_lo", LowWord(WordsOf(r, row))))
  BY <1>2, PlainSet DEF BlitterNames
<1>5. QED
  BY <1>3, <1>4, PlainJoin DEF SetBase, SetBase2

(* Columns left to the processor. *)
LEMMA PaintPlain == ASSUME NEW r, NEW x, NEW y, NEW h \in Int, NEW v PROVE PlainList(PaintColumn(r, x, y, h, v))
<1> DEFINE s == PaintColumn(r, x, y, h, v)
<1>1. s = [k \in 1..h |-> s[k]] /\ \A k \in 1..h : s[k].do = "paint"
  BY DEF PaintColumn, Paint
<1> HIDE DEF s
<1>2. IsSeq(s) /\ \A step \in StepsOf(s) : step.do = "paint"
  BY <1>1, Listed
<1>3. QED
  BY <1>2 DEF PlainList, DrawsPlainly, s

LEMMA CopyPlain ==
  ASSUME NEW r, NEW x, NEW y, NEW dx, NEW dy, NEW h \in Int, NEW column
  PROVE  PlainList(CopyColumn(r, x, y, dx, dy, h, column))
<1> DEFINE s == CopyColumn(r, x, y, dx, dy, h, column)
<1>1. s = [k \in 1..h |-> s[k]] /\ \A k \in 1..h : s[k].do = "move"
  BY DEF CopyColumn, Move
<1> HIDE DEF s
<1>2. IsSeq(s) /\ \A step \in StepsOf(s) : step.do = "move"
  BY <1>1, Listed
<1>3. QED
  BY <1>2 DEF PlainList, DrawsPlainly, s

LEMMA JoinedToStart ==
  \A s, kind : PlainList(s) /\ kind \in 1..2 => DrawList((s \o Set("blitter_enable", kind)) \o Await("blitter"))
<1> SUFFICES ASSUME NEW s, NEW kind \in 1..2, PlainList(s)
             PROVE  DrawList((s \o Set("blitter_enable", kind)) \o Await("blitter"))
  OBVIOUS
<1> DEFINE t == Set("blitter_enable", kind)
           u == Await("blitter")
<1>1. IsSeq(s) /\ IsSeq(t) /\ IsSeq(u)
  BY Single DEF PlainList, Set, Await
<1>2. (s \o t) \o u = s \o (t \o u)
  BY <1>1, Associative
<1>3. QED
  BY <1>2, StartDraws, PlainDraws, DrawJoin

LEMMA FillStarts ==
  ASSUME NEW x1 \in Int, NEW y1 \in Int, NEW x2 \in Int, NEW y2 \in Int
  PROVE  DrawList(StartFill(x1, y1, x2, y2))
<1>1. /\ PlainList(Set("blitter_x1", x1)) /\ PlainList(Set("blitter_y1", y1))
      /\ PlainList(Set("blitter_x2", x2)) /\ PlainList(Set("blitter_y2", y2))
  BY PlainSet DEF BlitterNames
<1>2. QED
  BY <1>1, PlainJoin, JoinedToStart DEF StartFill

LEMMA FillDraws ==
  ASSUME NEW r, r = NULL \/ IsBitmap(r), NEW x \in Nat, NEW y \in Nat, NEW w \in Nat, NEW h \in Nat,
         NEW color \in Nat
  PROVE  DrawList(RectFill(r, x, y, w, h, color))
<1> SUFFICES ASSUME board.scratch # 1 /\ r # NULL PROVE DrawList(RectFill(r, x, y, w, h, color))
  <2>1. DrawList(<<>>)
    BY PlainNothing, PlainDraws
  <2>2. QED
    BY <2>1, AwaitDraws, DrawJoin DEF RectFill, If
<1> DEFINE row == SetBase(r, y) \o Set("blitter_row_pitch", r.pitch \div 2)
<1>1. PlainList(row)
  BY BaseDraws, PlainSet, PlainJoin DEF IsBitmap, BlitterNames
<1>2. HighWord(color) \in Int /\ LowWord(color) \in Int
  BY DEF HighWord, LowWord
<1>3. DrawList(FillClut(r, x, y, w, h, color))
  <2> DEFINE left == x % 2
             right == (w - left) % 2
             from == (x + left) \div 2
             words == (w - left - right) \div 2
             setup == Set("blitter_rgb16", color * 257) \o Set("blitter_colormode", MNTVA_COLOR_8BIT)
             one == If(left = 1, PaintColumn(r, x, y, h, color))
             other == If(right = 1, PaintColumn(r, x + w - 1, y, h, color))
             blit_ == If(words > 0, StartFill(from, y, from + words - 1, y + h - 1))
  <2>1. left \in Int /\ right \in Int /\ from \in Int /\ words \in Int
    OBVIOUS
  <2>2. PlainList(setup)
    BY PlainSet, PlainJoin DEF BlitterNames, MNTVA_COLOR_8BIT
  <2>3. PlainList(one) /\ PlainList(other)
    <3>1. PlainList(PaintColumn(r, x, y, h, color)) /\ PlainList(PaintColumn(r, x + w - 1, y, h, color))
      BY PaintPlain
    <3>2. (left = 1) \in BOOLEAN /\ (right = 1) \in BOOLEAN
      OBVIOUS
    <3>3. QED
      BY <3>1, <3>2, IfPlain
  <2>4. DrawList(blit_)
    <3>1. from + words - 1 \in Int /\ y + h - 1 \in Int
      BY <2>1
    <3>2. DrawList(StartFill(from, y, from + words - 1, y + h - 1))
      BY <2>1, <3>1, FillStarts
    <3>3. (words > 0) \in BOOLEAN
      OBVIOUS
    <3>4. QED
      BY <3>2, <3>3, IfDraws
  <2>5. FillClut(r, x, y, w, h, color) = ((setup \o one) \o other) \o blit_
    BY DEF FillClut
  <2> HIDE DEF setup, one, other, blit_
  <2>6. QED
    BY <2>2, <2>3, <2>4, <2>5, PlainJoin, PlainDraws, DrawJoin
<1>4. DrawList(FillTrueColor(x, y, w, h, color))
  <2>1. /\ PlainList(Set("blitter_rgb16", HighWord(color))) /\ PlainList(Set("blitter_rgb32_hi", HighWord(color)))
        /\ PlainList(Set("blitter_rgb32_lo", LowWord(color)))
        /\ PlainList(Set("blitter_colormode", MNTVA_COLOR_32BIT))
    BY <1>2, PlainSet DEF BlitterNames, MNTVA_COLOR_32BIT
  <2>2. DrawList(StartFill(2 * x, y, 2 * x + 2 * w - 1, y + h - 1))
    BY FillStarts
  <2>3. QED
    BY <2>1, <2>2, PlainJoin, PlainDraws, DrawJoin DEF FillTrueColor
<1>5. DrawList(FillHiColor(x, y, w, h, color))
  <2>1. /\ PlainList(Set("blitter_rgb16", LowWord(color)))
        /\ PlainList(Set("blitter_colormode", MNTVA_COLOR_16BIT565))
    BY <1>2, PlainSet DEF BlitterNames, MNTVA_COLOR_16BIT565
  <2>2. DrawList(StartFill(x, y, x + w - 1, y + h - 1))
    BY FillStarts
  <2>3. QED
    BY <2>1, <2>2, PlainJoin, PlainDraws, DrawJoin DEF FillHiColor
<1> HIDE DEF row
<1>6. PICK s : /\ DrawList(s)
               /\ RectFill(r, x, y, w, h, color) = Await("blitter") \o (row \o s)
  <2> DEFINE s == CASE r.format = RTG_COLOR_FORMAT_CLUT -> FillClut(r, x, y, w, h, color)
                    [] r.format \in {8, 9} -> FillTrueColor(x, y, w, h, color)
                    [] OTHER -> FillHiColor(x, y, w, h, color)
  <2>1. RectFill(r, x, y, w, h, color) = Await("blitter") \o (row \o s)
    BY DEF RectFill, If, row
  <2>2. DrawList(s)
    BY <1>3, <1>4, <1>5 DEF RTG_COLOR_FORMAT_CLUT
  <2> HIDE DEF s
  <2>3. QED
    BY <2>1, <2>2
<1>7. QED
  BY <1>1, <1>6, AwaitDraws, PlainDraws, DrawJoin

LEMMA CopyStarts ==
  ASSUME NEW r, IsBitmap(r), NEW x \in Int, NEW y \in Int, NEW dx \in Int, NEW dy \in Int,
         NEW w \in Int, NEW h \in Int
  PROVE  DrawList(StartCopy(r, x, y, dx, dy, w, h))
<1> DEFINE firstY(row) == IF dy < y THEN row ELSE row + h - 1
           lastY(row) == IF dy < y THEN row + h - 1 ELSE row
           firstX(column) == IF dx < x THEN column ELSE column + w - 1
           lastX(column) == IF dx < x THEN column + w - 1 ELSE column
           rows == Set("blitter_y1", firstY(dy)) \o Set("blitter_y2", lastY(dy))
                   \o Set("blitter_y3", firstY(y)) \o Set("blitter_y4", lastY(y))
<1>1. /\ firstY(dy) \in Int /\ lastY(dy) \in Int /\ firstY(y) \in Int /\ lastY(y) \in Int
      /\ firstX(dx) \in Int /\ lastX(dx) \in Int /\ firstX(x) \in Int /\ lastX(x) \in Int
  OBVIOUS
<1> HIDE DEF firstY, lastY, firstX, lastX
<1>2. /\ PlainList(Set("blitter_y1", firstY(dy))) /\ PlainList(Set("blitter_y2", lastY(dy)))
      /\ PlainList(Set("blitter_y3", firstY(y))) /\ PlainList(Set("blitter_y4", lastY(y)))
  BY <1>1, PlainSet DEF BlitterNames
<1>3. PlainList(rows)
  BY <1>2, PlainJoin
<1>4. /\ PlainList(Set("blitter_x1", firstX(dx))) /\ PlainList(Set("blitter_x2", lastX(dx)))
      /\ PlainList(Set("blitter_x3", firstX(x))) /\ PlainList(Set("blitter_x4", lastX(x)))
  BY <1>1, PlainSet DEF BlitterNames
<1>5. PlainList(SetBase(r, firstY(dy))) /\ PlainList(SetBase2(r, firstY(y)))
  BY <1>1, BaseDraws
<1> DEFINE plain == (((((rows \o Set("blitter_x1", firstX(dx))) \o Set("blitter_x2", lastX(dx)))
                       \o Set("blitter_x3", firstX(x))) \o Set("blitter_x4", lastX(x)))
                     \o SetBase(r, firstY(dy))) \o SetBase2(r, firstY(y))
<1>6. StartCopy(r, x, y, dx, dy, w, h) = (plain \o Set("blitter_enable", 2)) \o Await("blitter")
  BY DEF StartCopy, firstY, lastY, firstX, lastX
<1> HIDE DEF rows
<1>7. PlainList(plain)
  BY <1>3, <1>4, <1>5, PlainJoin
<1> HIDE DEF plain
<1>8. QED
  BY <1>6, <1>7, JoinedToStart

LEMMA CopyDraws ==
  ASSUME NEW r, IsBitmap(r), NEW x \in Nat, NEW y \in Nat, NEW dx \in Nat, NEW dy \in Nat,
         NEW w \in Nat, NEW h \in Nat
  PROVE  DrawList(RectCopy(r, x, y, dx, dy, w, h))
<1> SUFFICES ASSUME board.scratch # 1 PROVE DrawList(RectCopy(r, x, y, dx, dy, w, h))
  <2>1. DrawList(<<>>)
    BY PlainNothing, PlainDraws
  <2>2. QED
    BY <2>1, AwaitDraws, DrawJoin DEF RectCopy, If
<1>1. DrawList(Set("blitter_row_pitch", r.pitch \div 2))
  BY PlainSet, PlainDraws DEF IsBitmap, BlitterNames
<1>2. DrawList(<<[do |-> "fallback"]>>)
  <2> DEFINE step == [do |-> "fallback"]
  <2>1. DrawsPlainly(step)
    BY DEF DrawsPlainly
  <2> HIDE DEF step
  <2>2. PlainList(<<step>>)
    BY <2>1, Single DEF PlainList
  <2>3. QED
    BY <2>2, PlainDraws DEF step
<1>3. DrawList(CopyClut(r, x, y, dx, dy, w, h))
  <2> DEFINE odd == x % 2
             even == (x + w) % 2
             left == If(odd = 1, CopyColumn(r, x, y, dx, dy, h, 0))
             right == If(even = 1, CopyColumn(r, x, y, dx, dy, h, w - 1))
             words == (w - odd - even) \div 2
             start == StartCopy(r, (x + odd) \div 2, y, (dx + odd) \div 2, dy, words, h)
  <2>1. /\ (x + odd) \div 2 \in Int /\ (dx + odd) \div 2 \in Int /\ words \in Int
        /\ (odd = 1) \in BOOLEAN /\ (even = 1) \in BOOLEAN /\ (dx >= x) \in BOOLEAN
    OBVIOUS
  <2>2. DrawList(start)
    BY <2>1, CopyStarts
  <2>3. PlainList(left) /\ PlainList(right)
    <3>1. PlainList(CopyColumn(r, x, y, dx, dy, h, 0)) /\ PlainList(CopyColumn(r, x, y, dx, dy, h, w - 1))
      BY CopyPlain
    <3>2. QED
      BY <3>1, <2>1, IfPlain
  <2>4. CopyClut(r, x, y, dx, dy, w, h) = (Early(dx >= x, left, right) \o start) \o Late(dx >= x, left, right)
    BY DEF CopyClut
  <2> HIDE DEF left, right, start
  <2>5. DrawList(Early(dx >= x, left, right)) /\ DrawList(Late(dx >= x, left, right))
    BY <2>1, <2>3, PlainDraws DEF Early, Late
  <2>6. QED
    BY <2>2, <2>4, <2>5, DrawJoin
<1>4. DrawList(StartCopy(r, 2 * x, y, 2 * dx, dy, 2 * w, h)) /\ DrawList(StartCopy(r, x, y, dx, dy, w, h))
  BY CopyStarts
<1>5. PICK s : /\ DrawList(s)
               /\ RectCopy(r, x, y, dx, dy, w, h)
                    = Await("blitter") \o (Set("blitter_row_pitch", r.pitch \div 2) \o s)
  <2> DEFINE narrow == w < 4 \/ h < 2 \/ (r.format = RTG_COLOR_FORMAT_CLUT /\ dx % 2 # x % 2)
             clut == ~(w < 4 \/ h < 2) /\ r.format = RTG_COLOR_FORMAT_CLUT /\ dx % 2 = x % 2
             true == ~(w < 4 \/ h < 2) /\ r.format \in {8, 9}
             s == CASE narrow -> <<[do |-> "fallback"]>>
                    [] clut -> CopyClut(r, x, y, dx, dy, w, h)
                    [] true -> StartCopy(r, 2 * x, y, 2 * dx, dy, 2 * w, h)
                    [] OTHER -> StartCopy(r, x, y, dx, dy, w, h)
  <2>1. RectCopy(r, x, y, dx, dy, w, h)
          = Await("blitter") \o (Set("blitter_row_pitch", r.pitch \div 2) \o s)
    BY DEF RectCopy, If
  <2>2. ~(narrow /\ clut) /\ ~(narrow /\ true) /\ ~(clut /\ true)
    BY DEF RTG_COLOR_FORMAT_CLUT
  <2> HIDE DEF narrow, clut, true
  <2>3. DrawList(s)
    BY <1>2, <1>3, <1>4, <2>2
  <2> HIDE DEF s
  <2>4. QED
    BY <2>1, <2>3
<1>6. QED
  BY <1>1, <1>5, AwaitDraws, DrawJoin
-----------------------------------------------------------------------------
(* What a sequence leaves in a register.                                   *)

LEMMA LeavesLater ==
  ASSUME NEW s, NEW t, IsSeq(s), IsSeq(t), NEW f, NEW v, Leaves(t, f, v) PROVE Leaves(s \o t, f, v)
<1> DEFINE u == s \o t
<1>1. /\ Len(s) \in Nat /\ Len(t) \in Nat /\ Len(u) = Len(s) + Len(t)
      /\ \A k \in Len(s) + 1..Len(s) + Len(t) : u[k] = t[k - Len(s)]
  BY Joined, LenOf
<1> HIDE DEF u
<1>2. PICK k \in 1..Len(t) : /\ Writes(t[k], f) /\ ValueOf(t[k].name, t[k].val, f) = v
                             /\ \A j \in k + 1..Len(t) : ~Writes(t[j], f)
  BY DEF Leaves
<1> DEFINE m == k + Len(s)
<1>3. m \in 1..Len(u) /\ m \in Len(s) + 1..Len(s) + Len(t) /\ m - Len(s) = k
  BY <1>1
<1>4. u[m] = t[k]
  BY <1>1, <1>3
<1>5. ASSUME NEW j \in m + 1..Len(u) PROVE ~Writes(u[j], f)
  <2>1. j \in Len(s) + 1..Len(s) + Len(t) /\ j - Len(s) \in k + 1..Len(t)
    BY <1>1
  <2>2. u[j] = t[j - Len(s)]
    BY <1>1, <2>1
  <2>3. QED
    BY <1>2, <2>1, <2>2
<1>6. QED
  BY <1>2, <1>3, <1>4, <1>5 DEF Leaves, u

LEMMA LeavesEarlier ==
  ASSUME NEW s, NEW t, IsSeq(s), IsSeq(t), NEW f, NEW v, Leaves(s, f, v), ~Touches(t, f)
  PROVE  Leaves(s \o t, f, v)
<1> DEFINE u == s \o t
<1>1. /\ Len(s) \in Nat /\ Len(t) \in Nat /\ Len(u) = Len(s) + Len(t)
      /\ \A k \in 1..Len(s) : u[k] = s[k]
      /\ \A k \in Len(s) + 1..Len(s) + Len(t) : u[k] = t[k - Len(s)]
  BY Joined, LenOf
<1> HIDE DEF u
<1>2. PICK k \in 1..Len(s) : /\ Writes(s[k], f) /\ ValueOf(s[k].name, s[k].val, f) = v
                             /\ \A j \in k + 1..Len(s) : ~Writes(s[j], f)
  BY DEF Leaves
<1>3. k \in 1..Len(u) /\ u[k] = s[k]
  BY <1>1
<1>4. ASSUME NEW j \in k + 1..Len(u) PROVE ~Writes(u[j], f)
  <2>1. CASE j <= Len(s)
    <3>1. j \in k + 1..Len(s) /\ j \in 1..Len(s)
      BY <1>1, <2>1
    <3>2. QED
      BY <1>1, <1>2, <3>1
  <2>2. CASE j > Len(s)
    <3>1. j \in Len(s) + 1..Len(s) + Len(t) /\ j - Len(s) \in 1..Len(t)
      BY <1>1, <2>2
    <3>2. u[j] = t[j - Len(s)]
      BY <1>1, <3>1
    <3>3. QED
      BY <3>1, <3>2 DEF Touches
  <2>3. QED
    BY <1>1, <2>1, <2>2
<1>5. QED
  BY <1>2, <1>3, <1>4 DEF Leaves, u

LEMMA TouchesSteps == ASSUME NEW s, NEW f PROVE Touches(s, f) <=> \E x \in StepsOf(s) : Writes(x, f)
BY DEF Touches, StepsOf

LEMMA JoinedTouches ==
  ASSUME NEW s, NEW t, IsSeq(s), IsSeq(t), NEW f
  PROVE  Touches(s \o t, f) <=> Touches(s, f) \/ Touches(t, f)
BY Joined, TouchesSteps

(* A list of writes to some registers leaves all others alone. *)
LEMMA ShowTouches ==
  ASSUME NEW s, NEW names, ShowList(s, names), NEW f, \A n \in names : f \notin FieldsOf(n)
  PROVE  ~Touches(s, f)
BY TouchesSteps DEF ShowList, Showing, Writes

LEMMA SetLeaves ==
  \A name, v, f, w : f \in FieldsOf(name) /\ ValueOf(name, v, f) = w => Leaves(Set(name, v), f, w)
<1> SUFFICES ASSUME NEW name, NEW v, NEW f, f \in FieldsOf(name)
             PROVE  Leaves(Set(name, v), f, ValueOf(name, v, f))
  OBVIOUS
<1> DEFINE x == [do |-> "reg", name |-> name, val |-> v]
           s == <<x>>
<1>1. x.do = "reg" /\ x.name = name /\ x.val = v /\ Set(name, v) = s
  BY DEF Set
<1>2. Len(s) = 1 /\ s[1] = x
  OBVIOUS
<1> HIDE DEF x, s
<1>3. Writes(x, f)
  BY <1>1 DEF Writes
<1>4. 1 \in 1..Len(s) /\ 1 + 1..Len(s) = {}
  BY <1>2
<1>5. QED
  BY <1>1, <1>2, <1>3, <1>4 DEF Leaves
-----------------------------------------------------------------------------
(* The calls that show a mode.                                             *)

LEMMA ColorRange == ASSUME NEW format PROVE RtgToMnt(format) \in {0, 1, 2, 3, MNTVA_COLOR_15BIT}
BY DEF RtgToMnt, MNTVA_COLOR_8BIT, MNTVA_COLOR_16BIT565, MNTVA_COLOR_32BIT, MNTVA_COLOR_1BIT

LEMMA Powers ==
  2^0 = 1 /\ 2^1 = 2 /\ 2^2 = 4 /\ 2^3 = 8 /\ 2^8 = 256 /\ 2^11 = 2048 /\ 2^12 = 4096 /\ 2^16 = 65536
OBVIOUS

(* The bytes of a row. *)
LEMMA PitchBytes ==
  ASSUME NEW w \in Nat, NEW format
  PROVE  /\ CalcPitchBytes(w, RtgToMnt(format)) \in Nat
         /\ w <= MaxBitmap /\ format # 0 =>
              CalcPitchBytes(w, RtgToMnt(format)) = w * BytesPerPixel(format)
<1> DEFINE cm == RtgToMnt(format)
<1> USE Powers, ColorAssumption DEF MNTVA_COLOR_8BIT, MNTVA_COLOR_16BIT565, MNTVA_COLOR_32BIT, MNTVA_COLOR_1BIT
<1>1. CASE cm = 3
  <2>1. format = 0
    BY <1>1 DEF RtgToMnt
  <2>2. QED
    BY <1>1, <2>1 DEF CalcPitchBytes
<1>2. CASE cm = MNTVA_COLOR_15BIT
  <2>1. format \in {11, 13, 5}
    BY <1>2 DEF RtgToMnt
  <2>2. CalcPitchBytes(w, cm) = (w * 2) % 65536
    BY <1>2 DEF CalcPitchBytes
  <2>3. BytesPerPixel(format) = 2
    BY <2>1 DEF BytesPerPixel, RTG_COLOR_FORMAT_CLUT
  <2>4. QED
    BY <2>2, <2>3 DEF MaxBitmap
<1>3. CASE cm = 0
  <2>1. format = 1
    BY <1>3 DEF RtgToMnt, RTG_COLOR_FORMAT_CLUT
  <2>2. CalcPitchBytes(w, cm) = (w * 1) % 65536
    BY <1>3 DEF CalcPitchBytes
  <2>3. BytesPerPixel(format) = 1
    BY <2>1 DEF BytesPerPixel, RTG_COLOR_FORMAT_CLUT
  <2>4. QED
    BY <2>2, <2>3 DEF MaxBitmap
<1>4. CASE cm = 2
  <2>1. format \in {8, 9}
    BY <1>4 DEF RtgToMnt
  <2>2. CalcPitchBytes(w, cm) = (w * 4) % 65536
    BY <1>4 DEF CalcPitchBytes
  <2>3. BytesPerPixel(format) = 4
    BY <2>1 DEF BytesPerPixel, RTG_COLOR_FORMAT_CLUT
  <2>4. QED
    BY <2>2, <2>3 DEF MaxBitmap
<1>5. CASE cm = 1
  <2>1. format \notin {0, 1, 8, 9}
    BY <1>5 DEF RtgToMnt, RTG_COLOR_FORMAT_CLUT
  <2>2. CalcPitchBytes(w, cm) = (w * 2) % 65536
    BY <1>5 DEF CalcPitchBytes
  <2>3. BytesPerPixel(format) = 2
    BY <2>1 DEF BytesPerPixel, RTG_COLOR_FORMAT_CLUT
  <2>4. QED
    BY <2>2, <2>3 DEF MaxBitmap
<1>6. QED
  BY <1>1, <1>2, <1>3, <1>4, <1>5, ColorRange

(* Timings fit their registers. *)
LEMMA ModeLineRange ==
  ASSUME NEW w, NEW h, NEW k \in 1..7
  PROVE  ModeLine(w, h)[k] \in Nat /\ ModeLine(w, h)[k] < IF k = 7 THEN 4 ELSE 4096
BY DEF ModeLine, MNTVA_CLK_75MHZ, MNTVA_CLK_40MHZ, MNTVA_CLK_100MHZ

LEMMA TimingNamed ==
  ASSUME NEW k \in 1..7
  PROVE  /\ DOMAIN TimingRegisters = 1..7 /\ TimingRegisters[k] \in TimingNames
         /\ FieldsOf(TimingRegisters[k]) = {TimingRegisters[k]}
         /\ 2^Bits(TimingRegisters[k]) = IF k = 7 THEN 4 ELSE 4096
         /\ TimingRegisters[k] \notin {"screen_w", "screen_h", "line_w", "scalemode"}
         /\ \A j \in 1..7 : TimingRegisters[j] = TimingRegisters[k] => j = k
<1>1. DOMAIN TimingRegisters = 1..7 /\ \A j \in 1..7 : TimingRegisters[j] = TimingRegisters[k] => j = k
  BY DEF TimingRegisters
<1>2. TimingRegisters[k] \in TimingNames
  BY DEF TimingRegisters, TimingNames
<1>3. TimingRegisters[k] \notin {"screen_w", "screen_h", "line_w", "scalemode"}
  BY DEF TimingRegisters
<1>4. FieldsOf(TimingRegisters[k]) = {TimingRegisters[k]}
  BY DEF TimingRegisters, FieldsOf, Undecoded
<1>5. Bits(TimingRegisters[k]) = IF k = 7 THEN 2 ELSE 12
  BY DEF TimingRegisters, Bits
<1>6. QED
  BY <1>1, <1>2, <1>3, <1>4, <1>5, Powers

LEMMA LineShows ==
  ASSUME NEW w, NEW h
  PROVE  /\ ShowList(InitModeLine(w, h), TimingNames)
         /\ \A k \in 1..7 : Leaves(InitModeLine(w, h), TimingRegisters[k], ModeLine(w, h)[k])
<1> DEFINE s == InitModeLine(w, h)
<1>1. /\ s = [k \in 1..7 |-> s[k]]
      /\ \A k \in 1..7 : /\ s[k].do = "reg" /\ s[k].name = TimingRegisters[k]
                         /\ s[k].val = ModeLine(w, h)[k]
  BY TimingNamed DEF InitModeLine
<1> HIDE DEF s
<1>2. Len(s) = 7
  BY <1>1
<1>3. ShowList(s, TimingNames)
  <2>1. IsSeq(s) /\ \A x \in StepsOf(s) : \E k \in 1..7 : x = s[k]
    <3> DEFINE n == 7
    <3>1. n \in Int /\ s = [k \in 1..n |-> s[k]]
      BY <1>1
    <3> HIDE DEF n
    <3>2. IsSeq(s) /\ \A x \in StepsOf(s) : \E k \in 1..n : x = s[k]
      BY <3>1, Listed
    <3>3. QED
      BY <3>2 DEF n
  <2>2. \A k \in 1..7 : Showing(s[k], TimingNames)
    BY <1>1, TimingNamed, ModeLineRange DEF Showing
  <2>3. QED
    BY <2>1, <2>2 DEF ShowList
<1>4. ASSUME NEW k \in 1..7 PROVE Leaves(s, TimingRegisters[k], ModeLine(w, h)[k])
  <2>1. \A j \in 1..7 : Writes(s[j], TimingRegisters[k]) <=> j = k
    BY <1>1, TimingNamed DEF Writes
  <2>2. ModeLine(w, h)[k] % 2^Bits(TimingRegisters[k]) = ModeLine(w, h)[k]
    BY ModeLineRange, TimingNamed
  <2>3. ValueOf(s[k].name, s[k].val, TimingRegisters[k]) = ModeLine(w, h)[k]
    BY <1>1, <2>2, TimingNamed DEF ValueOf
  <2>4. QED
    BY <1>2, <2>1, <2>3 DEF Leaves
<1>5. QED
  BY <1>3, <1>4 DEF s

LEMMA IfShows == ASSUME NEW p \in BOOLEAN, NEW s, NEW names, ShowList(s, names) PROVE ShowList(If(p, s), names)
BY ShowNothing DEF If

LEMMA ShowSeq == \A s, names : ShowList(s, names) => IsSeq(s)
BY DEF ShowList

(* The sizes: line_w, when it is written, is the last to set fetch_w. *)
WordsPerLine(w, colormode) ==
  IF colormode = MNTVA_COLOR_32BIT THEN 4 + 2 * w
  ELSE IF colormode = MNTVA_COLOR_8BIT THEN w \div 2 ELSE w
IsSize(w, h) == w \in 0..1920 /\ h \in 0..4095
LEMMA ScreenShows ==
  ASSUME NEW w, NEW h, IsSize(w, h), NEW colormode
  PROVE  /\ ShowList(ScreenSteps(w, h, colormode), SizeNames)
         /\ Leaves(ScreenSteps(w, h, colormode), "h_rez", w)
         /\ Leaves(ScreenSteps(w, h, colormode), "v_rez", h)
         /\ Leaves(ScreenSteps(w, h, colormode), "fetch_w", WordsPerLine(w, colormode))
<1> DEFINE width == Set("screen_w", w)
           height == Set("screen_h", h)
           wide == Set("line_w", 4 + 2 * w)
           narrow == Set("line_w", w \div 2)
           third == If(colormode = MNTVA_COLOR_32BIT, wide)
           fourth == If(colormode = MNTVA_COLOR_8BIT, narrow)
           s == ((width \o height) \o third) \o fourth
<1>0. /\ w \in 0..1920 /\ h \in 0..4095 /\ w \in Int /\ h \in Int
      /\ w \div 2 \in Int /\ 4 + 2 * w \in Int
  BY DEF IsSize
<1>1. ScreenSteps(w, h, colormode) = s
  BY DEF ScreenSteps
<1>2. /\ ShowList(width, SizeNames) /\ ShowList(height, SizeNames)
      /\ ShowList(wide, SizeNames) /\ ShowList(narrow, SizeNames)
  <2>1. "screen_w" \in SizeNames /\ "screen_h" \in SizeNames /\ "line_w" \in SizeNames
    BY DEF SizeNames
  <2>2. QED
    BY <1>0, <2>1, ShowSet
<1>3. ShowList(third, SizeNames) /\ ShowList(fourth, SizeNames)
  BY <1>2, ShowNothing DEF If
<1>4. /\ FieldsOf("screen_w") = {"fetch_w", "h_rez"} /\ FieldsOf("screen_h") = {"v_rez"}
      /\ FieldsOf("line_w") = {"fetch_w"}
  BY DEF FieldsOf, Undecoded
<1>5. Leaves(width, "h_rez", w) /\ Leaves(width, "fetch_w", w)
  <2>1. ValueOf("screen_w", w, "h_rez") = w /\ ValueOf("screen_w", w, "fetch_w") = w
    BY <1>0 DEF ValueOf
  <2>2. "h_rez" \in FieldsOf("screen_w") /\ "fetch_w" \in FieldsOf("screen_w")
    BY <1>4
  <2>3. QED
    BY <2>1, <2>2, SetLeaves
<1>6. Leaves(height, "v_rez", h)
  <2>1. ValueOf("screen_h", h, "v_rez") = h
    BY <1>0 DEF ValueOf
  <2>2. "v_rez" \in FieldsOf("screen_h")
    BY <1>4
  <2>3. QED
    BY <2>1, <2>2, SetLeaves
<1>7. Leaves(wide, "fetch_w", 4 + 2 * w) /\ Leaves(narrow, "fetch_w", w \div 2)
  <2>1. ValueOf("line_w", 4 + 2 * w, "fetch_w") = 4 + 2 * w /\ ValueOf("line_w", w \div 2, "fetch_w") = w \div 2
    BY <1>0 DEF ValueOf
  <2>2. "fetch_w" \in FieldsOf("line_w")
    BY <1>4
  <2>3. QED
    BY <2>1, <2>2, SetLeaves
<1>8. \A f \in {"h_rez", "fetch_w"} : ~Touches(height, f)
  <2>1. ShowList(height, {"screen_h"})
    BY <1>0, ShowSet
  <2>2. QED
    BY <1>4, <2>1, ShowTouches
<1>9. /\ \A f \in {"h_rez", "v_rez"} : ~Touches(third, f) /\ ~Touches(fourth, f)
      /\ colormode # MNTVA_COLOR_32BIT => ~Touches(third, "fetch_w")
      /\ colormode # MNTVA_COLOR_8BIT => ~Touches(fourth, "fetch_w")
  <2>1. ShowList(wide, {"line_w"}) /\ ShowList(narrow, {"line_w"})
    BY <1>0, ShowSet
  <2>2. ShowList(third, {"line_w"}) /\ ShowList(fourth, {"line_w"})
    BY <2>1, ShowNothing DEF If
  <2>3. \A f : ~Touches(<<>>, f)
    BY Empty, TouchesSteps
  <2>4. QED
    BY <1>4, <2>2, <2>3, ShowTouches DEF If
<1>10. IsSeq(width) /\ IsSeq(height) /\ IsSeq(third) /\ IsSeq(fourth)
  BY <1>2, <1>3, ShowSeq
<1> HIDE DEF width, height
<1> DEFINE ab == width \o height
<1>11. ShowList(ab, SizeNames) /\ IsSeq(ab)
  BY <1>2, ShowJoin, ShowSeq
<1>12. Leaves(ab, "h_rez", w) /\ Leaves(ab, "fetch_w", w) /\ Leaves(ab, "v_rez", h)
  BY <1>5, <1>6, <1>8, <1>10, LeavesEarlier, LeavesLater
<1> HIDE DEF ab
<1> DEFINE abc == ab \o third
<1>13. ShowList(abc, SizeNames) /\ IsSeq(abc)
  BY <1>3, <1>11, ShowJoin, ShowSeq
<1>14. Leaves(abc, "h_rez", w) /\ Leaves(abc, "v_rez", h)
  BY <1>9, <1>10, <1>11, <1>12, LeavesEarlier
<1>15. Leaves(abc, "fetch_w", IF colormode = MNTVA_COLOR_32BIT THEN 4 + 2 * w ELSE w)
  <2>1. CASE colormode = MNTVA_COLOR_32BIT
    <3>1. Leaves(third, "fetch_w", 4 + 2 * w)
      BY <1>7, <2>1 DEF If
    <3>2. QED
      BY <1>10, <1>11, <2>1, <3>1, LeavesLater
  <2>2. CASE colormode # MNTVA_COLOR_32BIT
    BY <1>9, <1>10, <1>11, <1>12, <2>2, LeavesEarlier
  <2>3. QED
    BY <2>1, <2>2
<1> HIDE DEF abc
<1>16. ShowList(abc \o fourth, SizeNames)
  BY <1>3, <1>13, ShowJoin
<1>17. Leaves(abc \o fourth, "h_rez", w) /\ Leaves(abc \o fourth, "v_rez", h)
  BY <1>9, <1>10, <1>13, <1>14, LeavesEarlier
<1>18. Leaves(abc \o fourth, "fetch_w", WordsPerLine(w, colormode))
  <2>1. CASE colormode = MNTVA_COLOR_8BIT
    <3>1. Leaves(fourth, "fetch_w", w \div 2)
      BY <1>7, <2>1 DEF If
    <3>2. WordsPerLine(w, colormode) = w \div 2
      BY <2>1 DEF WordsPerLine, MNTVA_COLOR_8BIT, MNTVA_COLOR_32BIT
    <3>3. QED
      BY <1>10, <1>13, <3>1, <3>2, LeavesLater
  <2>2. CASE colormode # MNTVA_COLOR_8BIT
    <3>1. WordsPerLine(w, colormode) = IF colormode = MNTVA_COLOR_32BIT THEN 4 + 2 * w ELSE w
      BY <2>2 DEF WordsPerLine
    <3>2. QED
      BY <1>9, <1>10, <1>13, <1>15, <2>2, <3>1, LeavesEarlier
  <2>3. QED
    BY <2>1, <2>2
<1>19. QED
  BY <1>1, <1>16, <1>17, <1>18 DEF abc, ab

(* A sequence that sets everything the picture depends on but its place. *)
ModeLeft(s, w, h, color, scale) ==
  /\ Leaves(s, "colormode", color)
  /\ Leaves(s, "h_rez", w) /\ Leaves(s, "v_rez", h) /\ Leaves(s, "fetch_w", WordsPerLine(w, color))
  /\ Leaves(s, "scale_h", scale) /\ Leaves(s, "scale_v", scale)
  /\ \A k \in 1..7 : Leaves(s, TimingRegisters[k], ModeLine(w, h)[k])
ModeFields == TimingNames \cup {"colormode", "h_rez", "v_rez", "fetch_w", "scale_h", "scale_v"}

LEMMA ScreenRange ==
  ASSUME NEW m, IsMode(m) PROVE ScreenW(m) \in 0..1920 /\ ScreenH(m) \in 0..1080 /\ ScreenW(m) % 2 = 0
<1> DEFINE w == m.width
           h == m.height
<1>1. w \in 0..1920 /\ w % 2 = 0 /\ h \in 0..1080
  BY DEF IsMode
<1>2. /\ ScreenW(m) = IF h > 360 \/ w > 640 THEN w ELSE 2 * w
      /\ ScreenH(m) = IF h > 360 \/ w > 640 THEN h ELSE IF 2 * h < 480 THEN 480 ELSE 2 * h
  BY DEF ScreenW, ScreenH, Doubled
<1> HIDE DEF w, h
<1>3. QED
  BY <1>1, <1>2

(* Which fields a list of writes leaves alone, by the names it writes. *)
LEMMA NamesFields ==
  /\ \A n \in OtherNames : FieldsOf(n) \cap (ModeFields \cup PanNames) = {}
  /\ \A n \in TimingNames : FieldsOf(n) = {n}
  /\ \A n \in PanNames : FieldsOf(n) = {n}
  /\ FieldsOf("colormode") = {"colormode"} /\ FieldsOf("scalemode") = {"scale_h", "scale_v"}
  /\ \A n \in SizeNames : FieldsOf(n) \subseteq {"h_rez", "v_rez", "fetch_w"}
<1>1. \A n \in OtherNames : FieldsOf(n) \subseteq OtherNames
  BY DEF OtherNames, FieldsOf, Undecoded
<1>2. OtherNames \cap (ModeFields \cup PanNames) = {}
  BY DEF OtherNames, ModeFields, PanNames, TimingNames
<1>3. \A n \in TimingNames : FieldsOf(n) = {n}
  BY DEF TimingNames, FieldsOf, Undecoded
<1>4. \A n \in PanNames : FieldsOf(n) = {n}
  BY DEF PanNames, FieldsOf, Undecoded
<1>5. FieldsOf("colormode") = {"colormode"} /\ FieldsOf("scalemode") = {"scale_h", "scale_v"}
  BY DEF FieldsOf, Undecoded
<1>6. \A n \in SizeNames : FieldsOf(n) \subseteq {"h_rez", "v_rez", "fetch_w"}
  BY DEF SizeNames, FieldsOf, Undecoded
<1>7. QED
  BY <1>1, <1>2, <1>3, <1>4, <1>5, <1>6

LEMMA PitchShows ==
  ASSUME NEW w \in Nat, NEW format PROVE ShowList(InitModePitch(w, RtgToMnt(format)), OtherNames)
<1> DEFINE pitch == CalcPitchBytes(w, RtgToMnt(format)) \div 2
<1>1. pitch \in Nat
  BY PitchBytes
<1>2. PitchToShift(pitch) \in Int
  <2>1. CASE \E k \in 8..13 : pitch = 2^k
    <3>1. PitchToShift(pitch) = CHOOSE k \in 8..13 : pitch = 2^k
      BY <2>1 DEF PitchToShift
    <3> HIDE DEF pitch
    <3>2. QED
      BY <2>1, <3>1
  <2>2. CASE ~(\E k \in 8..13 : pitch = 2^k)
    BY <2>2 DEF PitchToShift
  <2>3. QED
    BY <2>1, <2>2
<1>3. "row_pitch" \in OtherNames /\ "row_pitch_shift" \in OtherNames
  BY DEF OtherNames
<1>4. InitModePitch(w, RtgToMnt(format)) = Set("row_pitch", pitch) \o Set("row_pitch_shift", PitchToShift(pitch))
  BY DEF InitModePitch
<1> HIDE DEF pitch
<1>5. ShowList(Set("row_pitch", pitch), OtherNames) /\ ShowList(Set("row_pitch_shift", PitchToShift(pitch)), OtherNames)
  BY <1>1, <1>2, <1>3, ShowSet
<1>6. QED
  BY <1>4, <1>5, ShowJoin

LEMMA SafeShows == ASSUME NEW m, NEW colormode PROVE ShowList(SafeAreaSteps(m, colormode), OtherNames)
<1>1. "safe_x2" \in OtherNames /\ "fetch_preroll" \in OtherNames
  BY DEF OtherNames
<1>2. \A v \in {384, 464, 480, 496} :
        ShowList(Set("safe_x2", v), OtherNames) /\ ShowList(Set("fetch_preroll", v), OtherNames)
  BY <1>1, ShowSet
<1> DEFINE first == colormode = MNTVA_COLOR_32BIT /\ m.width >= 1024
           second == colormode \in {MNTVA_COLOR_16BIT565, MNTVA_COLOR_15BIT} /\ m.width = 1280
           third == colormode = MNTVA_COLOR_8BIT /\ m.width = 800
           area == CASE first -> Set("safe_x2", 384) \o Set("fetch_preroll", 384)
                     [] second -> Set("safe_x2", 464) \o Set("fetch_preroll", 464)
                     [] third -> Set("safe_x2", 496) \o Set("fetch_preroll", 496)
                     [] OTHER -> Set("fetch_preroll", 480)
<1>3. ~(first /\ second) /\ ~(first /\ third) /\ ~(second /\ third)
  BY ColorAssumption DEF MNTVA_COLOR_32BIT, MNTVA_COLOR_16BIT565, MNTVA_COLOR_8BIT
<1>4. SafeAreaSteps(m, colormode) = Set("safe_x2", 480) \o area
  BY DEF SafeAreaSteps
<1> HIDE DEF first, second, third
<1>5. ShowList(area, OtherNames)
  BY <1>2, <1>3, ShowJoin
<1> HIDE DEF area
<1>6. QED
  BY <1>2, <1>4, <1>5, ShowJoin

LEMMA AwaitShows == \A names : ShowList(Await("vsync"), names)
<1> DEFINE x == [do |-> "await", for |-> "vsync"]
<1>1. Await("vsync") = <<x>> /\ x.do = "await" /\ x.for = "vsync"
  BY DEF Await
<1> HIDE DEF x
<1>2. QED
  BY <1>1, Single DEF ShowList, Showing

(* Colors and scales fit their registers. *)
LEMMA ModeSet ==
  ASSUME NEW format, NEW scale \in 0..1
  PROVE  LET s == Set("colormode", RtgToMnt(format))
             t == Set("scalemode", 4 * scale + scale)
         IN  /\ ShowList(s, {"colormode"}) /\ ShowList(t, {"scalemode"})
             /\ Leaves(s, "colormode", RtgToMnt(format))
             /\ Leaves(t, "scale_h", scale) /\ Leaves(t, "scale_v", scale)
<1>1. RtgToMnt(format) \in 0..7
  BY ColorRange, ColorAssumption
<1>2. ValueOf("colormode", RtgToMnt(format), "colormode") = RtgToMnt(format)
  BY <1>1, Powers DEF ValueOf, Bits
<1>3. /\ ValueOf("scalemode", 4 * scale + scale, "scale_h") = scale
      /\ ValueOf("scalemode", 4 * scale + scale, "scale_v") = scale
  BY DEF ValueOf
<1>4. 4 * scale + scale \in Int /\ RtgToMnt(format) \in Int
  BY <1>1
<1>5. /\ "colormode" \in FieldsOf("colormode")
      /\ "scale_h" \in FieldsOf("scalemode") /\ "scale_v" \in FieldsOf("scalemode")
  BY NamesFields
<1>6. QED
  BY <1>2, <1>3, <1>4, <1>5, SetLeaves, ShowSet

(* init_mode, for a mode it does not turn down. *)
LEMMA InitModeShows ==
  ASSUME NEW m, IsMode(m), ~TooSmall(m), NEW format
  PROVE  LET s == InitMode(m, format)
         IN  /\ ShowList(s, DisplayNames \ PanNames)
             /\ ModeLeft(s, ScreenW(m), ScreenH(m), RtgToMnt(format), IF Doubled(m) THEN 1 ELSE 0)
<1> DEFINE color == RtgToMnt(format)
           w == ScreenW(m)
           h == ScreenH(m)
           scale == IF Doubled(m) THEN 1 ELSE 0
           delay == IF color = MNTVA_COLOR_32BIT THEN 10 ELSE 23
           names == DisplayNames \ PanNames
           first == (((Await("vsync") \o SafeAreaSteps(m, color)) \o Set("ram_fetch_delay2_max", delay))
                     \o InitModeLine(w, h)) \o InitModePitch(w, color)
           sc == Set("colormode", color)
           ss == Set("scalemode", 4 * scale + scale)
           size == ScreenSteps(w, h, color)
           line == InitModeLine(w, h)
<1>1. InitMode(m, format) = (((first \o sc) \o ss) \o size) \o line
  BY DEF InitMode, If
<1>2. IsSize(w, h) /\ w \in Nat /\ scale \in 0..1 /\ delay \in Int
  <2>1. w \in 0..1920 /\ h \in 0..1080
    BY ScreenRange
  <2>2. scale \in 0..1 /\ delay \in Int
    OBVIOUS
  <2> HIDE DEF w, h, scale, delay
  <2>3. QED
    BY <2>1, <2>2 DEF IsSize
<1>3. /\ TimingNames \subseteq names /\ OtherNames \subseteq names /\ SizeNames \subseteq names
      /\ {"colormode"} \subseteq names /\ {"scalemode"} \subseteq names /\ "ram_fetch_delay2_max" \in names
  BY DEF DisplayNames, PanNames, TimingNames, OtherNames, SizeNames, ModeNames
<1> HIDE DEF names, w, h, scale, delay
<1>4. ShowList(first, names)
  <2>1. ShowList(Await("vsync"), names)
    BY AwaitShows
  <2>2. ShowList(SafeAreaSteps(m, color), names)
    BY <1>3, SafeShows, ShowWider
  <2>3. ShowList(Set("ram_fetch_delay2_max", delay), names)
    BY <1>2, <1>3, ShowSet
  <2>4. ShowList(InitModeLine(w, h), names)
    BY <1>3, LineShows, ShowWider
  <2>5. ShowList(InitModePitch(w, color), names)
    BY <1>2, <1>3, PitchShows, ShowWider
  <2>6. QED
    BY <2>1, <2>2, <2>3, <2>4, <2>5, ShowJoin
<1>5. /\ ShowList(sc, {"colormode"}) /\ ShowList(ss, {"scalemode"}) /\ ShowList(size, SizeNames)
      /\ ShowList(line, TimingNames)
  <2>1. ShowList(sc, {"colormode"}) /\ ShowList(ss, {"scalemode"})
    BY <1>2, ModeSet
  <2>2. ShowList(size, SizeNames)
    BY <1>2, ScreenShows
  <2>3. ShowList(line, TimingNames)
    BY LineShows
  <2>4. QED
    BY <2>1, <2>2, <2>3
<1>6. /\ Leaves(sc, "colormode", color) /\ Leaves(ss, "scale_h", scale) /\ Leaves(ss, "scale_v", scale)
      /\ Leaves(size, "h_rez", w) /\ Leaves(size, "v_rez", h) /\ Leaves(size, "fetch_w", WordsPerLine(w, color))
      /\ \A k \in 1..7 : Leaves(line, TimingRegisters[k], ModeLine(w, h)[k])
  <2>1. Leaves(sc, "colormode", color) /\ Leaves(ss, "scale_h", scale) /\ Leaves(ss, "scale_v", scale)
    BY <1>2, ModeSet
  <2>2. Leaves(size, "h_rez", w) /\ Leaves(size, "v_rez", h) /\ Leaves(size, "fetch_w", WordsPerLine(w, color))
    BY <1>2, ScreenShows
  <2>3. \A k \in 1..7 : Leaves(line, TimingRegisters[k], ModeLine(w, h)[k])
    BY LineShows
  <2>4. QED
    BY <2>1, <2>2, <2>3
<1>7. /\ ~Touches(ss, "colormode") /\ ~Touches(size, "colormode") /\ ~Touches(line, "colormode")
      /\ \A f \in {"scale_h", "scale_v"} : ~Touches(size, f) /\ ~Touches(line, f)
      /\ \A f \in {"h_rez", "v_rez", "fetch_w"} : ~Touches(line, f)
  <2>1. \A f \in {"colormode", "scale_h", "scale_v", "h_rez", "v_rez", "fetch_w"} :
          \A n \in TimingNames : f \notin FieldsOf(n)
    BY NamesFields DEF TimingNames
  <2>2. \A f \in {"colormode", "scale_h", "scale_v"} : \A n \in SizeNames : f \notin FieldsOf(n)
    BY NamesFields
  <2>3. \A n \in {"scalemode"} : "colormode" \notin FieldsOf(n)
    BY NamesFields
  <2>4. \A f \in {"colormode", "scale_h", "scale_v", "h_rez", "v_rez", "fetch_w"} : ~Touches(line, f)
    BY <1>5, <2>1, ShowTouches
  <2>5. \A f \in {"colormode", "scale_h", "scale_v"} : ~Touches(size, f)
    BY <1>5, <2>2, ShowTouches
  <2>6. ~Touches(ss, "colormode")
    BY <1>5, <2>3, ShowTouches
  <2>7. QED
    BY <2>4, <2>5, <2>6
<1>8. ShowList(sc, names) /\ ShowList(ss, names) /\ ShowList(size, names) /\ ShowList(line, names)
  BY <1>3, <1>5, ShowWider
<1> HIDE DEF first, sc, ss, size, line
<1> DEFINE a == first \o sc
           b == a \o ss
           c == b \o size
           d == c \o line
<1>9. ShowList(a, names) /\ ShowList(b, names) /\ ShowList(c, names) /\ ShowList(d, names)
  BY <1>4, <1>8, ShowJoin
<1>10. /\ IsSeq(first) /\ IsSeq(sc) /\ IsSeq(ss) /\ IsSeq(size) /\ IsSeq(line)
       /\ IsSeq(a) /\ IsSeq(b) /\ IsSeq(c)
  BY <1>4, <1>8, <1>9, ShowSeq
<1>11. Leaves(a, "colormode", color)
  BY <1>6, <1>10, LeavesLater
<1> HIDE DEF a
<1>12. Leaves(b, "colormode", color) /\ Leaves(b, "scale_h", scale) /\ Leaves(b, "scale_v", scale)
  BY <1>6, <1>7, <1>10, <1>11, LeavesLater, LeavesEarlier
<1> HIDE DEF b
<1>13. /\ Leaves(c, "colormode", color) /\ Leaves(c, "scale_h", scale) /\ Leaves(c, "scale_v", scale)
       /\ Leaves(c, "h_rez", w) /\ Leaves(c, "v_rez", h) /\ Leaves(c, "fetch_w", WordsPerLine(w, color))
  BY <1>6, <1>7, <1>10, <1>12, LeavesLater, LeavesEarlier
<1> HIDE DEF c
<1>14. /\ Leaves(d, "colormode", color) /\ Leaves(d, "scale_h", scale) /\ Leaves(d, "scale_v", scale)
       /\ Leaves(d, "h_rez", w) /\ Leaves(d, "v_rez", h) /\ Leaves(d, "fetch_w", WordsPerLine(w, color))
  BY <1>7, <1>10, <1>13, LeavesEarlier
<1>15. \A k \in 1..7 : Leaves(d, TimingRegisters[k], ModeLine(w, h)[k])
  BY <1>6, <1>10, LeavesLater
<1>16. InitMode(m, format) = d
  BY <1>1 DEF a, b, c
<1> HIDE DEF d
<1>17. QED
  BY <1>9, <1>14, <1>15, <1>16 DEF ModeLeft, w, h, scale, names

(* init_mode, turned down or not. *)
LEMMA InitModeList ==
  ASSUME NEW m, IsMode(m), NEW format
  PROVE  /\ ShowList(InitMode(m, format), DisplayNames \ PanNames)
         /\ TooSmall(m) => InitMode(m, format) = <<>>
<1>1. CASE TooSmall(m)
  BY <1>1, ShowNothing DEF InitMode, If
<1>2. CASE ~TooSmall(m)
  BY <1>2, InitModeShows
<1>3. QED
  BY <1>1, <1>2

(* monitor_switch(0) up to the write of capture_mode: the last two steps.  *)
CaptureSetup ==
  Set("pan_ptr_hi", 248) \o Set("pan_ptr_lo", 0)
  \o InitModeLine(640, 512) \o InitModePitch(640, MNTVA_COLOR_16BIT565)
  \o Set("screen_w", 640) \o Set("screen_h", 512)
  \o Set("colormode", MNTVA_COLOR_16BIT565) \o Set("scalemode", 0)
  \o Set("ram_fetch_delay2_max", 0)
LEMMA CaptureShows ==
  /\ ShowList(CaptureSetup, DisplayNames)
  /\ ModeLeft(CaptureSetup, 640, 512, MNTVA_COLOR_16BIT565, 0)
  /\ Leaves(CaptureSetup, "pan_ptr_hi", 248) /\ Leaves(CaptureSetup, "pan_ptr_lo", 0)
<1> DEFINE color == MNTVA_COLOR_16BIT565
           hi == Set("pan_ptr_hi", 248)
           lo == Set("pan_ptr_lo", 0)
           line == InitModeLine(640, 512)
           pitch == InitModePitch(640, color)
           sw == Set("screen_w", 640)
           sh == Set("screen_h", 512)
           sc == Set("colormode", color)
           ss == Set("scalemode", 0)
           delay == Set("ram_fetch_delay2_max", 0)
<1>1. CaptureSetup = (((((((hi \o lo) \o line) \o pitch) \o sw) \o sh) \o sc) \o ss) \o delay
  BY DEF CaptureSetup
<1>2. ShowList(hi, {"pan_ptr_hi"}) /\ ShowList(lo, {"pan_ptr_lo"}) /\ ShowList(line, TimingNames)
  BY ShowSet, LineShows
<1>3. RtgToMnt(10) = color
  BY DEF RtgToMnt, RTG_COLOR_FORMAT_CLUT
<1>4. ShowList(pitch, OtherNames)
  BY <1>3, PitchShows
<1>5. ShowList(sw, {"screen_w"}) /\ ShowList(sh, {"screen_h"}) /\ ShowList(delay, {"ram_fetch_delay2_max"})
  BY ShowSet
<1>6. ShowList(sc, {"colormode"}) /\ Leaves(sc, "colormode", color)
  BY <1>3, ModeSet
<1>7. ShowList(ss, {"scalemode"}) /\ Leaves(ss, "scale_h", 0) /\ Leaves(ss, "scale_v", 0)
  <2> DEFINE n == 0
  <2>1. n \in 0..1 /\ 4 * n + n = 0 /\ n = 0
    OBVIOUS
  <2> HIDE DEF n
  <2>2. ShowList(Set("scalemode", 4 * n + n), {"scalemode"})
    BY <2>1, ModeSet
  <2>3. Leaves(Set("scalemode", 4 * n + n), "scale_h", n) /\ Leaves(Set("scalemode", 4 * n + n), "scale_v", n)
    BY <2>1, ModeSet
  <2>4. QED
    BY <2>1, <2>2, <2>3
<1>8. Leaves(hi, "pan_ptr_hi", 248) /\ Leaves(lo, "pan_ptr_lo", 0)
  <2>1. ValueOf("pan_ptr_hi", 248, "pan_ptr_hi") = 248 /\ ValueOf("pan_ptr_lo", 0, "pan_ptr_lo") = 0
    BY Powers DEF ValueOf, Bits
  <2>2. "pan_ptr_hi" \in FieldsOf("pan_ptr_hi") /\ "pan_ptr_lo" \in FieldsOf("pan_ptr_lo")
    BY NamesFields DEF PanNames
  <2>3. QED
    BY <2>1, <2>2, SetLeaves
<1>9. Leaves(sw, "h_rez", 640) /\ Leaves(sw, "fetch_w", 640) /\ Leaves(sh, "v_rez", 512)
  <2>1. /\ ValueOf("screen_w", 640, "h_rez") = 640 /\ ValueOf("screen_w", 640, "fetch_w") = 640
        /\ ValueOf("screen_h", 512, "v_rez") = 512
    BY DEF ValueOf
  <2>2. /\ "h_rez" \in FieldsOf("screen_w") /\ "fetch_w" \in FieldsOf("screen_w")
        /\ "v_rez" \in FieldsOf("screen_h")
    BY DEF FieldsOf, Undecoded
  <2>3. QED
    BY <2>1, <2>2, SetLeaves
<1>10. \A k \in 1..7 : Leaves(line, TimingRegisters[k], ModeLine(640, 512)[k])
  BY LineShows
(* The fields each of them leaves alone. *)
<1> DEFINE pans == {"pan_ptr_hi", "pan_ptr_lo"}
           all == ModeFields \cup pans
<1>11. /\ ~Touches(lo, "pan_ptr_hi")
       /\ \A f \in pans : ~Touches(line, f)
       /\ \A f \in all : ~Touches(pitch, f) /\ ~Touches(delay, f)
       /\ \A f \in TimingNames \cup pans : ~Touches(sw, f)
       /\ \A f \in TimingNames \cup pans \cup {"h_rez", "fetch_w"} : ~Touches(sh, f)
       /\ \A f \in all \ {"colormode"} : ~Touches(sc, f)
       /\ \A f \in all \ {"scale_h", "scale_v"} : ~Touches(ss, f)
  <2> HIDE DEF hi, lo, line, pitch, sw, sh, sc, ss, delay
  <2>1. /\ FieldsOf("screen_w") = {"fetch_w", "h_rez"} /\ FieldsOf("screen_h") = {"v_rez"}
        /\ FieldsOf("ram_fetch_delay2_max") = {} /\ FieldsOf("pan_ptr_lo") = {"pan_ptr_lo"}
    BY DEF FieldsOf, Undecoded
  <2>2. ~Touches(lo, "pan_ptr_hi")
    BY <1>2, <2>1, ShowTouches
  <2>3. \A f \in pans : \A n \in TimingNames : f \notin FieldsOf(n)
    BY NamesFields DEF TimingNames
  <2>4. \A f \in pans : ~Touches(line, f)
    BY <1>2, <2>3, ShowTouches
  <2>5. \A f \in all : \A n \in OtherNames : f \notin FieldsOf(n)
    BY NamesFields DEF PanNames
  <2>6. \A f \in all : ~Touches(pitch, f) /\ ~Touches(delay, f)
    BY <1>4, <1>5, <2>1, <2>5, ShowTouches
  <2>7. \A f \in TimingNames \cup pans : f \notin {"fetch_w", "h_rez", "v_rez"}
    BY DEF TimingNames
  <2>8. \A f \in TimingNames \cup pans : ~Touches(sw, f) /\ ~Touches(sh, f)
    BY <1>5, <2>1, <2>7, ShowTouches
  <2>9. ~Touches(sh, "h_rez") /\ ~Touches(sh, "fetch_w")
    BY <1>5, <2>1, ShowTouches
  <2>10. \A f \in all \ {"colormode"} : ~Touches(sc, f)
    BY <1>6, NamesFields, ShowTouches
  <2>11. \A f \in all \ {"scale_h", "scale_v"} : ~Touches(ss, f)
    BY <1>7, NamesFields, ShowTouches
  <2>12. QED
    BY <2>2, <2>4, <2>6, <2>8, <2>9, <2>10, <2>11
<1>12. /\ pans \subseteq all /\ TimingNames \subseteq all /\ \A k \in 1..7 : TimingRegisters[k] \in TimingNames
       /\ {"h_rez", "v_rez", "fetch_w", "colormode", "scale_h", "scale_v"} \subseteq all
       /\ {"colormode", "scale_h", "scale_v"} \cap (TimingNames \cup pans) = {}
  <2>1. \A k \in 1..7 : TimingRegisters[k] \in TimingNames
    BY TimingNamed
  <2>2. QED
    BY <2>1 DEF ModeFields, TimingNames
<1>13. /\ ShowList(hi, DisplayNames) /\ ShowList(lo, DisplayNames) /\ ShowList(line, DisplayNames)
       /\ ShowList(pitch, DisplayNames) /\ ShowList(sw, DisplayNames) /\ ShowList(sh, DisplayNames)
       /\ ShowList(sc, DisplayNames) /\ ShowList(ss, DisplayNames) /\ ShowList(delay, DisplayNames)
  <2> HIDE DEF hi, lo, line, pitch, sw, sh, sc, ss, delay
  <2>1. /\ {"pan_ptr_hi"} \subseteq DisplayNames /\ {"pan_ptr_lo"} \subseteq DisplayNames
        /\ TimingNames \subseteq DisplayNames /\ OtherNames \subseteq DisplayNames
        /\ {"screen_w"} \subseteq DisplayNames /\ {"screen_h"} \subseteq DisplayNames
        /\ {"colormode"} \subseteq DisplayNames /\ {"scalemode"} \subseteq DisplayNames
        /\ {"ram_fetch_delay2_max"} \subseteq DisplayNames
    BY DEF DisplayNames, PanNames, OtherNames, SizeNames, ModeNames
  <2>2. QED
    BY <1>2, <1>4, <1>5, <1>6, <1>7, <2>1, ShowWider
<1> HIDE DEF hi, lo, line, pitch, sw, sh, sc, ss, delay, all, pans
<1> DEFINE a == hi \o lo
           b == a \o line
           c == b \o pitch
           d == c \o sw
           e == d \o sh
           f == e \o sc
           g == f \o ss
           h == g \o delay
<1>14. /\ ShowList(a, DisplayNames) /\ ShowList(b, DisplayNames) /\ ShowList(c, DisplayNames)
       /\ ShowList(d, DisplayNames) /\ ShowList(e, DisplayNames) /\ ShowList(f, DisplayNames)
       /\ ShowList(g, DisplayNames) /\ ShowList(h, DisplayNames)
  BY <1>13, ShowJoin
<1>15. /\ IsSeq(hi) /\ IsSeq(lo) /\ IsSeq(line) /\ IsSeq(pitch) /\ IsSeq(sw) /\ IsSeq(sh) /\ IsSeq(sc)
       /\ IsSeq(ss) /\ IsSeq(delay) /\ IsSeq(a) /\ IsSeq(b) /\ IsSeq(c) /\ IsSeq(d) /\ IsSeq(e)
       /\ IsSeq(f) /\ IsSeq(g)
  BY <1>13, <1>14, ShowSeq
<1>16. CaptureSetup = h
  BY <1>1 DEF a, b, c, d, e, f, g
<1> DEFINE PanIn(s) == Leaves(s, "pan_ptr_hi", 248) /\ Leaves(s, "pan_ptr_lo", 0)
           TimingIn(s) == \A k \in 1..7 : Leaves(s, TimingRegisters[k], ModeLine(640, 512)[k])
           WidthIn(s) == Leaves(s, "h_rez", 640) /\ Leaves(s, "fetch_w", 640)
           ScaleIn(s) == Leaves(s, "scale_h", 0) /\ Leaves(s, "scale_v", 0)
<1>17. PanIn(a)
  BY <1>8, <1>11, <1>15, LeavesEarlier, LeavesLater
<1> HIDE DEF a
<1>18. PanIn(b) /\ TimingIn(b)
  BY <1>10, <1>11, <1>15, <1>17, LeavesEarlier, LeavesLater DEF pans
<1> HIDE DEF b
<1>19. PanIn(c) /\ TimingIn(c)
  BY <1>11, <1>12, <1>15, <1>18, LeavesEarlier DEF pans
<1> HIDE DEF c
<1>20. PanIn(d) /\ TimingIn(d) /\ WidthIn(d)
  BY <1>9, <1>11, <1>12, <1>15, <1>19, LeavesEarlier, LeavesLater DEF pans
<1> HIDE DEF d
<1>21. PanIn(e) /\ TimingIn(e) /\ WidthIn(e) /\ Leaves(e, "v_rez", 512)
  BY <1>9, <1>11, <1>12, <1>15, <1>20, LeavesEarlier, LeavesLater DEF pans
<1> HIDE DEF e
<1>22. PanIn(f) /\ TimingIn(f) /\ WidthIn(f) /\ Leaves(f, "v_rez", 512) /\ Leaves(f, "colormode", color)
  BY <1>6, <1>11, <1>12, <1>15, <1>21, LeavesEarlier, LeavesLater DEF pans
<1> HIDE DEF f
<1>23. /\ PanIn(g) /\ TimingIn(g) /\ WidthIn(g) /\ Leaves(g, "v_rez", 512) /\ Leaves(g, "colormode", color)
       /\ ScaleIn(g)
  BY <1>7, <1>11, <1>12, <1>15, <1>22, LeavesEarlier, LeavesLater DEF pans
<1> HIDE DEF g
<1>24. /\ PanIn(h) /\ TimingIn(h) /\ WidthIn(h) /\ Leaves(h, "v_rez", 512) /\ Leaves(h, "colormode", color)
       /\ ScaleIn(h)
  BY <1>11, <1>12, <1>15, <1>23, LeavesEarlier DEF pans
<1>25. WordsPerLine(640, color) = 640
  BY DEF WordsPerLine, MNTVA_COLOR_16BIT565, MNTVA_COLOR_32BIT, MNTVA_COLOR_8BIT
<1> HIDE DEF h
<1>26. QED
  BY <1>14, <1>16, <1>24, <1>25 DEF ModeLeft

(* A call that turns capture on or off: the register, then scratch, among  *)
(* steps that show.                                                        *)
Turning(x) ==
  \/ Showing(x, DisplayNames \cup {"capture_mode"})
  \/ x.do = "scratch" /\ x.val \in 0..1
TurnList(s, v) ==
  /\ IsSeq(s) /\ \A x \in StepsOf(s) : Turning(x)
  /\ \E k \in 1..Len(s) - 1 : SwitchesAt(s, k, v)
TurnPair(v) == Set("capture_mode", v) \o Scratch(v)

LEMMA PairTurns ==
  ASSUME NEW v \in 0..1
  PROVE  TurnList(TurnPair(v), v) /\ \A f \in ModeFields \cup PanNames : ~Touches(TurnPair(v), f)
<1> DEFINE x == [do |-> "reg", name |-> "capture_mode", val |-> v]
           y == [do |-> "scratch", val |-> v]
           s == <<x>> \o <<y>>
<1>1. /\ Captures(x, v) /\ Remembers(y, v) /\ Turning(y) /\ y.do = "scratch"
      /\ x.do = "reg" /\ x.name = "capture_mode" /\ x.val = v
  BY DEF Captures, Remembers, Turning
<1>2. Turning(x)
  BY <1>1 DEF Turning, Showing
<1>3. TurnPair(v) = s
  BY DEF TurnPair, Set, Scratch
<1> HIDE DEF x, y
<1>4. IsSeq(s) /\ Len(s) = 2 /\ StepsOf(s) = {x, y} /\ s[1] = x /\ s[2] = y
  BY Single, Joined
<1> HIDE DEF s
<1>5. SwitchesAt(s, 1, v)
  BY <1>1, <1>4 DEF SwitchesAt
<1>6. TurnList(s, v)
  BY <1>1, <1>2, <1>4, <1>5 DEF TurnList
<1>7. FieldsOf("capture_mode") = {"capture_mode"} /\ "capture_mode" \notin ModeFields \cup PanNames
  BY DEF FieldsOf, Undecoded, ModeFields, TimingNames, PanNames
<1>8. \A f \in ModeFields \cup PanNames : ~Touches(s, f)
  BY <1>1, <1>4, <1>7, TouchesSteps DEF Writes
<1>9. QED
  BY <1>3, <1>6, <1>8

(* A step that shows neither captures, remembers, starts nor colors. *)
LEMMA ShowingKinds ==
  \A x : Showing(x, DisplayNames) => ~Turns(x) /\ ~Starts(x) /\ Turning(x)
BY DEF Showing, Turns, Starts, Turning, DisplayNames, TimingNames, SizeNames, PanNames, OtherNames, ModeNames

LEMMA TurnEarlier ==
  ASSUME NEW s, NEW t, NEW v, TurnList(s, v), ShowList(t, DisplayNames) PROVE TurnList(s \o t, v)
<1> DEFINE u == s \o t
<1>1. /\ IsSeq(u) /\ Len(u) = Len(s) + Len(t) /\ Len(s) \in Nat /\ Len(t) \in Nat
      /\ \A k \in 1..Len(s) : u[k] = s[k]
      /\ \A k \in Len(s) + 1..Len(s) + Len(t) : u[k] = t[k - Len(s)]
      /\ StepsOf(u) = StepsOf(s) \cup StepsOf(t)
  BY Joined, LenOf DEF TurnList, ShowList
<1>2. \A x \in StepsOf(t) : ~Turns(x) /\ Turning(x)
  BY ShowingKinds DEF ShowList
<1> HIDE DEF u
<1>3. PICK k \in 1..Len(s) - 1 : SwitchesAt(s, k, v)
  BY DEF TurnList
<1>4. u[k] = s[k] /\ u[k + 1] = s[k + 1] /\ k \in 1..Len(u) - 1
  BY <1>1
<1>5. ASSUME NEW j \in (1..Len(u)) \ {k, k + 1} PROVE ~Turns(u[j])
  <2>1. CASE j <= Len(s)
    <3>1. j \in (1..Len(s)) \ {k, k + 1}
      BY <1>1, <2>1
    <3>2. QED
      BY <1>1, <1>3, <3>1 DEF SwitchesAt
  <2>2. CASE j > Len(s)
    <3>1. j \in Len(s) + 1..Len(s) + Len(t) /\ j - Len(s) \in 1..Len(t)
      BY <1>1, <2>2
    <3>2. u[j] \in StepsOf(t)
      BY <1>1, <3>1 DEF StepsOf
    <3>3. QED
      BY <1>2, <3>2
  <2>3. QED
    BY <1>1, <2>1, <2>2
<1>6. SwitchesAt(u, k, v)
  BY <1>3, <1>4, <1>5 DEF SwitchesAt
<1>7. QED
  BY <1>1, <1>2, <1>4, <1>6 DEF TurnList, u

LEMMA TurnLater ==
  ASSUME NEW s, NEW t, NEW v, TurnList(t, v), ShowList(s, DisplayNames) PROVE TurnList(s \o t, v)
<1> DEFINE u == s \o t
<1>1. /\ IsSeq(u) /\ Len(u) = Len(s) + Len(t) /\ Len(s) \in Nat /\ Len(t) \in Nat
      /\ \A k \in 1..Len(s) : u[k] = s[k]
      /\ \A k \in Len(s) + 1..Len(s) + Len(t) : u[k] = t[k - Len(s)]
      /\ StepsOf(u) = StepsOf(s) \cup StepsOf(t)
  BY Joined, LenOf DEF TurnList, ShowList
<1>2. \A x \in StepsOf(s) : ~Turns(x) /\ Turning(x)
  BY ShowingKinds DEF ShowList
<1> HIDE DEF u
<1>3. PICK i \in 1..Len(t) - 1 : SwitchesAt(t, i, v)
  BY DEF TurnList
<1> DEFINE k == i + Len(s)
<1>4. k \in 1..Len(u) - 1 /\ u[k] = t[i] /\ u[k + 1] = t[i + 1]
  <2>1. /\ k \in Len(s) + 1..Len(s) + Len(t) /\ k + 1 \in Len(s) + 1..Len(s) + Len(t)
        /\ k - Len(s) = i /\ (k + 1) - Len(s) = i + 1 /\ k \in 1..Len(u) - 1
    BY <1>1
  <2>2. u[k] = t[k - Len(s)] /\ u[k + 1] = t[(k + 1) - Len(s)]
    BY <1>1, <2>1
  <2>3. QED
    BY <2>1, <2>2
<1>5. ASSUME NEW j \in (1..Len(u)) \ {k, k + 1} PROVE ~Turns(u[j])
  <2>1. CASE j <= Len(s)
    <3>1. u[j] \in StepsOf(s)
      BY <1>1, <2>1 DEF StepsOf
    <3>2. QED
      BY <1>2, <3>1
  <2>2. CASE j > Len(s)
    <3>1. j \in Len(s) + 1..Len(s) + Len(t) /\ j - Len(s) \in (1..Len(t)) \ {i, i + 1}
      BY <1>1, <2>2
    <3>2. u[j] = t[j - Len(s)]
      BY <1>1, <3>1
    <3>3. QED
      BY <1>3, <3>1, <3>2 DEF SwitchesAt
  <2>3. QED
    BY <1>1, <2>1, <2>2
<1>6. SwitchesAt(u, k, v)
  BY <1>3, <1>4, <1>5 DEF SwitchesAt
<1>7. QED
  BY <1>1, <1>2, <1>4, <1>6 DEF TurnList, u

LEMMA ModeLeftEarlier ==
  ASSUME NEW s, NEW t, IsSeq(s), IsSeq(t), NEW w, NEW h, NEW color, NEW scale,
         ModeLeft(s, w, h, color, scale), \A f \in ModeFields : ~Touches(t, f)
  PROVE  ModeLeft(s \o t, w, h, color, scale)
<1>1. \A k \in 1..7 : TimingRegisters[k] \in ModeFields
  BY TimingNamed DEF ModeFields
<1>2. {"h_rez", "v_rez", "fetch_w", "colormode", "scale_h", "scale_v"} \subseteq ModeFields
  BY DEF ModeFields
<1>3. \A v : \A f \in ModeFields : Leaves(s, f, v) => Leaves(s \o t, f, v)
  BY LeavesEarlier
<1>4. QED
  BY <1>1, <1>2, <1>3 DEF ModeLeft

LEMMA ModeLeftLater ==
  ASSUME NEW s, NEW t, IsSeq(s), IsSeq(t), NEW w, NEW h, NEW color, NEW scale, ModeLeft(t, w, h, color, scale)
  PROVE  ModeLeft(s \o t, w, h, color, scale)
<1>1. \A f, v : Leaves(t, f, v) => Leaves(s \o t, f, v)
  BY LeavesLater
<1>2. QED
  BY <1>1 DEF ModeLeft

(* Lists that do not set the mode, and lists that do not pan. *)
LEMMA PanNamesOnly ==
  ASSUME NEW s, ShowList(s, PanNames) PROVE \A f \in ModeFields : ~Touches(s, f)
<1>1. \A f \in ModeFields : \A n \in PanNames : f \notin FieldsOf(n)
  BY NamesFields DEF ModeFields, TimingNames, PanNames
<1>2. QED
  BY <1>1, ShowTouches

LEMMA ModeNamesOnly ==
  ASSUME NEW s, ShowList(s, DisplayNames \ PanNames) PROVE \A f \in PanNames : ~Touches(s, f)
<1>1. \A n \in OtherNames : \A f \in PanNames : f \notin FieldsOf(n)
  BY NamesFields
<1>2. \A n \in TimingNames \cup SizeNames \cup ModeNames : \A f \in PanNames : f \notin FieldsOf(n)
  BY NamesFields DEF PanNames, TimingNames, ModeNames
<1>3. \A f \in PanNames : \A n \in DisplayNames \ PanNames : f \notin FieldsOf(n)
  BY <1>1, <1>2 DEF DisplayNames
<1>4. QED
  BY <1>3, ShowTouches

LEMMA CaptureTurns ==
  ASSUME CaptureW = 640, CaptureH = 512
  PROVE  /\ TurnList(CaptureSteps, 1) /\ ModeLeft(CaptureSteps, 640, 512, MNTVA_COLOR_16BIT565, 0)
         /\ Leaves(CaptureSteps, "pan_ptr_hi", 248) /\ Leaves(CaptureSteps, "pan_ptr_lo", 0)
<1>1. IsSeq(CaptureSetup) /\ IsSeq(Set("capture_mode", 1)) /\ IsSeq(Scratch(1)) /\ IsSeq(TurnPair(1))
  BY CaptureShows, PairTurns, Single DEF ShowList, TurnList, Set, Scratch
<1>2. CaptureSteps = CaptureSetup \o TurnPair(1)
  <2>1. CaptureSteps = (CaptureSetup \o Set("capture_mode", 1)) \o Scratch(1)
    BY DEF CaptureSteps, CaptureSetup
  <2>2. QED
    BY <1>1, <2>1, Associative DEF TurnPair
<1>3. TurnList(TurnPair(1), 1) /\ \A f \in ModeFields \cup PanNames : ~Touches(TurnPair(1), f)
  BY PairTurns
<1>4. TurnList(CaptureSetup \o TurnPair(1), 1)
  BY <1>3, CaptureShows, TurnLater
<1>5. ModeLeft(CaptureSetup \o TurnPair(1), 640, 512, MNTVA_COLOR_16BIT565, 0)
  BY <1>1, <1>3, CaptureShows, ModeLeftEarlier
<1>6. /\ Leaves(CaptureSetup \o TurnPair(1), "pan_ptr_hi", 248)
      /\ Leaves(CaptureSetup \o TurnPair(1), "pan_ptr_lo", 0)
  <2>1. ~Touches(TurnPair(1), "pan_ptr_hi") /\ ~Touches(TurnPair(1), "pan_ptr_lo")
    BY <1>3 DEF PanNames
  <2>2. QED
    BY <1>1, <2>1, CaptureShows, LeavesEarlier
<1>7. QED
  BY <1>2, <1>4, <1>5, <1>6

(* Back to a mode: turned down or not, it is the one set last. *)
LEMMA SwitchTurns ==
  ASSUME NEW m, IsMode(m), NEW format
  PROVE  LET s == RtgSteps \o InitMode(m, format)
         IN  /\ TurnList(s, 0)
             /\ \A f \in PanNames : ~Touches(s, f)
             /\ TooSmall(m) => \A f \in ModeFields : ~Touches(s, f)
             /\ ~TooSmall(m) =>
                  ModeLeft(s, ScreenW(m), ScreenH(m), RtgToMnt(format), IF Doubled(m) THEN 1 ELSE 0)
<1> DEFINE t == InitMode(m, format)
           scale == IF Doubled(m) THEN 1 ELSE 0
<1>1. ShowList(t, DisplayNames \ PanNames) /\ (TooSmall(m) => t = <<>>)
  BY InitModeList
<1>2. ShowList(t, DisplayNames) /\ IsSeq(t) /\ IsSeq(RtgSteps)
  <2>1. DisplayNames \ PanNames \subseteq DisplayNames
    OBVIOUS
  <2>2. QED
    BY <1>1, <2>1, ShowWider, ShowSeq, PairTurns DEF TurnPair, RtgSteps, TurnList
<1>3. TurnList(RtgSteps, 0) /\ \A f \in ModeFields \cup PanNames : ~Touches(RtgSteps, f)
  BY PairTurns DEF TurnPair, RtgSteps
<1>4. ~TooSmall(m) => ModeLeft(t, ScreenW(m), ScreenH(m), RtgToMnt(format), scale)
  BY InitModeShows
<1> HIDE DEF t, scale
<1>5. TurnList(RtgSteps \o t, 0)
  BY <1>2, <1>3, TurnEarlier
<1>6. \A f \in PanNames : ~Touches(RtgSteps \o t, f)
  BY <1>1, <1>2, <1>3, ModeNamesOnly, JoinedTouches
<1>7. TooSmall(m) => \A f \in ModeFields : ~Touches(RtgSteps \o t, f)
  <2>1. \A f : ~Touches(<<>>, f)
    BY Empty, TouchesSteps
  <2>2. QED
    BY <1>1, <1>2, <1>3, <2>1, JoinedTouches
<1>8. ~TooSmall(m) => ModeLeft(RtgSteps \o t, ScreenW(m), ScreenH(m), RtgToMnt(format), scale)
  BY <1>2, <1>4, ModeLeftLater
<1>9. QED
  BY <1>5, <1>6, <1>7, <1>8 DEF t, scale

(* The two halves of the offset of a page lose no bit. *)
LEMMA PageRest == ASSUME NEW offset \in Nat, offset % 1024 = 0 PROVE (offset % 65536) % 1024 = 0
BY SMT

IsByte(v) == v \in Nat /\ v < 256
IsWord(v) == v \in Nat /\ v < 65536
LEMMA LowRange == ASSUME NEW offset \in Nat PROVE IsWord(LowWord(offset))
BY SMT DEF LowWord, IsWord

LEMMA PanValue ==
  \A v : /\ v % 256 = v => ValueOf("pan_ptr_hi", v, "pan_ptr_hi") = v
         /\ v % 65536 = v => ValueOf("pan_ptr_lo", v, "pan_ptr_lo") = v
BY Powers DEF ValueOf, Bits

LEMMA PanHigh == ASSUME NEW v, IsByte(v) PROVE ValueOf("pan_ptr_hi", v, "pan_ptr_hi") = v
<1>1. v % 256 = v
  BY SMT DEF IsByte
<1>2. QED
  BY <1>1, PanValue, SMT

LEMMA PanLow == ASSUME NEW v, IsWord(v) PROVE ValueOf("pan_ptr_lo", v, "pan_ptr_lo") = v
<1>1. v % 65536 = v
  BY SMT DEF IsWord
<1>2. QED
  BY <1>1, PanValue, SMT

LEMMA PanRange ==
  ASSUME NEW offset \in Nat, HighWord(offset) \in Nat, HighWord(offset) < 256, offset % 1024 = 0
  PROVE  /\ LowWord(offset) - (LowWord(offset) % 1024) = LowWord(offset)
         /\ HighWord(offset) \in Int /\ LowWord(offset) \in Int
         /\ ValueOf("pan_ptr_hi", HighWord(offset), "pan_ptr_hi") = HighWord(offset)
         /\ ValueOf("pan_ptr_lo", LowWord(offset), "pan_ptr_lo") = LowWord(offset)
<1> DEFINE high == HighWord(offset)
           low == LowWord(offset)
<1>1. IsByte(high) /\ IsWord(low)
  BY LowRange DEF IsByte
<1>2. low % 1024 = 0
  <2>1. low = offset % 65536
    BY SMT DEF LowWord
  <2>2. QED
    BY <2>1, PageRest, SMT
<1> HIDE DEF high, low
<1>3. low - (low % 1024) = low /\ high \in Int /\ low \in Int
  BY <1>1, <1>2, SMT DEF IsByte, IsWord
<1>4. ValueOf("pan_ptr_hi", high, "pan_ptr_hi") = high
  BY <1>1, PanHigh
<1>5. ValueOf("pan_ptr_lo", low, "pan_ptr_lo") = low
  BY <1>1, PanLow
<1>6. QED
  BY <1>3, <1>4, <1>5 DEF high, low

(* A page of 1024 words within reach is panned to exactly. *)
LEMMA PanTurns ==
  ASSUME NEW address, NEW offset \in Nat, HighWord(offset) \in Nat, HighWord(offset) < 256,
         offset % 1024 = 0, offset = (address - board.memory) \div 2
  PROVE  /\ TurnList(Pan(address), 0) /\ \A f \in ModeFields : ~Touches(Pan(address), f)
         /\ Leaves(Pan(address), "pan_ptr_hi", HighWord(offset))
         /\ Leaves(Pan(address), "pan_ptr_lo", LowWord(offset))
<1> DEFINE high == HighWord(offset)
           low == LowWord(offset)
           t == Set("pan_ptr_hi", high) \o Set("pan_ptr_lo", low)
<1>1. /\ low - (low % 1024) = low /\ high \in Int /\ low \in Int
      /\ ValueOf("pan_ptr_hi", high, "pan_ptr_hi") = high /\ ValueOf("pan_ptr_lo", low, "pan_ptr_lo") = low
  BY PanRange
<1>2. PanTo(address) = t
  <2>1. PanTo(address) = Set("pan_ptr_hi", high) \o Set("pan_ptr_lo", low - (low % 1024))
    BY DEF PanTo
  <2> HIDE DEF high, low
  <2>2. QED
    BY <1>1, <2>1
<1>3. offset \in Nat
  OBVIOUS
<1> HIDE DEF high, low
<1>4. ShowList(Set("pan_ptr_hi", high), PanNames) /\ ShowList(Set("pan_ptr_lo", low), PanNames)
  <2>1. "pan_ptr_hi" \in PanNames /\ "pan_ptr_lo" \in PanNames
    BY DEF PanNames
  <2>2. QED
    BY <1>1, <2>1, ShowSet
<1>5. Leaves(Set("pan_ptr_hi", high), "pan_ptr_hi", high) /\ Leaves(Set("pan_ptr_lo", low), "pan_ptr_lo", low)
  <2>1. "pan_ptr_hi" \in FieldsOf("pan_ptr_hi") /\ "pan_ptr_lo" \in FieldsOf("pan_ptr_lo")
    BY NamesFields DEF PanNames
  <2>2. QED
    BY <1>1, <2>1, SetLeaves
<1>6. ~Touches(Set("pan_ptr_lo", low), "pan_ptr_hi")
  <2>1. ShowList(Set("pan_ptr_lo", low), {"pan_ptr_lo"})
    BY <1>1, ShowSet
  <2>2. \A n \in {"pan_ptr_lo"} : "pan_ptr_hi" \notin FieldsOf(n)
    BY NamesFields DEF PanNames
  <2>3. QED
    BY <2>1, <2>2, ShowTouches
<1>7. IsSeq(Set("pan_ptr_hi", high)) /\ IsSeq(Set("pan_ptr_lo", low))
  BY <1>4, ShowSeq
<1>8. Leaves(t, "pan_ptr_hi", high) /\ Leaves(t, "pan_ptr_lo", low) /\ ShowList(t, PanNames)
  BY <1>4, <1>5, <1>6, <1>7, LeavesEarlier, LeavesLater, ShowJoin
<1> HIDE DEF t
<1>9. /\ TurnList(RtgSteps, 0) /\ IsSeq(RtgSteps) /\ IsSeq(t)
      /\ \A f \in ModeFields \cup PanNames : ~Touches(RtgSteps, f)
  BY <1>8, ShowSeq, PairTurns DEF TurnPair, RtgSteps, TurnList
<1>10. TurnList(RtgSteps \o t, 0)
  <2>1. PanNames \subseteq DisplayNames
    BY DEF DisplayNames
  <2>2. QED
    BY <1>8, <1>9, <2>1, ShowWider, TurnEarlier
<1>11. \A f \in ModeFields : ~Touches(RtgSteps \o t, f)
  BY <1>8, <1>9, PanNamesOnly, JoinedTouches
<1>12. Leaves(RtgSteps \o t, "pan_ptr_hi", high) /\ Leaves(RtgSteps \o t, "pan_ptr_lo", low)
  BY <1>8, <1>9, LeavesLater
<1>13. QED
  BY <1>2, <1>10, <1>11, <1>12 DEF Pan, high, low
-----------------------------------------------------------------------------
(* What the steps left will have set.                                      *)
PictureIn(s, r, w, h, color, scale) ==
  /\ DueIn(s, r, "colormode", color)
  /\ DueIn(s, r, "h_rez", w) /\ DueIn(s, r, "v_rez", h) /\ DueIn(s, r, "fetch_w", WordsPerLine(w, color))
  /\ DueIn(s, r, "scale_h", scale) /\ DueIn(s, r, "scale_v", scale)
TimingIn(s, r, line) == \A k \in 1..7 : DueIn(s, r, TimingRegisters[k], line[k])
PanIn(s, r, high, low) == DueIn(s, r, "pan_ptr_hi", high) /\ DueIn(s, r, "pan_ptr_lo", low)

(* Step x takes the registers of the picture from r to q. *)
Advances(r, x, q) ==
  \A f \in ModeFields \cup PanNames : q[f] = IF Writes(x, f) THEN ValueOf(x.name, x.val, f) ELSE r[f]

(* What is due stays due when the first step is taken. *)
LEMMA DueTaken ==
  ASSUME NEW s, IsSeq(s), s # <<>>, NEW r, NEW q, Advances(r, Head(s), q),
         NEW f \in ModeFields \cup PanNames, NEW v, DueIn(s, r, f, v)
  PROVE  DueIn(Tail(s), q, f, v)
<1> DEFINE t == Tail(s)
<1>1. /\ Len(s) \in Nat \ {0} /\ Len(t) = Len(s) - 1 /\ Head(s) = s[1]
      /\ \A k \in 1..Len(s) - 1 : t[k] = s[k + 1]
      /\ StepsOf(s) = {Head(s)} \cup StepsOf(t)
  BY Headed
<1> HIDE DEF t
<1>2. Touches(s, f) <=> Writes(Head(s), f) \/ Touches(t, f)
  BY <1>1, TouchesSteps
<1>3. q[f] = IF Writes(Head(s), f) THEN ValueOf(Head(s).name, Head(s).val, f) ELSE r[f]
  BY DEF Advances
<1>4. CASE r[f] = v /\ ~Touches(s, f)
  BY <1>2, <1>3, <1>4 DEF DueIn, t
<1>5. CASE Leaves(s, f, v)
  <2>1. PICK k \in 1..Len(s) : /\ Writes(s[k], f) /\ ValueOf(s[k].name, s[k].val, f) = v
                               /\ \A j \in k + 1..Len(s) : ~Writes(s[j], f)
    BY <1>5 DEF Leaves
  <2>2. CASE k = 1
    <3>1. ~Touches(t, f)
      <4> SUFFICES ASSUME NEW j \in 1..Len(t) PROVE ~Writes(t[j], f)
        BY DEF Touches
      <4>1. j + 1 \in k + 1..Len(s) /\ t[j] = s[j + 1]
        BY <1>1, <2>2
      <4>2. QED
        BY <2>1, <4>1
    <3>2. QED
      BY <1>1, <1>3, <2>1, <2>2, <3>1 DEF DueIn, t
  <2>3. CASE k # 1
    <3> DEFINE i == k - 1
    <3>1. i \in 1..Len(t) /\ t[i] = s[k]
      BY <1>1, <2>3
    <3>2. ASSUME NEW j \in i + 1..Len(t) PROVE ~Writes(t[j], f)
      <4>1. j + 1 \in k + 1..Len(s) /\ t[j] = s[j + 1]
        BY <1>1, <2>3
      <4>2. QED
        BY <2>1, <4>1
    <3>3. Leaves(t, f, v)
      BY <2>1, <3>1, <3>2 DEF Leaves
    <3>4. QED
      BY <3>3 DEF DueIn, t
  <2>4. QED
    BY <2>2, <2>3
<1>6. QED
  BY <1>4, <1>5 DEF DueIn

LEMMA Fields ==
  /\ {"h_rez", "v_rez", "fetch_w", "colormode", "scale_h", "scale_v"} \subseteq ModeFields
  /\ {"pan_ptr_hi", "pan_ptr_lo"} = PanNames
  /\ \A k \in 1..7 : TimingRegisters[k] \in ModeFields
BY TimingNamed DEF ModeFields, PanNames

LEMMA PictureTaken ==
  ASSUME NEW s, IsSeq(s), s # <<>>, NEW r, NEW q, Advances(r, Head(s), q)
  PROVE  /\ \A w, h, color, scale : PictureIn(s, r, w, h, color, scale) => PictureIn(Tail(s), q, w, h, color, scale)
         /\ \A line : TimingIn(s, r, line) => TimingIn(Tail(s), q, line)
         /\ \A high, low : PanIn(s, r, high, low) => PanIn(Tail(s), q, high, low)
<1>1. \A v : \A f \in ModeFields \cup PanNames : DueIn(s, r, f, v) => DueIn(Tail(s), q, f, v)
  BY DueTaken
<1>2. \A w, h, color, scale : PictureIn(s, r, w, h, color, scale) => PictureIn(Tail(s), q, w, h, color, scale)
  BY <1>1, Fields DEF PictureIn
<1>3. \A line : TimingIn(s, r, line) => TimingIn(Tail(s), q, line)
  BY <1>1, Fields DEF TimingIn
<1>4. \A high, low : PanIn(s, r, high, low) => PanIn(Tail(s), q, high, low)
  BY <1>1, Fields DEF PanIn
<1>5. QED
  BY <1>2, <1>3, <1>4

(* Nothing left to do: what is due is there. *)
LEMMA DueNow == \A r, f, v : DueIn(<<>>, r, f, v) <=> r[f] = v
<1>1. \A f : ~Touches(<<>>, f) /\ \A v : ~Leaves(<<>>, f, v)
  BY DEF Touches, Leaves
<1>2. QED
  BY <1>1 DEF DueIn

(* A call begins: what it sets is due, what it leaves alone stays due. *)
LEMMA DueBegun ==
  ASSUME NEW s, NEW r, NEW f PROVE
    \A v : Leaves(s, f, v) \/ (DueIn(<<>>, r, f, v) /\ ~Touches(s, f)) => DueIn(s, r, f, v)
BY DueNow DEF DueIn

LEMMA PictureBegun ==
  ASSUME NEW s, NEW r, NEW w, NEW h, NEW color, NEW scale, ModeLeft(s, w, h, color, scale)
  PROVE  PictureIn(s, r, w, h, color, scale) /\ TimingIn(s, r, ModeLine(w, h))
BY DEF ModeLeft, PictureIn, TimingIn, DueIn

LEMMA PictureKept ==
  ASSUME NEW s, NEW r, \A f \in ModeFields : ~Touches(s, f)
  PROVE  /\ \A w, h, color, scale : PictureIn(<<>>, r, w, h, color, scale) => PictureIn(s, r, w, h, color, scale)
         /\ \A line : TimingIn(<<>>, r, line) => TimingIn(s, r, line)
<1>1. \A v : \A f \in ModeFields : DueIn(<<>>, r, f, v) => DueIn(s, r, f, v)
  BY DueBegun
<1>2. QED
  BY <1>1, Fields DEF PictureIn, TimingIn

LEMMA PanKept ==
  ASSUME NEW s, NEW r, \A f \in PanNames : ~Touches(s, f)
  PROVE  \A high, low : PanIn(<<>>, r, high, low) => PanIn(s, r, high, low)
<1>1. \A v : \A f \in PanNames : DueIn(<<>>, r, f, v) => DueIn(s, r, f, v)
  BY DueBegun
<1>2. QED
  BY <1>1, Fields DEF PanIn
-----------------------------------------------------------------------------
(* What a write does to the registers.                                     *)
LEMMA WrittenField ==
  ASSUME NEW r, NEW name, NEW v
  PROVE  /\ DOMAIN Written(r, name, v) = DOMAIN r
         /\ \A f \in DOMAIN r :
              Written(r, name, v)[f] = IF f \in FieldsOf(name) THEN ValueOf(name, v, f) ELSE r[f]
<1> DEFINE q == Written(r, name, v)
<1>1. CASE name \in Undecoded
  <2>1. q = r
    BY <1>1 DEF Written, Undecoded
  <2>2. FieldsOf(name) = {}
    BY <1>1 DEF FieldsOf, Undecoded
  <2>3. QED
    BY <2>1, <2>2
<1>2. CASE name = "line_w"
  <2>1. q = [r EXCEPT !.fetch_w = v % 4096]
    BY <1>2 DEF Written, Undecoded
  <2>2. FieldsOf(name) = {"fetch_w"} /\ \A f : ValueOf(name, v, f) = v % 4096
    BY <1>2 DEF FieldsOf, ValueOf, Undecoded
  <2> HIDE DEF q
  <2>3. QED
    BY <2>1, <2>2 DEF q
<1>3. CASE name = "screen_w"
  <2>1. q = [r EXCEPT !.fetch_w = v % 4096, !.h_rez = v % 4096]
    BY <1>3 DEF Written, Undecoded
  <2>2. FieldsOf(name) = {"fetch_w", "h_rez"} /\ \A f : ValueOf(name, v, f) = v % 4096
    BY <1>3 DEF FieldsOf, ValueOf, Undecoded
  <2> HIDE DEF q
  <2>3. DOMAIN q = DOMAIN r /\ \A f \in DOMAIN r : q[f] = IF f \in {"fetch_w", "h_rez"} THEN v % 4096 ELSE r[f]
    <3> DEFINE n == v % 4096
    <3>1. q = [r EXCEPT !.fetch_w = n, !.h_rez = n]
      BY <2>1
    <3> HIDE DEF n
    <3>2. DOMAIN q = DOMAIN r /\ \A f \in DOMAIN r : q[f] = IF f \in {"fetch_w", "h_rez"} THEN n ELSE r[f]
      BY <3>1
    <3>3. QED
      BY <3>2 DEF n
  <2>4. QED
    BY <2>2, <2>3 DEF q
<1>4. CASE name = "screen_h"
  <2>1. q = [r EXCEPT !.v_rez = v % 4096]
    BY <1>4 DEF Written, Undecoded
  <2>2. FieldsOf(name) = {"v_rez"} /\ \A f : ValueOf(name, v, f) = v % 4096
    BY <1>4 DEF FieldsOf, ValueOf, Undecoded
  <2> HIDE DEF q
  <2>3. QED
    BY <2>1, <2>2 DEF q
<1>5. CASE name = "scalemode"
  <2>1. q = [r EXCEPT !.scale_h = v % 4, !.scale_v = (v \div 4) % 4]
    BY <1>5 DEF Written, Undecoded
  <2>2. /\ FieldsOf(name) = {"scale_h", "scale_v"}
        /\ \A f : ValueOf(name, v, f) = IF f = "scale_h" THEN v % 4 ELSE (v \div 4) % 4
    BY <1>5 DEF FieldsOf, ValueOf, Undecoded
  <2> HIDE DEF q
  <2>3. QED
    BY <2>1, <2>2 DEF q
<1>6. CASE name \notin Undecoded \cup {"line_w", "screen_w", "screen_h", "scalemode"}
  <2>1. q = [r EXCEPT ![name] = v % 2^Bits(name)]
    BY <1>6 DEF Written
  <2>2. FieldsOf(name) = {name} /\ \A f : ValueOf(name, v, f) = v % 2^Bits(name)
    BY <1>6 DEF FieldsOf, ValueOf
  <2> HIDE DEF q
  <2>3. QED
    BY <2>1, <2>2 DEF q
<1>7. QED
  BY <1>1, <1>2, <1>3, <1>4, <1>5, <1>6

(* Registers of the picture keep the bits the gateware gives them. *)
KeptNames == TimingNames \cup {"fetch_w", "h_rez", "v_rez", "colormode", "capture_mode"}
Values(f) == IF f \in {"fetch_w", "h_rez", "v_rez"} THEN 0..4095 ELSE 0..2^Bits(f) - 1
KeepsBits(r) ==
  /\ DOMAIN r = DOMAIN PowerUp
  /\ \A f \in KeptNames : r[f] \in Values(f)
  /\ r.capture_default_screen_w = 640 /\ r.capture_default_screen_h = 512

LEMMA WrittenRange ==
  ASSUME NEW name \in WrittenNames, NEW v \in Int, NEW f \in KeptNames, f \in FieldsOf(name)
  PROVE  ValueOf(name, v, f) \in Values(f) /\ (f = "capture_mode" => name = f /\ ValueOf(name, v, f) = v % 2)
<1>1. /\ f \notin {"scale_h", "scale_v", "screen_w", "screen_h", "line_w", "scalemode"}
      /\ name \notin {"fetch_w", "h_rez", "v_rez"}
  <2>1. f \notin {"scale_h", "scale_v", "screen_w", "screen_h", "line_w", "scalemode"}
    BY DEF KeptNames, TimingNames
  <2>2. name \notin {"fetch_w", "h_rez", "v_rez"}
    BY DEF WrittenNames, DisplayNames, BlitterNames, TimingNames, SizeNames, PanNames, OtherNames, ModeNames
  <2>3. QED
    BY <2>1, <2>2
<1>2. \/ f = name /\ name \notin {"line_w", "screen_w", "screen_h", "scalemode"}
      \/ f \in {"fetch_w", "h_rez", "v_rez"} /\ name \in {"line_w", "screen_w", "screen_h"}
  BY <1>1 DEF FieldsOf
<1>3. CASE f = name /\ name \notin {"line_w", "screen_w", "screen_h", "scalemode"}
  <2>1. ValueOf(name, v, f) = v % 2^Bits(f)
    BY <1>3 DEF ValueOf
  <2>2. f \in TimingNames \cup {"colormode", "capture_mode"}
    BY <1>1, <1>3 DEF KeptNames
  <2>3. 2^Bits(f) \in {2, 4, 8, 4096} /\ (f = "capture_mode" => 2^Bits(f) = 2)
    BY <2>2, Powers DEF TimingNames, Bits
  <2>4. Values(f) = 0..2^Bits(f) - 1
    BY <1>1, <1>3 DEF Values
  <2> DEFINE n == 2^Bits(f)
  <2>5. n \in {2, 4, 8, 4096}
    BY <2>3
  <2> HIDE DEF n
  <2>6. v % n \in 0..n - 1
    BY <2>5
  <2>7. QED
    BY <1>3, <2>1, <2>3, <2>4, <2>6 DEF n
<1>4. CASE f \in {"fetch_w", "h_rez", "v_rez"} /\ name \in {"line_w", "screen_w", "screen_h"}
  <2>1. ValueOf(name, v, f) = v % 4096 /\ Values(f) = 0..4095
    BY <1>4 DEF ValueOf, Values
  <2>2. v % 4096 \in 0..4095
    OBVIOUS
  <2>3. QED
    BY <1>4, <2>1, <2>2
<1>5. QED
  BY <1>2, <1>3, <1>4

LEMMA WrittenKeeps ==
  ASSUME NEW r, KeepsBits(r), NEW name \in WrittenNames, NEW v \in Int
  PROVE  LET q == Written(r, name, v)
         IN  /\ KeepsBits(q)
             /\ \A f \in ModeFields \cup PanNames \cup {"capture_mode"} :
                  q[f] = IF f \in FieldsOf(name) THEN ValueOf(name, v, f) ELSE r[f]
             /\ q.capture_mode = IF name = "capture_mode" THEN v % 2 ELSE r.capture_mode
<1> DEFINE q == Written(r, name, v)
           defaults == {"capture_default_screen_w", "capture_default_screen_h"}
<1>1. /\ DOMAIN q = DOMAIN r
      /\ \A f \in DOMAIN r : q[f] = IF f \in FieldsOf(name) THEN ValueOf(name, v, f) ELSE r[f]
  BY WrittenField
<1>2. /\ KeptNames \cup ModeFields \cup PanNames \cup defaults \subseteq DOMAIN r
      /\ "capture_mode" \in KeptNames
  BY DEF KeepsBits, PowerUp, KeptNames, ModeFields, PanNames, TimingNames
<1>3. \A f \in KeptNames : f \in FieldsOf(name) =>
        ValueOf(name, v, f) \in Values(f) /\ (f = "capture_mode" => name = f /\ ValueOf(name, v, f) = v % 2)
  BY WrittenRange
<1>4. defaults \cap FieldsOf(name) = {}
  <2>1. defaults \cap WrittenNames = {}
    BY DEF WrittenNames, DisplayNames, BlitterNames, TimingNames, SizeNames, PanNames, OtherNames, ModeNames
  <2>2. QED
    BY <2>1 DEF FieldsOf
<1>5. "capture_mode" \in FieldsOf(name) <=> name = "capture_mode"
  BY <1>2, <1>3 DEF FieldsOf, Undecoded
<1> HIDE DEF q, defaults
<1>6. \A f \in KeptNames : q[f] \in Values(f)
  BY <1>1, <1>2, <1>3 DEF KeepsBits
<1>7. q.capture_default_screen_w = 640 /\ q.capture_default_screen_h = 512
  BY <1>1, <1>2, <1>4 DEF KeepsBits, defaults
<1>8. KeepsBits(q)
  BY <1>1, <1>6, <1>7 DEF KeepsBits
<1>9. QED
  BY <1>1, <1>2, <1>3, <1>5, <1>8 DEF q

-----------------------------------------------------------------------------
(* What all steps of a call have in common, by its kind.                   *)
Colors(x) == x.do = "color"
PictureFields == ModeFields \cup PanNames
Plain(s) ==  \* no step of s sets the picture or a color
  (\A f \in PictureFields : ~Touches(s, f)) /\ \A x \in StepsOf(s) : ~Colors(x)

LEMMA DrawKinds ==
  ASSUME NEW s, DrawList(s)
  PROVE  IsSeq(s) /\ Guarded(s) /\ Quiet(s) /\ Plain(s) /\ \A x \in StepsOf(s) : WellFormed(x)
<1>1. \A x \in StepsOf(s) : Draws(x)
  BY DEF DrawList
<1>2. "blitter_enable" \notin BlitterNames /\ "capture_mode" \notin BlitterNames
  BY DEF BlitterNames
<1>3. ASSUME NEW x, Draws(x) PROVE ~Turns(x) /\ WellFormed(x) /\ ~Colors(x)
  BY <1>2, <1>3 DEF Draws, DrawsPlainly, Waits, Starts, Turns, WellFormed, WrittenNames, Colors
<1>4. \A n \in BlitterNames \cup {"blitter_enable"} : FieldsOf(n) = {n} /\ n \notin PictureFields
  <2>1. \A n \in BlitterNames \cup {"blitter_enable"} :
          n \notin Undecoded \cup {"line_w", "screen_w", "screen_h", "scalemode"}
    BY DEF BlitterNames, Undecoded
  <2>2. \A n \in BlitterNames \cup {"blitter_enable"} : n \notin PictureFields
    BY DEF BlitterNames, PictureFields, ModeFields, TimingNames, PanNames
  <2>3. QED
    BY <2>1, <2>2 DEF FieldsOf
<1>5. ASSUME NEW x, Draws(x), NEW f \in PictureFields PROVE ~Writes(x, f)
  BY <1>4, <1>5 DEF Draws, DrawsPlainly, Waits, Starts, Writes
<1>6. \A f \in PictureFields : ~Touches(s, f)
  BY <1>1, <1>5, TouchesSteps
<1>7. QED
  BY <1>1, <1>3, <1>6 DEF DrawList, Quiet, Plain

(* A list without starts is guarded. *)
LEMMA Startless == ASSUME NEW s, \A x \in StepsOf(s) : ~Starts(x) PROVE Guarded(s)
BY DEF Guarded, StepsOf

LEMMA TurningKinds ==
  \A x : Turning(x) => ~Starts(x) /\ ~Colors(x) /\ WellFormed(x)
<1> SUFFICES ASSUME NEW x, Turning(x) PROVE ~Starts(x) /\ ~Colors(x) /\ WellFormed(x)
  OBVIOUS
<1>1. "blitter_enable" \notin DisplayNames \cup {"capture_mode"}
  BY DEF DisplayNames, TimingNames, SizeNames, PanNames, OtherNames, ModeNames
<1>2. QED
  BY <1>1 DEF Turning, Showing, Starts, Colors, WellFormed, WrittenNames

LEMMA ShowKinds ==
  ASSUME NEW s, ShowList(s, DisplayNames)
  PROVE  IsSeq(s) /\ Quiet(s) /\ \A x \in StepsOf(s) : ~Starts(x) /\ ~Colors(x) /\ WellFormed(x)
BY ShowingKinds, TurningKinds DEF ShowList, Quiet

LEMMA TurnKinds ==
  ASSUME NEW s, NEW v, TurnList(s, v)
  PROVE  IsSeq(s) /\ \A x \in StepsOf(s) : ~Starts(x) /\ ~Colors(x) /\ WellFormed(x)
BY TurningKinds DEF TurnList

(* The waits, and the drawing calls while video is captured. *)
LEMMA AwaitKinds ==
  \A what : /\ IsSeq(Await(what)) /\ Quiet(Await(what)) /\ Plain(Await(what))
            /\ \A x \in StepsOf(Await(what)) : ~Starts(x) /\ WellFormed(x)
<1> SUFFICES ASSUME NEW what
             PROVE  /\ IsSeq(Await(what)) /\ Quiet(Await(what)) /\ Plain(Await(what))
                    /\ \A x \in StepsOf(Await(what)) : ~Starts(x) /\ WellFormed(x)
  OBVIOUS
<1> DEFINE y == [do |-> "await", for |-> what]
           s == <<y>>
<1>1. Await(what) = s /\ y.do = "await"
  BY DEF Await
<1> HIDE DEF y
<1>2. IsSeq(s) /\ StepsOf(s) = {y}
  BY Single
<1> HIDE DEF s
<1>3. ~Starts(y) /\ WellFormed(y) /\ ~Turns(y) /\ ~Colors(y) /\ \A f : ~Writes(y, f)
  BY <1>1 DEF Starts, WellFormed, Turns, Colors, Writes
<1>4. QED
  BY <1>1, <1>2, <1>3, TouchesSteps DEF Quiet, Plain

LEMMA NoneKinds ==
  IsSeq(<<>>) /\ Quiet(<<>>) /\ Plain(<<>>) /\ Guarded(<<>>) /\ StepsOf(<<>>) = {}
BY Empty, TouchesSteps DEF Quiet, Plain, Guarded

LEMMA CapturedDraws ==
  ASSUME board.scratch = 1
  PROVE  /\ \A r, x, y, w, h, color : RectFill(r, x, y, w, h, color) = Await("blitter")
         /\ \A r, x, y, dx, dy, w, h : RectCopy(r, x, y, dx, dy, w, h) = Await("blitter")
<1>1. Await("blitter") \o <<>> = Await("blitter")
  <2>1. IsSeq(Await("blitter"))
    BY AwaitKinds
  <2> DEFINE s == Await("blitter")
  <2>2. s \in Seq(StepsOf(s))
    BY <2>1 DEF IsSeq
  <2> HIDE DEF s
  <2>3. s \o <<>> = s
    BY <2>2
  <2>4. QED
    BY <2>3 DEF s
<1>2. ASSUME NEW r, NEW x, NEW y, NEW w, NEW h, NEW color
      PROVE  RectFill(r, x, y, w, h, color) = Await("blitter")
  <2>1. RectFill(r, x, y, w, h, color) = Await("blitter") \o <<>>
    BY DEF RectFill, If
  <2>2. QED
    BY <1>1, <2>1
<1>3. ASSUME NEW r, NEW x, NEW y, NEW dx, NEW dy, NEW w, NEW h
      PROVE  RectCopy(r, x, y, dx, dy, w, h) = Await("blitter")
  <2>1. RectCopy(r, x, y, dx, dy, w, h) = Await("blitter") \o <<>>
    BY DEF RectCopy, If
  <2>2. QED
    BY <1>1, <2>1
<1>4. QED
  BY <1>2, <1>3
-----------------------------------------------------------------------------
(* set_palette: every channel of every entry asked for, once, and no other. *)
LEMMA ColorAddress ==
  ASSUME NEW i \in 0..255, NEW channel \in 0..2
  PROVE  /\ Table(512 * (channel + 1) + 2 * i) = channel + 1
         /\ ((512 * (channel + 1) + 2 * i) \div 2) % 256 = i
<1>1. CASE channel = 0
  BY <1>1 DEF Table
<1>2. CASE channel = 1
  BY <1>2 DEF Table
<1>3. CASE channel = 2
  BY <1>3 DEF Table
<1>4. QED
  BY <1>1, <1>2, <1>3

LEMMA ColorByteOf ==
  ASSUME NEW i \in 0..255, NEW channel \in 0..2, NEW tag
  PROVE  PaletteByte(tag, 3 * i + channel) = <<tag, i, channel + 1>>
<1>1. (3 * i + channel) \div 3 = i /\ (3 * i + channel) % 3 = channel
  OBVIOUS
<1>2. QED
  BY <1>1 DEF PaletteByte

LEMMA ColorList ==
  ASSUME NEW idx \in Nat, NEW len \in Nat, idx + len <= 256, NEW tag
  PROVE  LET s == SetPalette(idx, len, tag)
         IN  /\ IsSeq(s) /\ \A x \in StepsOf(s) : Colors(x)
             /\ \A x \in StepsOf(s) : \A t, e : Hits(x, t, e) => x.val = <<tag, e, t>> /\ e \in idx..idx + len - 1
             /\ \A t \in 1..3 : \A e \in idx..idx + len - 1 : \E x \in StepsOf(s) : Hits(x, t, e)
<1> DEFINE s == SetPalette(idx, len, tag)
           i(n) == idx + (n - 1) \div 3
           channel(n) == (n - 1) % 3
           count == 3 * len
<1>1. /\ s = [n \in 1..count |-> s[n]] /\ count \in Int
      /\ \A n \in 1..count : /\ s[n].do = "color" /\ s[n].address = 512 * (channel(n) + 1) + 2 * i(n)
                             /\ s[n].val = PaletteByte(tag, 3 * i(n) + channel(n))
  BY DEF SetPalette, Color
<1>2. \A n \in 1..count : i(n) \in idx..idx + len - 1 /\ i(n) \in 0..255 /\ channel(n) \in 0..2
  OBVIOUS
<1>3. \A t \in 1..3 : \A e \in idx..idx + len - 1 :
        \E n \in 1..count : i(n) = e /\ channel(n) + 1 = t
  <2> SUFFICES ASSUME NEW t \in 1..3, NEW e \in idx..idx + len - 1
               PROVE  \E n \in 1..count : i(n) = e /\ channel(n) + 1 = t
    OBVIOUS
  <2> DEFINE n == 3 * (e - idx) + t
  <2>1. n \in 1..count /\ (n - 1) \div 3 = e - idx /\ (n - 1) % 3 = t - 1
    OBVIOUS
  <2>2. n \in 1..count /\ i(n) = e /\ channel(n) + 1 = t
    BY <2>1
  <2> HIDE DEF n, i, channel, count
  <2>3. QED
    BY <2>2
<1> HIDE DEF s, i, channel, count
<1>4. IsSeq(s) /\ (\A n \in 1..count : s[n] \in StepsOf(s)) /\ \A x \in StepsOf(s) : \E n \in 1..count : x = s[n]
  <2>1. s = [n \in 1..count |-> s[n]] /\ count \in Int
    BY <1>1
  <2>2. QED
    BY <2>1, Listed
<1>5. ASSUME NEW n \in 1..count
      PROVE  /\ Colors(s[n]) /\ s[n].val = <<tag, i(n), channel(n) + 1>>
             /\ \A t, e : Hits(s[n], t, e) <=> t = channel(n) + 1 /\ e = i(n)
  <2> DEFINE a == i(n)
             b == channel(n)
  <2>1. a \in 0..255 /\ b \in 0..2
    BY <1>2
  <2>2. s[n].do = "color" /\ s[n].address = 512 * (b + 1) + 2 * a /\ s[n].val = PaletteByte(tag, 3 * a + b)
    BY <1>1
  <2> HIDE DEF a, b
  <2>3. Table(512 * (b + 1) + 2 * a) = b + 1 /\ ((512 * (b + 1) + 2 * a) \div 2) % 256 = a
    BY <2>1, ColorAddress
  <2>4. PaletteByte(tag, 3 * a + b) = <<tag, a, b + 1>>
    BY <2>1, ColorByteOf
  <2>5. s[n].val = <<tag, a, b + 1>> /\ Colors(s[n])
    BY <2>2, <2>4 DEF Colors
  <2>6. \A t, e : Hits(s[n], t, e) <=> t = b + 1 /\ e = a
    BY <2>2, <2>3 DEF Hits
  <2>7. QED
    BY <2>5, <2>6 DEF a, b
<1>6. \A x \in StepsOf(s) : Colors(x)
  BY <1>4, <1>5
<1>7. ASSUME NEW x \in StepsOf(s), NEW t, NEW e, Hits(x, t, e)
      PROVE  x.val = <<tag, e, t>> /\ e \in idx..idx + len - 1
  <2>1. PICK n \in 1..count : x = s[n]
    BY <1>4
  <2>2. x.val = <<tag, i(n), channel(n) + 1>> /\ t = channel(n) + 1 /\ e = i(n)
    BY <1>5, <1>7, <2>1
  <2>3. QED
    BY <1>2, <2>2
<1>8. ASSUME NEW t \in 1..3, NEW e \in idx..idx + len - 1 PROVE \E x \in StepsOf(s) : Hits(x, t, e)
  <2>1. PICK n \in 1..count : i(n) = e /\ channel(n) + 1 = t
    BY <1>3
  <2>2. Hits(s[n], t, e)
    BY <1>5, <2>1
  <2>3. QED
    BY <1>4, <2>2
<1>9. QED
  BY <1>4, <1>6, <1>7, <1>8 DEF s

LEMMA ColorKinds ==
  ASSUME NEW s, IsSeq(s), \A x \in StepsOf(s) : Colors(x)
  PROVE  Quiet(s) /\ (\A f : ~Touches(s, f)) /\ \A x \in StepsOf(s) : ~Starts(x) /\ WellFormed(x)
<1>1. \A x : Colors(x) => ~Turns(x) /\ ~Starts(x) /\ WellFormed(x) /\ \A f : ~Writes(x, f)
  BY DEF Colors, Turns, Starts, WellFormed, Writes
<1>2. QED
  BY <1>1, TouchesSteps DEF Quiet
-----------------------------------------------------------------------------
(* map_address and pan fit each other.                                     *)
IsBase(m) == m \in Nat /\ m % 65536 = 0
Page(a) == a - (a % 4096)
PagesAfter(m, a) == (a \div 4096) - 16 * (m \div 65536)
LEMMA PageDown ==
  ASSUME NEW m, IsBase(m), NEW a \in Nat, a >= m
  PROVE  PagesAfter(m, a) \in Nat /\ Page(a) = m + 4096 * PagesAfter(m, a) /\ Page(a) <= a /\ m \in Nat
<1> DEFINE k == m \div 65536
           q == a \div 4096
           n == q - 16 * k
<1>1. k \in Nat /\ m = 65536 * k /\ m \in Nat
  BY SMT DEF IsBase
<1>2. q \in Nat /\ Page(a) = 4096 * q /\ Page(a) <= a /\ a < 4096 * q + 4096
  BY SMT DEF Page
<1> HIDE DEF k, q
<1>3. n \in Nat /\ Page(a) = m + 4096 * n
  BY <1>1, <1>2, SMT
<1>4. PagesAfter(m, a) = n
  BY SMT DEF PagesAfter, k, q
<1> HIDE DEF n
<1>5. QED
  BY <1>1, <1>2, <1>3, <1>4

Reach == 256 * 65536   \* the words that pan_ptr reaches
LEMMA HighBound == ASSUME NEW n \in Nat, n < Reach PROVE HighWord(n) \in Nat /\ HighWord(n) < 256
<1> DEFINE q == HighWord(n)
<1>1. q \in Nat /\ 65536 * q <= n
  BY SMT DEF HighWord
<1> HIDE DEF q
<1>2. q < 256
  BY <1>1, SMT DEF Reach
<1>3. QED
  BY <1>1, <1>2 DEF q

LEMMA Rejoined ==
  ASSUME NEW n \in Nat PROVE HighWord(n) * 65536 + LowWord(n) = n
BY SMT DEF HighWord, LowWord

(* Where a mapped address lies in its board: on a page of 1024 words. *)
InBoard(m, size, a) == size \in Int /\ a \in Nat /\ a >= m /\ a < m + size /\ size <= 2 * Reach
LEMMA PageOffset ==
  ASSUME NEW m, IsBase(m), NEW size, NEW a, InBoard(m, size, a)
  PROVE  \A offset : offset = (Page(a) - m) \div 2 =>
           offset \in Nat /\ offset < Reach /\ offset % 1024 = 0 /\ Page(a) = m + 2 * offset
<1> DEFINE n == PagesAfter(m, a)
           p == Page(a)
           offset == (p - m) \div 2
<1>0. size \in Int /\ a \in Nat /\ a >= m /\ a < m + size /\ size <= 2 * Reach
  BY DEF InBoard
<1>1. n \in Nat /\ p = m + 4096 * n /\ p <= a /\ m \in Nat
  BY <1>0, PageDown
<1>2. Reach \in Nat
  BY SMT DEF Reach
<1> HIDE DEF n, p
<1>3. offset = 2048 * n
  BY <1>1, SMT
<1> HIDE DEF offset
<1>4. offset \in Nat /\ offset % 1024 = 0 /\ p = m + 2 * offset
  BY <1>1, <1>3, SMT
<1>5. offset < Reach
  BY <1>0, <1>1, <1>2, <1>4, SMT
<1>6. QED
  BY <1>4, <1>5 DEF offset, p

LEMMA Mapped ==
  ASSUME NEW cd \in ConfigDevs, Found(cd), board.memory = cd.address + RegisterSpace,
         board.memory_size = cd.size - RegisterSpace,
         NEW a, a \in cd.address + RegisterSpace..cd.address + cd.size - 1
  PROVE  LET offset == (MapAddress(a) - board.memory) \div 2
         IN  /\ offset \in Nat /\ MapAddress(a) = board.memory + 2 * offset /\ offset % 1024 = 0
             /\ HighWord(offset) \in Nat /\ HighWord(offset) < 256
<1> DEFINE m == board.memory
           size == board.memory_size
           offset == (Page(a) - m) \div 2
<1>1. /\ cd.address \in Nat /\ cd.size \in Nat /\ cd.address % RegisterSpace = 0
      /\ cd.size - RegisterSpace <= 2 * Reach
  BY BoardsAssumption DEF Reach
<1>2. IsBase(m) /\ m \in Nat
  <2> DEFINE base_ == cd.address
  <2>1. base_ \in Nat /\ base_ % 65536 = 0 /\ m = base_ + 65536
    BY <1>1 DEF RegisterSpace
  <2> HIDE DEF base_, m
  <2>2. QED
    BY <2>1, SMT DEF IsBase
<1>3. size \in Int /\ a \in Nat /\ a >= m /\ a < m + size /\ size <= 2 * Reach
  BY <1>1 DEF RegisterSpace
<1>8. InBoard(m, size, a)
  BY <1>3 DEF InBoard
<1>4. Page(a) = MapAddress(a)
  <2>1. CASE a > m
    BY <1>3, <2>1 DEF MapAddress, Page
  <2>2. CASE a = m
    <3>1. MapAddress(a) = a
      BY <1>2, <2>2 DEF MapAddress
    <3>2. m % 4096 = 0
      BY <1>2, SMT DEF IsBase
    <3>3. QED
      BY <1>3, <2>2, <3>1, <3>2 DEF Page
  <2>3. QED
    BY <1>2, <1>3, <2>1, <2>2
<1> HIDE DEF m, size
<1>5. offset \in Nat /\ offset < Reach /\ offset % 1024 = 0 /\ Page(a) = m + 2 * offset
  <2>1. offset = (Page(a) - m) \div 2
    OBVIOUS
  <2> HIDE DEF offset
  <2>2. QED
    BY <1>2, <1>8, <2>1, PageOffset
<1> HIDE DEF offset
<1>6. HighWord(offset) \in Nat /\ HighWord(offset) < 256
  BY <1>5, HighBound
<1>7. QED
  BY <1>4, <1>5, <1>6 DEF offset, m
=============================================================================
