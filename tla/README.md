# Verification of the VA2000 graphics card

TLA+ models, TLC runs and TLAPS proofs for the MNT VA2000, a Zorro graphics card
for the Amiga with an SD card slot. The gateware is Verilog and VHDL in
`va2000-spartan6/`, the drivers are C in `drivers/`. What can go wrong here is
mostly concurrent: five users share one SDRAM port through a state machine, every
register of the card changes on the same clock edge, the host, the display and
the Amiga's video run on clocks of their own, and the drivers talk to machines
that move on between any two of their register accesses.

## 1. The system

| component | source | state it keeps | operations |
|---|---|---|---|
| SDRAM controller | `SDRAM_Controller_v.v` | state, one held transaction (`save_*`, `got_transaction`, `cmd_ready`), burst length loaded, delay line of the reads, pins | accept, open row, read, write, two-word and full-page burst, follow in the open row, precharge, load mode, reset |
| RAM arbiter | `va2000.v` 1930-2315 | `ram_arbiter_state`, port registers `ram_*`, fetch counters, refresh counters, blitter counters, copy buffer, capture counters | fetch a line, host read, host write, fill, block copy, capture, refresh |
| Zorro III machine | `va2000.v` 972-1926 | `zorro_state`, request flags, strobes, DTACK, read data, registers | autoconfig, memory read and write, register read and write, reset |
| Zorro II machine | `va2000.v`, states `WAIT_*`, `WRITE_*` | the same registers | built only without `ZORRO3`; the source defines it |
| Scanout | `va2000.v` 2320 ff. | pixel counters, `need_row_fetch_y`, palette | timing, scaling, palette lookup |
| Video capture sampler | `va2000.v` 600-760 | line counters, two line buffers | sample the Amiga's video |
| SD card controller | `SDCard.vhd`, registers `'h60` to `'h70` | state of the command and block machine, byte counter, half of a double handshake, error code | initialise a memory card, read a block, write a block, reset |
| SD card driver | `drivers/sdcard/mntsd_cmd.c`, `mntsd_device.c` | poll counters, count of problems, unit, retries | block transfers, trackdisk and SCSI commands, `AbortIO`, open |
| Graphics driver | `drivers/gfx_vbcc/mntgfx.c` | library base, board info, `scratch` | open, close, expunge, find and init the board; modes, panning, palette, `monitor_switch`, `rect_fill`, `rect_copy`, `blitter_wait` |
| Old graphics driver | `drivers/gfx/mntgfx.c` | the same | superseded |
| Boot ROM, tools, DVI output, UART, clocking | `drivers/bootrom`, `modeline`, `va2000cx`, `rtgpatch`; `dvid_out.vhd` ... | little | see PROJECT.json |

How they meet:

- Host and Zorro machine: bus signals through three-stage synchronizers; the host
  holds an access until DTACK.
- Zorro machine and arbiter: request flags `zorro_ram_read_request` and
  `zorro_ram_write_request`, which **both** assign, in one `always` block, the
  arbiter last; `blitter_enable` and `zorro_ram_read_done` likewise.
- Arbiter and controller: the port `ram_*` with the handshake
  `cmd_ready`/`cmd_enable`, and `data_out_ready`, which says that *some* read came
  back and not which.
- Scanout and arbiter: `need_row_fetch_y` and `x_safe_area` one way, the line
  buffer the other, across two clocks.
- Graphics driver and card: registers, written one 16-bit word at a time, a poll of
  `blitter_enable`, and the video memory, which the processor and the blitter both write.
- SD driver and SD controller: registers; every byte of a block crosses by a
  handshake of two flags, one kept by each side, and every wait of the driver is
  a poll that gives up. The controller and the memory card never give up.

What makes each correct:

- *SDRAM controller*: obeys the chip (rows opened before use, closed before another, bus
  direction), performs each transaction once, in order, on its own cell, answers
  reads in order and with nothing but words of the chip, never deadlocks.
- *Arbiter*: every user gets what it would get alone, however often it gives the
  port away: a line buffer with its line, a fill with its rectangle, a copy that
  behaves as if read before written, captured lines in memory; the host is served.
- *Zorro machine*: a memory to the host; comes back after a reset.
- *SD controller and driver*: what is reported read or written was read or written;
  nothing else on the memory card changes; every request comes back, with the memory
  card pulled out in mid-block, too.
- *Graphics driver*: at the end of each call the card shows, and the video memory
  holds, what the calls so far asked for; the blitter never works against the
  capture; every call returns; the library lives as long as its users.

What is hard to test is listed in PROJECT.json under `hazards`, each at its line. The
themes: request flags assigned by two machines; answers without a name
(`data_out_ready`); values left over from the previous user of the port (burst
length, `ram_data_in_next`); a reset that re-initialises two of three machines;
off-by-one in chunked, bidirectional copies; signed against unsigned comparison;
polls that time out while the other side is about to answer; a retry over a
controller in mid-block; a flag in memory (`scratch`) that must agree with a
register; two names of one counter.

## 2. Modules

| module | models | how it corresponds to the code |
|---|---|---|
| `SDRAMController` | the controller and the chip behind it | one action per `s_*` state or branch of it (the waits share `IdleWait`, the read tail `ReadTail`); `Latch`, `DelayLine` and `Goto` are what the clocked block does around the case, and every action contains them. `Chip` obeys the command that was on the pins before the edge. |
| `SDRAMServer` | what the controller promises a client of single accesses | abstract: a memory with a one-place queue and words owed |
| `SDRAMRefinement` | the mapping between the two | queue = `save`, owed words = positions of `data_ready_delay` |
| `RamArbiter` | `ram_arbiter_state` | one action per state or branch of it; the `RAM_ROW_FETCHED` cascade is `Claimant` and an action per branch; `Port` is the instantiation of the controller |
| `ZorroBus` | Zorro III machine, and the card | one action per `zorro_state`; `Clock` is one edge of `z_sample_clk`: controller, arbiter and Zorro machine step together; `Requests`, `Blitter` and `Registers` resolve the registers more than one of them assigns |
| `HostMemory` | what the host is promised | abstract: accesses to a plain memory, the halves of a write stored one by one before it ends |
| `SDController` | `SDCard.vhd`, the registers of the card that drive it, and the memory card | one action per thing the host can tell apart; the phases and the `state_t` values each stands for are in the module's header |
| `SDDriver` | `sdcmd_read_blocks`, `sdcmd_write_blocks` | one action per exit of a poll loop: what is written between two polls is one step; a poll ends with what it waited for or with `problems` one higher |
| `SDDevice` | `mntsd.device` | `BeginIO` by kind of command (refused, answered at once, informing, transfer), the retries of `SD_ReadWrite` and the reply; a memory card may be pulled out or put in at any time |
| `RTGCard` | the card as its driver sees it | the `REGWRITE` decoder with the width of each register, the palette, and what a fill and a copy of the blitter do to bytes |
| `RTGLibrary` | `mntgfx.card` as a library, `FindCard`, `InitCard` | one action each; exec calls them with task switching off |
| `RTGDriver` | the board functions | a call becomes the sequence of register writes, polls and byte moves the function makes, in its order; one step per element, the blitter in between |
| `MCSDRAM`, `MCCard`, `MCSD`, `MCRTG` | the small instances | words, contents, accesses, blitter programs, requests, scripts of calls |
| `SDRAMSafetyProofs`, `SDRAMServerProofs`, `CardProofs`, `CardPortProofs`, `CardMemoryProofs` | theorems on the controller, on the card's registers, on what is under way at the port, and on what ends up in the memory | section 5 |
| `SDProofs` | theorems on `mntsd.device`, its controller and the memory card | section 5 |
| `RTGProofs`, `RTGDriverProofs` | theorems on the library and on lists of steps; on the board functions | section 5 |

Operators named after another one with a suffix (`Precharge_NotSent`,
`CopyBufferEmpty_Early`) are single plausible mistakes in that operator. No
specification uses them; they exist to confirm that a property would notice.

### What is abstracted

- **Data.** A word is a function from two byte lanes to two values. Colors, addresses of
  the bus and register numbers are small sets. A block of the memory card is two bytes
  that name their content, and its CRC is taken to tell any two contents apart.
- **Chip.** External; from how the controller uses it: open rows, mode register,
  bursts that wrap in the pair or the row, byte masks, three edges of read
  latency. Of READ and WRITE held for several edges each edge restarts the
  burst, as on the chip. Its nanoseconds are not modelled, nor the loss of
  contents without refresh, nor what it does with an illegal command (that none
  is issued is `CommandsLegal`).
- **SDRAM controller.** The states `s_idle_in_5`, `s_idle_in_6` and `s_open_in_3` to `_8` are
  never entered; the refresh timer is commented out in the source.
- **Arbiter.** `ram_fetch_delay2_max` is 0 in the source, so `BURST_OFF` lasts one edge.
  The delayed copies `pan_ptr_sync` and `x_safe_area_sync` change at any edge like what they copy.
- **Zorro machine.** The configuration dialogue is its beginning and its end; register
  reads and registers that start nothing are left out; the four strobes arrive
  together; the host does not give up an access except in a reset. The
  capture's base follows the register at once instead of an edge later.
- **Host.** Makes any access of `HostOps` whenever the bus is free. As the driver
  does, it starts the blitter only while the blitter is idle.
- **Scanout.** Asks for the next of `Lines` lines once the last was fetched and at least
  `LineGap` edges have passed.
- **SD controller.** The states that shift single bits are one phase with the byte they
  shift. The memory card is external: it answers commands once initialised, may send an
  error token, may reject or miss a block, may be pulled out and put in; an empty socket sends `Noise`.
- **SD driver.** The counters of a poll are not modelled: a poll may give up whenever
  the controller's next step is one that waits for the driver or for a memory card that
  may be slow (`~Prompt`). A step the controller makes by itself takes microseconds
  and `LOOP_TIMEOUT` is 200000 turns. One task uses the device at a time.
- **Graphics driver.** A blit is done at one moment between its start and the fall of
  `blitter_enable`; how it shares the memory with fetches is the matter of `RamArbiter`.
  Memory outside the bytes followed reads as 0 and is not written. `vsync` may rise at any time.
  The fallback of Picasso96 for copies the driver hands back is taken to be right.

## 3. Runs

| run | asks | bounds |
|---|---|---|
| `single` | Does the controller obey the chip, answer with words of the chip only and serve single accesses like `SDRAMServer`, and is it always ready again? | 2 banks, 2 rows, 2 columns; same row, other row, other bank, other column; reads, byte and word writes at any edge |
| `host` | Is the card a plain memory to the host, among line fetches and refreshes, from power-up on, and is the line buffer right when a row is declared fetched? | 1 bank, 2 rows of 8 words; 2 lines of a whole row each, one of which the host writes to; long reads, long and byte writes |
| `fill` | Does a fill write exactly its rectangle? | 2 rows of 3 pixels across a row border of the chip, one color and true color, with host reads, fetches and refreshes |
| `copy` | Does a copy move its rectangle as if read first? | 2 rows of 3 words, overlapping, four directions, a buffer of 2 words |
| `capture` | Do captured lines reach memory? | 2 lines of 2 pairs between fetches of 2 words |
| `served` | Does every host access get DTACK? | 1 row, 2 lines, reads, writes and a register write that restarts the display clock |
| `reset` | Does the card come back after a reset at any edge? | 1 row, 1 line, reads in flight |
| `sd` | Is what `mntsd.device` reports done, done, is nothing else written, and does every request come back? | see below |
| `driver` | Does the card show and hold what Picasso96 asked for after every call, and does every call return? | see below |
| `fillwrite`, `resetfetch`, `sderror` | section 4 | as `fill`, `reset` and `sd` |

The bounds are enough in this sense: transactions relate to their predecessor only by
same or other row, bank and column, and two of each give every combination; the
arbiter's counters are compared with limits only, so a row of three with a
buffer of two has a full chunk, a partial chunk, a first and a last row; refresh
and fetch happen in every phase of every other user because their pace is free
or short. In `host` the safe area is always on: the arbiter looks at it only to put a fetch off, and the
scanout may put off its request as long. `served` has it come and go. `copy` has the state constraint `FirstBlit`: it follows one blit from the
numbered initial contents, in which neighbours differ, because a second blit starts
from contents that the first one made and would say nothing new. The
refresh's `cool` bound is that of the source (10): below it, the port is given away
before the word returns, which `host` shows with the mutant `RefreshEnd_Early`.

`sd`: blocks of two bytes and two of CRC, so that a block has a first, a middle and a last
byte; the memory card holds the blocks 3 and 4 of addresses 0 to 5, and four values of `addr_lo`,
so that a transfer of two blocks crosses from one `addr_hi` to the next and may
name a block the card has not. A caller repeats any two of three transfers (a
trackdisk write of two blocks, a SCSI write of one of them with other contents,
a read of both), or it asks, aborts and is refused. `SD_RETRY` is 2
instead of 10: one failed attempt and the last one. The count of problems has
`ProblemValues` = 3 values instead of 256; what matters of 256 is that neither a
block's 514 polls nor 515 are a multiple of it, and `DriverAssumption` states that for the
instance. `ByteValues` = 4 makes the replies of READ CAPACITY and MODE SENSE carry over bytes.
The memory card is pulled out or put in once (`MaxChanges`), at any step.

`driver`: a behavior follows one script. `modes` sets any two of twelve sizes in four
formats; `switches` sets modes, one of them refused, switches to capture and back and
pans, without limit of calls; `colors` sets parts of the palette without limit; `answers`
asks for pitches and the functions that only answer; `drawing` makes every fill and
every copy of bitmaps of three rows, 10 pixels in 8-bit, 5 in 16-bit and 5 in
32-bit color, which gives every combination of odd and even edges, overlap and direction;
`captured` draws a few of them between switches; `library` opens, closes and
expunges with two users. `MaxUsers` 2 and the copy buffer of two words are the least that
leave one user behind and split a row. Some scripts end, so that a state without successor is no error there.

### Fairness and pace

*Card.* `WF_registerVars(Clock)` says only that the clock runs: an edge that changes a register of
the card, whatever the world does, comes. Every machine moves at every edge, so this is fair to
each of them. Nothing is assumed of the host, the scanout, the capture or the reset line, which may keep
still for ever: with the variables of the world in the subscript a card that
hangs would be rescued by a reset that fairness makes come. `served`
needs one assumption about pace, `LineGap = 2`: a line fetch has priority over the host, so
a scanout that asked for the next line at the very edge the last one ended would
starve it. In the card a line period is hundreds of edges.

`Pause` is the least number of edges that a reset lasts, and the configuration dialogue
after it. `reset` allows any length (0), shorter pulses than an Amiga makes included;
`resetfetch` uses 40 edges, longer than any access, fetch or delay line of its
instance, so that what it finds does not depend on a glitch. The host
gives up its access in a reset.

*SD.* The controller is fair in the steps it makes by itself (`WF(Prompt /\ Control)`), not in
those that need an answer of the memory card. The task is fair strongly (`SF(Drive)`): a poll counts
all its turns, those at which the controller was about to move included, so a
controller that goes round between prompt and waiting (an endless initialisation)
does not keep it from giving up. `WF(Finish)`: the task returns to its caller.

*Graphics driver.* `WF(Work)` and `WF(Card)`: the task that called is scheduled, and the
blitter goes on. On the card it comes after line fetches and host accesses; the first are
paced by the display, and a host that polls `blitter_enable` leaves the memory alone.
Callers may stop calling.

## 4. What the runs found

- **`fillwrite`** (violates `HostSeesMemory`). `RAM_WRITING_ZORRO` clears
  `zorro_ram_write_request` at every edge it waits, not only when it leaves. If the
  controller is still busy, as with a pixel of a fill, the Zorro machine sees the
  flag down after the first edge, raises it for the lower half of the long
  word, and the arbiter clears that too: half of the write is lost and the host still gets DTACK. The
  driver's `blitter_wait` before drawing hides it. A capture leaves `ram_enable` up in the same way.
- **`resetfetch`** (violates `HostServed`). The end of the Amiga's reset resets the controller,
  not the arbiter. A line fetch that loses the controller to it gets the words of the
  delay line still; if the last of these is the one at which `ram_enable` is
  withdrawn, the word that would end the fetch is never read, the arbiter stays in
  `RAM_FETCHING_ROW`, and so does every later access. At any other word the fetch
  recovers, because `ram_enable` is still up. The Zorro machine comes back in any case (`reset`).
- **`sderror`** (violates `ErrorsNotIgnored`). The header of `SDCard.vhd` says that one
  "can't ignore any errors that occur". The branch that would compare the memory card's data response
  is never reached, and `sdcmd_write_blocks` returns 0: a rejected block is reported
  as written. `WrittenIsStored`, which holds, is about everything else that could lose a write.

Observations without a run of their own:

- A pair accepted just before a line fetch selects the full-page burst is written under the new
  mode and its second word is lost; `capture` checks the first words.
- With `margin_x > 0`, `fetch_x` starts negative and is compared unsigned: the row is declared
  fetched after one word. The old driver writes 8; the current one leaves 0, and so do the runs.
- The startup sequence described at `SDRAM_Controller_v.v:270-286` is commented out below it: a row open when the
  controller is reset stays open, and the mode register is loaded only when the burst length
  first changes. The card meets the second case harmlessly, since its first
  access is a line fetch (`ModeLoadedBeforeUse`, a theorem); the first is why the theorems assume that no reset comes in mid-flight.
- `s_write_3`'s extra state for tRDL leaves WRITE on the pins, so it adds no recovery time.
- Alone, the controller turns the bus for a write that follows a read in the open row while words of that read may
  still be coming. On the card nobody asks for this (`NoBusContention`, a theorem).
- A fetch takes every word of its line from one open chip row. The driver provides for it: `pan` masks the start
  address to a multiple of 1024 words (`mntgfx.c:327`), a row of the chip has 512, and the line pitch is 512 words.
  The instances keep every line within a row likewise; in `host` it is a whole row. With `CaptureBase` between 1 and 7 in
  `host`, TLC finds `FetchedLineRight` or `NoBusContention` violated: the gateware alone does not guarantee them.
- `mntgfx.c:527-528` takes all sizes without a timing of their own to fit 800x600. 640x200 and 640x256 are doubled to
  1280 columns and do not: the picture is longer than the line. `TimingFits` would be violated by them, and `driver`
  leaves these two sizes out.
- From power-up until the first pan or switch the card captures and `scratch` says that it does not, so that a fill
  made then works against the capture. `NoBlitInCapture` and `ShownRight` begin with the first of these calls (`settled`).
- `max_bitmap` is 8191, but the source registers of the blitter keep 12 bits. The gateware does not decode
  `row_pitch_shift` and `ram_fetch_delay2_max`; `va2000.h` does not define `MNTVA_COLOR_15BIT`, which the driver uses
  and the gateware decodes as 4. `FindCard` never closes `expansion.library`.
- `BeginIO` runs in its caller's task without a lock. `AbortIO` marks a request that stays marked when it is used
  again; `io_Actual` is the length asked for; `SD_ReadWrite` compares a 32-bit sum with `0xffffffff`,
  which refuses nothing; MODE SENSE stores its twelve bytes whatever room the caller has.

## 5. Proofs

*Controller.* For every geometry of the chip, every initial contents and every set of client outputs:

- `TypeCorrect`: `SDRAMSpec => []TypeOK`, resets and bursts included. `TypeOK` is not
  inductive: an address on the pins is a row, a column or a mode according to
  the command, and the chip would open a "row" that is a mode number.
  `TypeInv` adds `PinsMeaningful`, which ties the kind of the address to the command.
- `CommandsAlwaysLegal`, `RowAlwaysRight` (assume `NoReset`): `CommandsLegal` and
  `RightRowOpen`. The chip is one edge behind the controller, so neither property is
  inductive. `SafeInv` speaks of `RowsAfter`, the open rows once the pins have been
  obeyed: none in the waiting states and one, in the bank on the pins, in the
  others (`OneRow`); which commands a state may find there (`PinsFit`); that no
  transaction is accepted on top of one outside a burst (`Handshake`); and that
  the row open is that of the transaction in hand, or of the accepted one
  if the back-to-back flag says so (`RowFits`). This answers why comparing with the
  transaction accepted *before* is sound: outside a burst that transaction is
  the one whose row is open (`LatchFits`).
- `NeverOverwritten` (assumes `NoReset` and `NoFullPage`): a held transaction is not
  replaced. During a full-page burst `cmd_ready` stays up, so a client that
  uses one must not rely on it; the arbiter does not.
- `WritesAlwaysDriven` (assumes `NoReset`): whenever the chip takes a word the bus is driven.
  `BusTurned` says in which states it has been turned: before WRITE is on the pins,
  while the second word of a pair follows, and in every write that follows another.
- `AnswersAlwaysWords` (assumes `NoReset`): `data_out_ready` comes with a word of the chip, never with a released
  bus. `AnswerInv` says that every position of the controller's delay line that is set has its
  word at the same place of the chip's pipeline, and that while a page is read the
  chip is in its full-page mode.
- `ServerImplemented` (assumes `SingleAccesses`: no reset, no bursts, and a chip that powers up without one):
  `ServesInOrder`, the refinement of `SDRAMServer`. Every edge of the controller is one of two kinds (`EdgeKinds`):
  nothing new is put on the pins, and it is the server's `Wait`; or a transaction is, and it is `Perform`. `ServeInv` adds to
  `SafeInv` that no burst is ever under way and that in `read_1` and `write_1` the one transaction is that in `save`.
  The memory after a step is that of the server because a WRITE that stays on the pins stores the same bytes again
  (`MemHeld`) and the row under a new READ or WRITE is that of its transaction (`CellAtHand`); the words owed move up the
  delay line together with the chip's pipeline (`WordsMoveUp`).

`SafeInv` is proved in groups of actions (all rows closed, opening, reading, writing), each
resting on `RowsAfterStep`: after an edge the chip's rows are those announced before. `NoReset` is
necessary, and more than necessary: `ClockSafe`, `ClockTurned` and `ClockAnswers` prove one edge of the controller
under the weaker condition that a reset finds it quiet (`QuietReset`), which is what the card needs.

*Card.* For every chip, picture size, capture, set of host accesses and blitter
programs, if the host does not reset the card at work (`~ResetAllowed`):
`CardCommandsLegal`, `CardWritesDriven`, `CardAnswersAreWords`, `CardLoadsMode`. The controller's
theorems are about any client whose outputs have the right types, so the work is to show that the arbiter is one
(`CardTyped`: every address is split into a bank, row and column of the chip by `CellAt`, every word is a word,
the blitter's registers stay integers in all their assignments), and that the reset which
the card does have, at power-up, comes while the controller is idle (`PowerUp`). `CardLoadsMode` adds `FirstLoad`:
until LOAD_MODE is on the pins the arbiter is on its way to its first line fetch, and the
controller has opened nothing. `CardTypeCorrect` (`CardTypeOK`) needs `RangeInv`. Its hard part is the count of words
a copy has in its buffer: the arbiter counts every `data_out_ready` it sees in `BLIT_COPY_READ`, whoever asked for it,
so the count stays in the buffer only if a copy starts with no read held, under way or in the delay line
(`CopyStarts`, `NoReadsOut`). That holds because every user gives the port back with nothing but a write on it
(`PortQuiet`), and because an empty queue in state `idle` is what the controller says it is, although it says so an edge
late (`QueueTold`). The assumptions are those the modules state:
`GeometryAssumption`, `SizesAssumption` (sizes are naturals, the captured words are words), `CountersAssumption` (a line
fits the 12 bits of `fetch_x`, limits are naturals), `HostAssumption` (the host's accesses and programs are records of the
right form, there is a line) and `RangesAssumption` (both halves of an access are on the card, the driver starts the
blitter with 1 or 2).

*Port of the card.* `CardPortProofs` follows every read from the port to its answer. `NeverContends` is `NoBusContention`,
`LinesArrive` and `LinesRight` are `FetchedLineRight`: the first says that the buffer holds the words of one chip row from the address at which
the fetch began, the second that this is the address of the line that was asked for. `PortInv` is the inductive invariant:

- a write can only meet read words on the bus if it is accepted while a read is held, on the pins or in the pipeline of the chip. So `Free`
  says in which states of the arbiter no read of any user is left (`NoReadsOut`), `EnableRules` and `OffersClaimed` who may leave
  `ram_enable` up and with a read or a write under it, and `BusQuiet` which words may still be in the chip, by state of the controller;
- that a user gives the port back in such a state is a matter of counting: `Outstanding` is the number of reads accepted and not yet
  answered, `OutstandingStep` its balance at every edge. A host read asks for one word (`HostRead`), a copy for as many as it has
  `issued` and not yet seen (`CopyCount`);
- a refresh asks for nothing and sees no answer: it waits. `Warm` and `RefreshOut` bound by a rank how far the controller can still be from the
  state in which the read has left it;
- a line fetch ends its own burst. `FetchPhases` follows it from the read on the port to `TERMINATE`: with `fetch_x` words seen the controller
  is at column `fetch_x - 1` of the chip row, the delay line is full, and `ram_enable` is withdrawn so that the last position of the delay line brings
  the last word (`FetchPort`);
- `LineInv` then follows the words: the chip's stream is `Ahead` columns on (`LineStreams`), the pipeline and `data_out` hold the columns in
  between (`LineWords`), and the buffer the ones before (`LineBuffered`). No write reaches the chip meanwhile.

Their hypotheses are these. `~ResetAllowed`, as for the card. `margin_x = 0`, its value after reset, and the one the current driver leaves.
`FETCHW > 1` and `BLITTER_COPY_SIZE > 0`; the source has 512 and 16. `LinesInRows`: no line crosses a row of the chip; lemma `WholeRows` derives
it for a line as long as a row, which is the card. `WaitsSuffice`: the refresh waits 10 edges before its read and 8 after it at least; both registers are reset to 10.
`OffBetweenLines`: `capture_mode` is written 0 only when the captured line is saved. Otherwise the pair on the port
stays there with nobody to claim the port, and may be accepted at the very edge at which a refresh begins: in another row and behind a change of the
burst length it delays the refresh's read past its waits. The driver writes the register without looking (`mntgfx.c:329`), so that these few
edges are what the theorems leave open; the instances do not reach a contention there. `LinesRight` also
needs `CaptureBase = 0`: the first line is fetched during the reset, from `pan_ptr = 0`, and the reset may move `pan_ptr` while that line is on its way.

*Memory of the card.* `CapturesLand` is `CapturedFirstWords`: the first words of every pair of a captured line are in their places when the
line is marked saved. `CardMemoryProofs` looks at the memory with the write that the controller holds already done (`CtrlMem`). Its main
lemma, `CtrlMemStep`, says that an edge changes this memory by the write that is accepted at the edge and by nothing else, but for the second word of a
burst: a WRITE that stays on the pins for several edges stores its bytes again (`WriteStays`), and what is held is put on the pins
once, in the row it was accepted for (`WriteLands`, `HoldsWriteStep`). The inductive invariant, `CaptureInv`, has these parts:

- `InPlace`, `SpillPlace`, `PairRuns` are about controller and chip: what is held is of the kind the state works on, and a second word goes beside
  the first. Hence it falls on an odd word of the picture, or beside the picture, and never on a word that was stored before (`SpillInPair`, `SpillsBeside`);
- `NoBlits`, `HostWrites`, `RequestRight`, `PortRight`, `SaveRight`, `PinsRight` follow the writes from the bus and the capture over the port to the
  pins: each carries the right word for its place in the picture, or lies beside the picture;
- `CaptureKept`: every word of the line up to the one that comes next is stored, held, or on the port. It is the port that makes this hard: the
  arbiter puts the next word there when `cmd_ready` is high, and it is `OffersClaimed` of `CardPortProofs` that says why the word before has been accepted.

Besides the hypotheses of `NeverContends` it needs `EvenPicture` (base and pitch are even, so that a pair of the picture is a pair of columns) and `CaptureAlone`
(the host writes beside the picture and starts no blit while there is a capture; `NoBlitWhileCapturing` is the driver's side of it).

`PlainMemory` is `HostSeesMemory`, the refinement of `HostMemory`. Its inductive invariant, `HostInv`, follows one access of the host through four
machines, on top of the invariants of `CardPortProofs`:

- `HostPhases`: the access that a state of the Zorro machine works on is still on the bus, with the same strobes, until DTACK has been seen;
- `WriteUnderWay`: a request that is up belongs to the half on its way, the controller is ready when the arbiter takes it up, and the write on the port is the one
  requested. This is where the clearing of the flag at every edge (`fillwrite`) is harmless: the first edge is also the last. Hence `PostedStep`: what is posted
  (`Posted`) changes at the edge that requests a half, by that half, and at no other, although the write moves from the request to the port, the
  controller and the pins afterwards;
- `ReadUnderWay`, `AnswerUnderWay`: the one read under way, wherever it is between the port and `data_out`, asks for or carries the word of the cell the
  request names. `HostRead` of `CardPortProofs` says that there is no other read whose answer could be taken for it;
- `HalvesRead`: what has been read is still what the memory holds when the access ends, since no write of the host's words can fall between.

Then each edge is a step of `HostMemory` or a stutter (`IdleEdge`, `ReadEdge`, `WriteEdge`, `OtherEdge`): `Store(h)` is the edge that requests half `h`,
`Finish` the one that leaves the last state before DTACK or the data delay, `Release` the one that sees the bus free. Besides the hypotheses of `NeverContends` it
needs `NoCapture` (neither the reset nor the host switches capture on), `WritesWait` (`blitter_enable` is 0 while the host writes: `fillwrite` shows that it
is needed, and a host write during a capture is lost in the same way) and `BlitsBeside` (the blitter writes to other words than those whose contents are followed). The last two are conditions on
steps; `PlainMemoryAlone` shows that for a host that starts no blit they are invariants, so that nothing is assumed.

*SD card.* For every number of bytes in a block, every size of the device and of `addr_lo`, every set of callers, any
number of retries and any number of memory cards pulled out and put in: `SDTypeCorrect` (`TypeOK`), `ReadAlwaysRight`
(`ReadRight`), `NothingForeignWritten` (`NoForeignWrite`), `WritesAlwaysStored` (`WrittenIsStored`). None of the last three
is inductive: a byte that is right today must have been right when it crossed. `SDInv` keeps the two halves of the
double handshake apart, what the task has up in which loop (`Commands`) and what the controller's phase says of its
own registers (`Phased`), and then ties them together:

- a command the memory card can still answer is the one that is on the registers (`CommandCurrent`);
- while the task reads, the controller is at the task's block, or has just finished the one before and is
  not yet re-armed; a byte that is not one of data or of noise can only be a CRC of that block (`ReadCurrent`);
- while a block is collected both sides are at the same byte (`Aligned`), or every byte of the block has been given up and
  the count of problems says how many (`Missed`): this is where 514 and 515 must not be multiples of 256;
- a complete buffer is a block that a caller meant for its address, of which nobody has been told another content
  (`Delivered`), and what was reported, or was moved of the current job, is stored, dropped by the memory card, or
  in that buffer (`WrittenSafe`).

The assumptions are those `SDDriver` and `SDDevice` state: `DriverAssumption` (the bytes of a block and the count of problems),
`CallersAssumption` (blocks are naturals), `ContentsAssumption` (a block has its number of bytes), `GeometryAssumption` and
`CrcAssumption`. The last one is
the idealisation named in section 2: a CRC is never taken for a byte of data. The real one is two bytes like any
others, and a block of which the driver got another one's bytes would pass its check once in 65536 times.

`GeometryAlwaysAgrees` is about the SCSI replies. The invariant (`ToldTrue`) says that whatever a caller has decoded of them is a fact of
the card, however long its buffer was; it rests on lemmas that put a number together again from its bytes (`TwoBytes`,
`MoreBytes`). `GeometryAssumption` asks that heads, sectors, cylinders and block size fit the fields that tell of them, the capacity the
three bytes of the block descriptor, beyond which the code reports 0xffffff and READ CAPACITY the true number, and that
nobody gives MODE SENSE less than the 12 bytes of its header, where the code's unsigned length wraps. 1 head, 1024
cylinders and 2048 sectors of 512 bytes meet it.

*Graphics driver.* `LibraryAlwaysLives`: for any number of users. `LibInv` adds that `lib_OpenCnt` is the
number of users while the library is loaded, that a library unloaded has none, and that an expunge put off has
left `LIBF_DELEXP` set with somebody still using it.

For every board FindCard accepts, every set of scripts and every size of the memory that is followed: `DriverTypeCorrect`
(`DriverTypeOK`), `NoBlitWhileCapturing` (`NoBlitInCapture`), `ModeAlwaysShown` (`ShownRight`), `LinesAlwaysFit`
(`LineFits`), `TimingsAlwaysFit` (`TimingFits`), `PanAlwaysExact` (`PanExact`), `PaletteAlwaysRight` (`PaletteRight`) and
`PitchAlwaysRight` (`PitchRight`). All speak of the moment between two calls, so the invariant has to speak of every step of every call. A
call is a list of register writes, and a property that will hold when the list is used up is kept by an invariant of the form
"the register has the value, or the last write to it that is left in the list brings it". `RTGProofs` has what that needs of lists
without an induction: what `Head`, `Tail` and concatenation do to the last write (`Due`), to lists that start the blitter only
before they wait for it (`Guarded`), and to lists that leave the capture alone (`Quiet`). `DriverInv` is then, one part for each thing the card keeps:

- `BlitInv`: whoever started the blitter has a wait left, and while a start is left or a blit runs, `scratch` is 0 and
  nothing in the list touches the capture;
- `CaptureInv`: `scratch` is what the register says, or both writes of a switch are left, or exactly the second one;
- `PaletteInv`: an entry has its color, or is hit by a write that is left, and every such write carries the color due;
- `ShownInv`, `TimingInv`, `PanInv`: picture, timing and address are there or due. `ShownInv` also says that a mode shown is one that
  was asked for and not turned down, which is what makes a switch back safe after `init_mode` returned early;
- `RegistersInv`, `BoardInv`, `CallInv`, `PitchInv`: widths of the registers, the board, well-formed steps, the value returned.

Each part has one lemma for a step that is taken from the list and one for a call that begins with a list of its kind
(`ModeBegins`, `CaptureBegins`, `SwitchBegins`, `PanBegins`, `PaletteBegins`, `OtherBegins`).
The assumptions: `BoardsAssumption` (autoconfig aligns a board to its 64 KB of registers, and its memory is no larger than the
2^24 words of the SDRAM), `ColorAssumption` (`MNTVA_COLOR_15BIT`, which `va2000.h` does not define, fits the
three bits of `colormode` and is none of the other formats) and `CallsAssumption` (Picasso96 keeps to what `InitCard` advertises:
modes up to `max_res`, bitmaps up to `max_bitmap`, addresses in the board's memory). `TimingsAlwaysFit` has a hypothesis of its own,
`TimedModes`: a mode that is set, doubled where it is doubled, is no larger than the timing chosen for it. The run's
modes meet it; 640x200 and 640x256 do not (section 4), so that the theorem says exactly which modes the observation is about.

Only model-checked: what fills and copies do to the memory
(`FillRight`, `CopyRight`); `DrawnRight`, where a fill or a copy of the blitter is a recursion over its words,
so that what it leaves for every rectangle would need an induction over data; and liveness (`ReadyAgain`, `HostServed`, `Recovers`, `RequestEnds`, `CallsEnd`),
which the prover does not reach (fairness, ENABLED).

## 6. Not modelled, and why

- Zorro III: register reads, the configuration registers with the shut-up write, aborted cycles, skewed strobes: next in the plan.
- Zorro II machine: not in the build.
- Scanout counters and palette lookup, field detection of the capture: planned as far as they decide which line is
  asked for; the pictures they make are data.
- The memory card's protocol below the byte, its CRC polynomial and response bits: data.
- Several tasks in `mntsd.device` at once: nothing in the code orders them, so no property of a transfer would hold.
  The command line tester in `mntsd_cmd.c` (`BUILD_CLI`) calls the same two functions.
- Old graphics driver: an earlier version of the one modelled.
- Real-time bounds (refresh period, DTACK latency): need clocks in nanoseconds.
- Boot ROM, command line tools, TMDS encoding, UART, vendor primitives: straight-line, vendored, or not in the build.

## 7. Plan

1. Done: `SDRAMController`, its abstract server and the refinement; its invariants and theorems.
2. Done: `RamArbiter`, `ZorroBus`, `HostMemory`, their composition, and the controller's theorems carried over to the card.
3. Done: `SDController`, `SDDriver`, `SDDevice`.
4. Done: `RTGCard`, `RTGLibrary`, `RTGDriver`.
5. Zorro bus: register reads (the driver's poll of `blitter_enable` against the arbiter that clears it), the
   configuration dialogue, aborted cycles and skewed strobes.
6. Scanout: which line is asked for and when, so that `LineGap` becomes a theorem of its timing.
7. Proofs: done for the controller, the port of the card, the library, the SD card and the board functions. Done for the memory the host sees. Left: what fills and copies store.
