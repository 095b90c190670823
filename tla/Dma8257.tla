------------------------------- MODULE Dma8257 -------------------------------
(***************************************************************************)
(* The two DMA controllers (i8257.c), as operators on their registers.     *)
(* A controller has one channel with a transfer handler, the sound card's; *)
(* i8257_phony_handler leaves the others where they are, but they share    *)
(* the flip-flop that tells the bytes of a count apart.  Where in memory a *)
(* channel reads is left out; that writing the address restarts the count  *)
(* is not.                                                                 *)
(***************************************************************************)
EXTENDS Integers

CONSTANT DmaByte   \* values of a byte written to a count register

ASSUME DmaAssumption == DmaByte \in Nat \ {0}

Controllers == {"low", "high"}
Dshift(c) == IF c = "low" THEN 0 ELSE 1

\* i8257_new: the channel is not masked until the guest resets the controller.
DmaNew == [flip_flop |-> 0, mask |-> FALSE, dreq |-> FALSE, tc |-> FALSE, base |-> 0, now |-> 0]

\* i8257_write_chan, with i8257_init_chan when the second byte arrives.
WriteChan(d, reg, byte) ==
  LET base == CASE reg = "addr" -> d.base
                [] d.flip_flop = 0 -> (d.base \div DmaByte) * DmaByte + byte
                [] OTHER -> (d.base % DmaByte) + DmaByte * byte
  IN  [d EXCEPT !.flip_flop = 1 - @, !.base = base, !.now = IF d.flip_flop = 1 THEN 0 ELSE @]

\* i8257_read_chan, or an access to another channel: only the flip-flop turns.
ReadChan(d) == [d EXCEPT !.flip_flop = 1 - @]

\* i8257_write_cont: software request, masks, clear flip-flop, reset.
Request(d, on)   == [d EXCEPT !.dreq = on, !.tc = FALSE]
SetMask(d, on)   == [d EXCEPT !.mask = on]
ClearFlipFlop(d) == [d EXCEPT !.flip_flop = 0]
MasterReset(d)   == [d EXCEPT !.flip_flop = 0, !.mask = TRUE, !.dreq = FALSE, !.tc = FALSE]

\* i8257_read_cont: reading the status takes the terminal count.
ReadStatus(d) == [d EXCEPT !.tc = FALSE]

DmaLength(d, c) == (d.base + 1) * 2^Dshift(c)

\* i8257_dma_run: whether the channel is given to its handler.
Runs(d) == d.dreq /\ ~d.mask

\* i8257_channel_run, once its handler has returned the position.
Position(d, c, pos) == [d EXCEPT !.now = pos, !.tc = @ \/ pos = DmaLength(d, c)]
==============================================================================
