--------------------------------- MODULE Sb16 --------------------------------
(***************************************************************************)
(* The Sound Blaster (sb16.c) on its two DMA channels.                     *)
(*                                                                         *)
(* Samples are counted, not kept: what matters is how many bytes moved     *)
(* from memory to the ring and from the ring to the mixer, when the card   *)
(* interrupts, and whether the DSP and the guest agree which byte written  *)
(* is a command.  Frequencies are in small units, -1 being the code's own  *)
(* "being set".                                                            *)
(***************************************************************************)
EXTENDS Dma8257, FiniteSets

CONSTANTS
  Ring,        \* AUDIO_BUF_LEN, also TMPBUF_LEN
  OutCap,      \* sizeof out_data
  InCap,       \* sizeof in2_data
  OutRate,     \* 44100, in the units of Freqs
  Freqs,       \* rates the guest sets
  DefaultFreq, \* 11025
  Frees,       \* bytes the mixer asks for
  BlockLens    \* block lengths given as arguments, less one

ASSUME SbAssumption ==
  /\ Ring \in Nat \ {0} /\ OutRate \in Nat \ {0} /\ OutCap \in Nat /\ InCap \in Nat
  /\ Freqs \subseteq Nat /\ DefaultFreq \in Nat /\ Frees \subseteq Nat /\ BlockLens \subseteq Nat

VARIABLES
  dma,         \* the controllers
  sb,          \* the card
  tally        \* history: bytes moved, what may be concluded from it

sbVars == <<dma, sb, tally>>

\* bits and signed stand for fmt, the format of the mixer's callback; align is the code's
\* mask plus one.  Both stay as the last transfer set them when the card is reset.
SbInit ==
  /\ dma = [c \in Controllers |-> DmaNew]
  /\ sb = [irq |-> 5, lines |-> {}, status |-> {}, hdma |-> FALSE, auto |-> FALSE,
           bits |-> 8, signed |-> FALSE, align |-> 1, stereo |-> FALSE, mix_stereo |-> FALSE,
           freq |-> 0, time_const |-> TRUE, block |-> 0, left |-> 0,
           running |-> FALSE, active |-> FALSE, free |-> 0, fill |-> 0,
           needed |-> 0, index |-> 0, cmd |-> "none", out |-> 0, v2x6 |-> 0]
  /\ tally = [moved |-> 0, steady |-> FALSE, over |-> FALSE, stray |-> {}, adpcm |-> FALSE]

\* A state of all three, for the functions of sb16.c that reach into one another.
World == [dma |-> dma, sb |-> sb, tally |-> tally]
Become(w) == dma' = w.dma /\ sb' = w.sb /\ tally' = w.tally

Raise(w) == [w EXCEPT !.sb.lines = @ \cup {w.sb.irq}]
Lower(w) == [w EXCEPT !.sb.lines = @ \ {w.sb.irq}, !.tally.stray = @ \ {w.sb.irq}]

Use(s) == IF s.hdma THEN "high" ELSE "low"
Times2(n, cond) == IF cond THEN 2 * n ELSE n
AtMost(n, cap) == IF n < cap THEN n ELSE cap

(***************************************************************************)
(* The transfer.                                                           *)
(***************************************************************************)
\* write_audio: the bytes that get into the ring.  A position past the end of a channel
\* whose count was lowered under it makes the copy take all the room there is.
Written(s, left, len) ==
  LET room == Ring - s.fill IN
  CASE left = 0 \/ len = 0 -> 0
    [] left < 0 -> room
    [] OTHER -> AtMost(len, room)

\* control called from SB_read_DMA: dma_run is running and does not start again.
Halt(w) ==
  [w EXCEPT !.sb.running = FALSE, !.sb.active = FALSE,
            !.dma[Use(w.sb)].dreq = FALSE]

\* Mutant: what was written past the end of the block is forgotten.
NextBlockFresh(left, block) == IF left > 0 THEN left ELSE block

\* left_till_irq <= 0 is put back into 1 .. block_size.
NextBlock(left, block) == IF left > 0 THEN left ELSE block - ((-left) % block)

\* Bytes moved, up to the common period of block and buffer.
Tally(t, s, n, len) ==
  [t EXCEPT !.moved = IF t.steady THEN (@ + n) % (s.block * len) ELSE 0,
            !.over = @ \/ (t.steady /\ ~s.auto /\ n > s.left)]

\* SB_read_DMA on the channel of controller c, and i8257_channel_run around it.
SbReadDma(w, c) ==
  LET s     == w.sb
      d     == w.dma[c]
      len   == DmaLength(d, c)
      free  == s.free - (s.free % s.align)
      till  == IF s.left < 0 THEN s.block ELSE s.left
      copy  == IF ~s.auto /\ till <= free THEN till ELSE free
      n     == Written(s, len - d.now, copy)
      pos   == (d.now + n) % len
      moved == [w EXCEPT !.sb.fill = @ + n, !.sb.left = till - n, !.tally = Tally(w.tally, s, n, len)]
      told  == IF till - n > 0 THEN moved
               ELSE LET r == Raise([moved EXCEPT !.sb.status = @ \cup {IF c = "high" THEN 16 ELSE 8}])
                    IN  IF s.auto THEN r ELSE Halt(r)
      idle  == s.block <= 0 \/ free <= 0
      after == IF idle THEN (IF s.block > 0 THEN [w EXCEPT !.sb.left = till] ELSE w)
                       ELSE [told EXCEPT !.sb.left = NextBlock(@, s.block)]
  IN  [after EXCEPT !.dma[c] = Position(@, c, IF idle THEN d.now ELSE pos)]

\* i8257_dma_run.
DmaRun(w, c) == IF Runs(w.dma[c]) THEN SbReadDma(w, c) ELSE w

\* control called by the DSP: the request may be served, and finished, before it returns.
Control(w, hold) ==
  LET c   == Use(w.sb)
      ran == DmaRun([w EXCEPT !.sb.running = hold, !.dma[c].dreq = hold], c)
  IN  [ran EXCEPT !.sb.active = hold]

\* A transfer programmed while the other channel's was under way leaves that request up.
Start(w, s) ==
  Control([w EXCEPT !.sb = s,
                    !.tally.moved = 0,
                    !.tally.steady = /\ s.block > 0
                                     /\ w.dma[Use(s)].now = 0
                                     /\ ~w.dma[Use([s EXCEPT !.hdma = ~@])].dreq], TRUE)

\* dma_cmd8; len = -1 keeps the block size of command 0x48.
DmaCmd8(w, auto, len) ==
  LET s     == w.sb
      st    == s.mix_stereo
      rate  == IF s.time_const THEN 2 * DefaultFreq ELSE IF s.freq <= 0 THEN DefaultFreq ELSE s.freq
      block == CASE len # -1 -> Times2(len, st)
                 [] st -> s.block - (s.block % 2)
                 [] OTHER -> s.block
  IN  Start(w, [s EXCEPT !.hdma = FALSE, !.bits = 8, !.signed = FALSE, !.stereo = st,
                         !.freq = IF st THEN rate \div 2 ELSE rate,
                         !.block = block, !.left = block, !.auto = auto,
                         !.align = Times2(1, st)])

\* dma_cmd.
DmaCmd(w, bits, auto, signed, stereo, len) ==
  LET s     == w.sb
      block == Times2(Times2(len + 1, bits = 16), ~auto /\ stereo)
  IN  Start(w, [s EXCEPT !.hdma = bits = 16, !.bits = bits, !.signed = signed,
                         !.stereo = stereo, !.auto = auto,
                         !.freq = IF s.time_const THEN 2 * DefaultFreq ELSE @,
                         !.time_const = FALSE, !.block = block, !.left = block,
                         !.align = Times2(Times2(1, bits = 16), stereo)])

(***************************************************************************)
(* The DSP's command port.                                                 *)
(***************************************************************************)
Out(w, n) == [w EXCEPT !.sb.out = AtMost(@ + n, OutCap)]

\* command: how many bytes a command waits for.
Needed(cmd) ==
  CASE cmd \in {"note1", "answer1", "time_const", "identify"} -> 1
    [] cmd \in {"note2", "dma8", "freq", "block", "adpcm", "silence"} -> 2
    [] cmd \in {"bytes", "words", "adc"} -> 3
    [] OTHER -> 0

Commands == {"note1", "answer1", "time_const", "identify", "note2", "dma8", "freq", "block",
             "adpcm", "silence", "bytes", "words", "adc", "answer", "version", "copyright", "auto8",
             "single8", "halt", "continue", "exit_auto", "irq8", "irq16", "other"}

\* command: what is done at once.
AtOnce(w, cmd) ==
  CASE cmd = "answer"    -> Out(w, 1)
    [] cmd = "version"   -> Out(w, 2)
    [] cmd = "copyright" -> Out(w, OutCap)
    [] cmd = "dma8"      -> [w EXCEPT !.sb.block = 0, !.tally.steady = FALSE, !.tally.moved = 0]
    [] cmd = "time_const" -> [w EXCEPT !.sb.freq = -1, !.sb.time_const = FALSE]
    [] cmd = "freq"      -> [w EXCEPT !.sb.freq = -1, !.sb.time_const = FALSE]
    [] cmd = "auto8"     -> DmaCmd8(w, TRUE, -1)
    [] cmd = "single8"   -> DmaCmd8(w, FALSE, -1)
    [] cmd = "halt"      -> Control(w, FALSE)
    [] cmd = "continue"  -> Control(w, TRUE)
    [] cmd = "exit_auto" -> [w EXCEPT !.sb.auto = FALSE]
    [] cmd = "irq8"      -> Raise(Out([w EXCEPT !.sb.status = @ \cup {8}], 1))
    [] cmd = "irq16"     -> Raise(Out([w EXCEPT !.sb.status = @ \cup {16}], 1))
    [] OTHER -> w

Command(w, cmd) ==
  LET v == AtOnce([w EXCEPT !.sb.needed = Needed(cmd)], cmd) IN
  [v EXCEPT !.sb.cmd = IF Needed(cmd) = 0 THEN "none" ELSE cmd]

\* Mutant: the block size is read as one byte.
TakenShort(cmd) == IF cmd = "block" THEN 1 ELSE IF cmd = "adpcm" THEN 0 ELSE Needed(cmd)

\* complete: dsp_get_data takes the bytes from the end; the ADPCM commands take none.
Taken(cmd) == IF cmd = "adpcm" THEN 0 ELSE Needed(cmd)

\* complete: the outcomes for the arguments that were written.
PlayBytes(w) == { DmaCmd(w, 8, auto, signed, stereo, len) : auto \in BOOLEAN, signed \in BOOLEAN,
                  stereo \in BOOLEAN, len \in BlockLens }
PlayWords(w) == { DmaCmd(w, 16, auto, FALSE, stereo, len) : auto \in BOOLEAN, stereo \in BOOLEAN,
                  len \in BlockLens }
PlaySingle(w) == { DmaCmd8(w, FALSE, len + 1) : len \in BlockLens }
SetFreq(w) == { [w EXCEPT !.sb.freq = f] : f \in Freqs }
SetBlock(w) == { [w EXCEPT !.sb.block = len + 1, !.tally.steady = FALSE, !.tally.moved = 0] : len \in BlockLens }

Completed(w, cmd) ==
  CASE cmd = "bytes" -> PlayBytes(w)
    [] cmd = "words" -> PlayWords(w)
    [] cmd = "dma8" -> PlaySingle(w)
    [] cmd = "answer1" -> {Out(w, 1)}
    [] cmd = "identify" -> {Out([w EXCEPT !.sb.out = 0], 1)}
    [] cmd = "time_const" -> {[w EXCEPT !.sb.time_const = TRUE]}
    [] cmd = "freq" -> SetFreq(w)
    [] cmd = "block" -> SetBlock(w)
    [] cmd = "adpcm" -> {[w EXCEPT !.tally.adpcm = TRUE]}
    [] cmd = "silence" ->       \* a short silence interrupts at once, a long one never
         { w, Raise([w EXCEPT !.tally.stray = IF w.sb.status = {} THEN @ \cup {w.sb.irq} ELSE @]) }
    [] OTHER -> {w}

\* sb16_dsp_write, port 0xc.
WriteDsp(commands) ==
  \/ /\ sb.needed = 0
     /\ \E cmd \in commands : Become(Command(World, cmd))
  \/ /\ sb.needed > 0
     /\ sb.index < InCap            \* otherwise: in data overrun, the byte is dropped
     /\ sb.index + 1 # sb.needed
     /\ Become([World EXCEPT !.sb.index = @ + 1])
  \/ /\ sb.needed > 0
     /\ sb.index < InCap
     /\ sb.index + 1 = sb.needed
     /\ LET w == [World EXCEPT !.sb.needed = 0, !.sb.cmd = "none",
                               !.sb.index = @ + 1 - Taken(sb.cmd)]
        IN  \E v \in Completed(w, sb.cmd) : Become(v)

\* reset: an auto-initialised transfer gets one more edge.
Reset(w) ==
  LET low == Lower(w)
      s   == [low.sb EXCEPT !.status = {}, !.auto = FALSE, !.index = 0, !.out = 1, !.left = 0,
                            !.needed = 0, !.block = -1, !.v2x6 = 0, !.cmd = "none"]
      off == Control([low EXCEPT !.sb = s, !.tally.steady = FALSE, !.tally.moved = 0, !.tally.adpcm = FALSE], FALSE)
  IN  [off EXCEPT !.sb.freq = DefaultFreq, !.sb.stereo = FALSE]

\* sb16_dsp_write, port 6: 1 then 0 resets; "panic" at once.
WriteReset ==
  \E val \in {"zero", "one", "other", "panic", "probe"} :
    Become(CASE val = "one"   -> [World EXCEPT !.sb.v2x6 = 1]
             [] val = "other" -> [World EXCEPT !.sb.v2x6 = 0]
             [] val = "panic" -> Reset(World)
             [] val = "probe" -> [Reset(Out(World, 1)) EXCEPT !.sb.v2x6 = 2]
             [] val = "zero"  -> [(IF sb.v2x6 = 1 THEN Reset(World) ELSE World) EXCEPT !.sb.v2x6 = 0])

\* sb16_dsp_read: ports 0xa, 0xe and 0xf.
ReadDsp ==
  /\ sb.out > 0
  /\ Become([World EXCEPT !.sb.out = @ - 1])

Ack(width) ==
  /\ width \in sb.status
  /\ Become(Lower([World EXCEPT !.sb.status = @ \ {width}]))

\* sb16_mixer_write_datab: the 8-bit stereo switch, reset_mixer included, and the interrupt
\* number, which leaves the old line as it is.
WriteMixer == \E stereo \in BOOLEAN : Become([World EXCEPT !.sb.mix_stereo = stereo])

MoveIrq ==
  \E irq \in {5, 7} \ {sb.irq} :
     Become([World EXCEPT !.sb.irq = irq, !.tally.stray = @ \cup (sb.lines \ {irq})])

(***************************************************************************)
(* The ports of the controllers, and the mixer's callback.                 *)
(***************************************************************************)
ProgramChannel(c) ==
  \/ \E reg \in {"addr", "count"}, byte \in 0 .. DmaByte - 1 :
       Become([World EXCEPT !.dma[c] = WriteChan(@, reg, byte), !.tally.steady = FALSE, !.tally.moved = 0])
  \/ \E d \in {ReadChan(dma[c]), ClearFlipFlop(dma[c]), MasterReset(dma[c]), ReadStatus(dma[c])} :
       Become([World EXCEPT !.dma[c] = d])

\* These end in i8257_dma_run.
MaskChannel(c) ==
  \E on \in BOOLEAN :
    \/ Become(DmaRun([World EXCEPT !.dma[c] = SetMask(@, on)], c))
    \/ Become(DmaRun([World EXCEPT !.dma[c] = Request(@, on), !.tally.steady = FALSE, !.tally.moved = 0], c))

\* pc_step, builds with the periodic i8257_dma_run.
DmaStep(c) == Become(DmaRun(World, c))

\* resample_*: input consumed for olen output samples, in closed form; the loops do not
\* depend on the common divisor they first remove from the rates.
Resampled(ilen, olen, stereo, freq) ==
  LET frames == IF stereo THEN ilen \div 2 ELSE ilen
      input  == frames * OutRate
      output == freq * (olen \div 2)
      ticks  == CASE freq < 0 \/ olen < 2 -> 0
                  [] freq = 0 -> input
                  [] OTHER -> AtMost(input, output)
  IN  Times2(ticks \div OutRate, stereo)

\* sb16_audio_callback; signed bytes are a "bad format" and are thrown away.
AudioCallback ==
  \E free \in Frees :
    LET bad  == sb.bits = 8 /\ sb.signed
        used == IF sb.bits = 16 THEN 2 * Resampled(sb.fill \div 2, free \div 2, sb.stereo, sb.freq)
                                ELSE Resampled(sb.fill, free \div 2, sb.stereo, sb.freq)
    IN  Become([World EXCEPT !.sb.free = free,
                             !.sb.fill = CASE ~sb.active -> @ [] bad -> 0 [] OTHER -> @ - used])

\* Guests.  "dsp" tries the commands and registers that do not play.  Drivers write a command's
\* bytes one after the other: "play8" plays bytes and does anything else at any time; "play16"
\* and "single" program their channel between transfers and may reset the card at any time;
\* "switch" goes from bytes to words as it likes, "rate" also sets the rate.
CommandsOf(guest) ==
  CASE guest = "dsp" -> Commands \ {"bytes", "words", "dma8", "auto8", "single8", "block", "continue"}
    [] guest = "play8" -> {"auto8", "block", "halt", "continue"}
    [] guest = "play16" -> {"words", "exit_auto"}
    [] guest = "single" -> {"dma8", "single8"}
    [] guest = "switch" -> {"bytes", "words", "halt"}
    [] guest = "rate" -> {"dma8", "words", "freq"}

ChannelsOf(guest) ==
  CASE guest \in {"play8", "single"} -> {"low"} [] guest = "play16" -> {"high"}
    [] guest \in {"switch", "rate"} -> Controllers [] OTHER -> {}

SoundNext(guest) ==
  /\ guest \in {"dsp", "play8", "play16", "single", "switch", "rate"}
  /\ \/ WriteDsp(CommandsOf(guest))
     \/ \E c \in ChannelsOf(guest) : DmaStep(c)
     \/ guest # "dsp" /\ AudioCallback
     \/ \E width \in {8, 16} : (guest \notin {"dsp", "switch", "rate"} => sb.needed = 0) /\ Ack(width)
     \/ /\ sb.needed = 0
        /\ guest = "play8" \/ (guest \in {"play16", "single"} /\ ~sb.running)
        /\ \E c \in ChannelsOf(guest) : ProgramChannel(c)
     \/ guest = "dsp" /\ (WriteReset \/ ReadDsp \/ MoveIrq)
     \/ guest = "play8" /\ sb.needed = 0 /\ WriteMixer
     \/ guest = "single" /\ MaskChannel("low")
     \/ guest \in {"play16", "single"} /\ Become(Reset(World))

\* Any guest: every port, at any time.
SbNext ==
  \/ WriteDsp(Commands) \/ WriteReset \/ ReadDsp \/ Ack(8) \/ Ack(16) \/ WriteMixer \/ MoveIrq
  \/ \E c \in Controllers : ProgramChannel(c) \/ MaskChannel(c) \/ DmaStep(c)
  \/ AudioCallback

SbSpec == SbInit /\ [][SbNext]_sbVars

(***************************************************************************)
(* Properties.                                                             *)
(***************************************************************************)
\* SB_read_DMA, write_audio, sb16_audio_callback: a transfer whose registers are left alone
\* is accounted for twice and the accounts agree: the position the guest reads from the DMA
\* controller and the bytes left until the interrupt both follow from the bytes moved, a
\* single-cycle transfer never takes bytes past its block, and the ring never overflows or
\* runs below empty, whatever the mixer asks for and when.
TransferAccounted ==
  /\ sb.fill \in 0 .. Ring
  /\ ~tally.over
  /\ tally.steady =>
       /\ sb.left = sb.block - (tally.moved % sb.block)
       /\ dma[Use(sb)].now = tally.moved % DmaLength(dma[Use(sb)], Use(sb))

\* sb16_dsp_write, command, complete: the DSP waits for exactly the bytes its command needs,
\* whatever interleaves with them: no argument is taken for a command or the reverse, until
\* an ADPCM command is used.  SB_read_DMA, sb16_dsp_read: a line is up only with a cause the
\* guest can acknowledge, so that the next block's interrupt is an edge; the exceptions are a
\* line raised by the silence command and one left behind when the card is moved to another.
CardInStep ==
  /\ ~tally.adpcm => IF sb.needed = 0 THEN sb.index = 0 ELSE sb.index < sb.needed
  /\ sb.lines \subseteq tally.stray \cup (IF sb.status = {} THEN {} ELSE {sb.irq})
==============================================================================
