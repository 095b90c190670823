------------------------------- MODULE Pit8254 -------------------------------
(***************************************************************************)
(* The interval timer (i8254.c) and the PC speaker on its channel 2        *)
(* (pcspk.c).                                                              *)
(*                                                                         *)
(* The timer has no events of its own: every access computes the count     *)
(* from a microsecond clock that wraps, and pc_step polls channel 0 for    *)
(* interrupts that have become due.  count_load_time is represented by the *)
(* time that has really passed since, age; the code sees it modulo Wrap.   *)
(***************************************************************************)
EXTENDS Integers

CONSTANTS
  Wrap,        \* the range of the clock (2^32) and of the counts computed from it
  FreqNum, FreqDen,    \* counts per microsecond (PIT_FREQ / 1000000)
  Byte,        \* values of a byte (256)
  PitModes,    \* the modes the guest programs
  PitAccesses, \* and the access modes: low byte, high byte, both
  MaxGap,      \* the longest time between two polls
  MaxAge,      \* bound: the age of channel 0's load saturates there; the others' stays
  SpkBuf, SpkRate, SpkFreq, SpkMinCount   \* buffer, sample rate, timer frequency, highest pitch

\* A load is redone at the first interrupt after half the clock's range: the slowest rate and
\* the longest gap between polls still end before the counts computed from the clock wrap.
ASSUME PitAssumption ==
  /\ Wrap \in Nat \ {0} /\ FreqDen \in Nat \ {0} /\ FreqNum \in Nat /\ FreqNum >= FreqDen
  /\ Byte \in Nat \ {0} /\ MaxGap \in Nat /\ MaxAge \in Nat
  /\ (Wrap \div 2) * FreqNum + (Byte * Byte) * FreqDen + MaxGap * FreqNum <= Wrap * FreqDen
  /\ PitModes \subseteq 0 .. 5 /\ PitAccesses \subseteq 1 .. 3
  /\ SpkBuf \in Nat /\ SpkRate \in Nat \ {0} /\ SpkMinCount \in Nat
  /\ SpkFreq \in Nat \ {0} /\ SpkFreq % 2 = 0

VARIABLES
  ch,          \* the three channels
  since,       \* time since the last poll
  shots,       \* interrupts of channel 0 since its count was loaded (up to 2)
  spk          \* the speaker

pitVars == <<ch, since, shots, spk>>

PitChannels == 0 .. 2
Periodic == {2, 3}
MaxCount == Byte * Byte

\* (PCSPK_BUF_LEN * PIT_FREQ / m * m / (PIT_FREQ >> 1) + 1) >> 1: whole waves only.
Samples(count) ==
  IF count = 0 THEN SpkBuf
  ELSE LET m == SpkRate * count
       IN  ((((SpkBuf * SpkFreq) \div m) * m) \div (SpkFreq \div 2) + 1) \div 2

\* Counts since the load, as the code computes them in 32 bits, and really.
Elapsed(s) == (((s.age % Wrap) * FreqNum) \div FreqDen) % Wrap
TrueElapsed(s) == (s.age * FreqNum) \div FreqDen

PitGetCount(s) ==
  LET d == Elapsed(s) IN
  CASE s.mode \in {0, 1, 4, 5} -> (s.count - d) % MaxCount
    [] s.mode = 3 -> s.count - (((2 * d) % Wrap) % s.count)
    [] OTHER -> s.count - (d % s.count)

PitGetOut(s) ==
  LET d == Elapsed(s) IN
  CASE s.mode = 1 -> d < s.count
    [] s.mode = 2 -> d % s.count = 0 /\ d # 0
    [] s.mode = 3 -> d % s.count < (s.count + 1) \div 2
    [] s.mode \in {4, 5} -> d = s.count
    [] OTHER -> d >= s.count

\* Mutant: a new count keeps the interrupts counted for the old one.
PitLoadCountKeepsLast(s, val) ==
  [s EXCEPT !.count = IF val = 0 THEN MaxCount ELSE val, !.age = 0, !.clean = TRUE]

\* pit_load_count; "clean" notes that the count was loaded after the control word.
PitLoadCount(s, val) ==
  [s EXCEPT !.count = IF val = 0 THEN MaxCount ELSE val,
            !.age = 0, !.last = 0, !.clean = TRUE]

PitLatchCount(s) ==
  IF s.count_latched # 0 THEN s
  ELSE [s EXCEPT !.latched_count = PitGetCount(s) % MaxCount, !.count_latched = s.rw_mode]

PitInit ==
  /\ ch = [c \in PitChannels |->
             [count |-> MaxCount, age |-> 0, last |-> 0, mode |-> 3, gate |-> c # 2,
              rw_mode |-> 0, read_state |-> 0, write_state |-> 0, write_latch |-> 0,
              latched_count |-> 0, count_latched |-> 0, status_latched |-> FALSE,
              status |-> FALSE, clean |-> TRUE]]
  /\ since = 0
  /\ shots = 0
  /\ spk = [data_on |-> FALSE, active_out |-> FALSE, pit_count |-> 0, samples |-> 0, play_pos |-> 0]

(***************************************************************************)
(* Ports 0x40-0x43.                                                        *)
(***************************************************************************)
\* A control word with an access mode; it neither stops nor reloads the channel.
PitControl(c, access, mode) ==
  /\ ch' = [ch EXCEPT ![c].rw_mode = access, ![c].read_state = access,
                      ![c].write_state = access, ![c].mode = mode, ![c].clean = FALSE]
  /\ UNCHANGED <<since, shots, spk>>

PitLatchStatus(s) ==
  IF s.status_latched THEN s ELSE [s EXCEPT !.status = PitGetOut(s), !.status_latched = TRUE]

\* The latch command of one channel (access 0), or read-back of several.
PitLatch(cs, count, status) ==
  /\ ch' = [c \in PitChannels |->
              IF c \notin cs THEN ch[c]
              ELSE LET s == IF count THEN PitLatchCount(ch[c]) ELSE ch[c]
                   IN  IF status THEN PitLatchStatus(s) ELSE s]
  /\ UNCHANGED <<since, shots, spk>>

PitWrite(c, val) ==
  LET s == ch[c] IN
  /\ ch' = [ch EXCEPT ![c] =
       CASE s.write_state = 2 -> PitLoadCount(s, val * Byte)
         [] s.write_state = 3 -> [s EXCEPT !.write_latch = val, !.write_state = 4]
         [] s.write_state = 4 ->
              [PitLoadCount(s, s.write_latch + val * Byte) EXCEPT !.write_state = 3]
         [] OTHER -> PitLoadCount(s, val)]
  /\ shots' = IF c = 0 /\ s.write_state # 3 THEN 0 ELSE shots
  /\ UNCHANGED <<since, spk>>

\* A read takes the latched status first, then the latched count, then the count.
PitRead(c) ==
  LET s == ch[c] IN
  /\ ch' = [ch EXCEPT ![c] =
       CASE s.status_latched -> [s EXCEPT !.status_latched = FALSE]
         [] ~s.status_latched /\ s.count_latched = 3 -> [s EXCEPT !.count_latched = 2]
         [] ~s.status_latched /\ s.count_latched \in {1, 2} -> [s EXCEPT !.count_latched = 0]
         [] OTHER -> [s EXCEPT !.read_state = CASE @ = 3 -> 4 [] @ = 4 -> 3 [] OTHER -> @]]
  /\ UNCHANGED <<since, shots, spk>>

(***************************************************************************)
(* pc_step polls channel 0.                                                *)
(***************************************************************************)
Pending(s) == ((Elapsed(s) - (Elapsed(s) % s.count)) - s.last) % Wrap

PitFires(s) ==
  IF s.mode \in Periodic THEN Pending(s) >= s.count
                         ELSE s.last = 0 /\ Elapsed(s) >= s.count

\* After firing: the due count is noted; a load older than half the clock's range is redone.
PitFired(s) ==
  LET due == Elapsed(s) - (Elapsed(s) % s.count) IN
  CASE s.mode \notin Periodic -> [s EXCEPT !.last = s.count]
    [] s.mode \in Periodic /\ s.age % Wrap > Wrap \div 2 ->
         [PitLoadCount(s, s.count) EXCEPT !.clean = s.clean]
    [] OTHER -> [s EXCEPT !.last = due]

PitUpdateIrq ==
  /\ ch' = [ch EXCEPT ![0] = IF PitFires(@) THEN PitFired(@) ELSE @]
  /\ shots' = IF PitFires(ch[0]) /\ shots < 2 THEN shots + 1 ELSE shots
  /\ since' = 0
  /\ UNCHANGED spk

\* i8254_rebase, when the frontend starts the guest's clock.
PitRebase ==
  /\ ch' = [c \in PitChannels |-> [ch[c] EXCEPT !.age = 0, !.last = 0]]
  /\ shots' = 0
  /\ UNCHANGED <<since, spk>>

\* Time passes: get_uticks.
PitTime ==
  /\ since < MaxGap
  /\ ch' = [c \in PitChannels |-> [ch[c] EXCEPT !.age = IF c = 0 /\ @ < MaxAge THEN @ + 1 ELSE @]]
  /\ since' = since + 1
  /\ UNCHANGED <<shots, spk>>

(***************************************************************************)
(* The speaker: port 0x61 and the audio callback.                          *)
(***************************************************************************)
SpkWrite(gate, data) ==
  /\ ch' = [ch EXCEPT ![2].gate = gate,
                      ![2].age = IF ch[2].mode \in {1, 2, 3, 5} /\ gate /\ ~ch[2].gate
                                 THEN 0 ELSE @]
  /\ spk' = [spk EXCEPT !.data_on = data,
                        !.play_pos = IF gate THEN 0 ELSE @,
                        !.active_out = IF (gate /\ spk.data_on) = (gate /\ data)
                                       THEN @ ELSE gate /\ data]
  /\ UNCHANGED <<since, shots>>

\* pcspk_callback for "free" samples: a change of pitch makes a new wave and starts it
\* over; copying goes round the wave.
SpkTurn(free) ==
  LET n    == IF ch[2].count < SpkMinCount THEN 0 ELSE ch[2].count
      wave == IF spk.pit_count = n THEN spk
              ELSE [spk EXCEPT !.pit_count = n, !.play_pos = 0, !.samples = Samples(n)]
  IN  [wave EXCEPT !.play_pos = IF wave.samples = 0 THEN 0 ELSE (@ + free) % wave.samples]

SpkCallback(free) ==
  /\ spk.active_out
  /\ ch[2].mode = 3 /\ spk.data_on
  /\ spk' = SpkTurn(free)
  /\ UNCHANGED <<ch, since, shots>>

(***************************************************************************)
(* What the guest does with a channel, and everything else.                *)
(***************************************************************************)
PitProgram(c) ==
  \/ \E a \in PitAccesses, m \in PitModes : PitControl(c, a, m)
  \/ \E val \in 0 .. Byte - 1 : PitWrite(c, val)

\* The guest's timer interrupt: it never reads channel 0's count.
TimerNext == PitProgram(0) \/ PitUpdateIrq \/ PitRebase \/ PitTime

\* Channel 2 is programmed, gated and read back, as a guest measures time with it,
MeasureNext ==
  \/ PitProgram(2)
  \/ \E count, status \in BOOLEAN : PitLatch({2}, count, status)
  \/ PitRead(2)
  \/ \E gate \in BOOLEAN : SpkWrite(gate, FALSE)

\* or programmed and heard.
SpeakerNext ==
  \/ PitProgram(2)
  \/ \E gate, data \in BOOLEAN : SpkWrite(gate, data)
  \/ \E free \in 1 .. SpkBuf : SpkCallback(free)

\* Any guest: every channel and the speaker, between the polls.
PitNext ==
  \/ \E c \in PitChannels : PitProgram(c) \/ PitRead(c)
  \/ \E cs \in SUBSET PitChannels, count, status \in BOOLEAN : PitLatch(cs, count, status)
  \/ \E gate, data \in BOOLEAN : SpkWrite(gate, data)
  \/ \E free \in 1 .. SpkBuf : SpkCallback(free)
  \/ PitUpdateIrq \/ PitRebase \/ PitTime

PitSpec == PitInit /\ [][PitNext]_pitVars

(***************************************************************************)
(* Properties.                                                             *)
(***************************************************************************)
\* i8254_update_irq: a channel programmed in the usual order (control word, count) never
\* interrupts early, a poll leaves no interrupt that is due, and a one-shot mode interrupts
\* exactly once per load, however the wrapping clock and the redone load fall.  And
\* pcspk_callback: the next sample copied lies in the wave, and the wave in its buffer.
TicksExact ==
  /\ LET s == ch[0] IN
     s.clean =>
       /\ s.mode \in Periodic =>
            /\ s.last <= TrueElapsed(s)
            /\ since = 0 => TrueElapsed(s) - s.last < s.count
       /\ s.mode \notin Periodic =>
            /\ shots = (IF s.last = 0 THEN 0 ELSE 1)
            /\ shots = 1 => TrueElapsed(s) >= s.count
  /\ spk.samples <= SpkBuf
  /\ spk.play_pos < spk.samples \/ spk.play_pos = 0
==============================================================================
