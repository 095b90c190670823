-------------------------------- MODULE PcMisc -------------------------------
(***************************************************************************)
(* The small devices of misc.c: the UART, the CMOS clock's periodic        *)
(* interrupt, and the link by which the BIOS reads and writes floppy       *)
(* images.                                                                 *)
(*                                                                         *)
(* The clock is the calculator's: a 32-bit count of microseconds scaled    *)
(* to 32768 Hz, so it falls back to 0 after RtcWrap ticks and never uses   *)
(* the upper part of its own 32 bits.                                      *)
(***************************************************************************)
EXTENDS Integers, FiniteSets

CONSTANTS
  RtcWrap,      \* ticks until get_uticks wraps
  RtcPeriods,   \* periods register A selects, 0: none
  RtcGap,       \* bound: ticks between two calls of cmos_update_irq
  FdSectors,    \* sectors of a floppy image
  FdCounts,     \* sectors of one command
  MaxTyped      \* bound: bytes waiting at the host's terminal

ASSUME MiscAssumption ==
  /\ RtcWrap \in Nat \ {0} /\ RtcPeriods \subseteq Nat /\ RtcGap \in Nat
  /\ FdSectors \in Nat /\ FdCounts \subseteq Nat /\ MaxTyped \in Nat

VARIABLES
  uart,         \* u8250
  typed,        \* bytes at the terminal
  rtc,          \* CMOS registers A and B, irq_timeout, irq_period, the clock
  link,         \* EMULINK
  floppy        \* FILE of each drive: open, size, position

miscVars == <<uart, typed, rtc, link, floppy>>

Drives == {0, 1}

MiscInit ==
  /\ uart = [dlab |-> FALSE, ier |-> {}, ioready |-> {}, line |-> FALSE]
  /\ typed = 0
  /\ rtc = [reg_a |-> 2, pie |-> FALSE, period |-> 0, timeout |-> 0, now |-> 0, lap |-> FALSE]
  /\ link = [cmd |-> "none", argi |-> 0, drive |-> 0, lba |-> 0, count |-> 0, left |-> 0,
             status |-> 0, swapped |-> FALSE]
  /\ floppy = [i \in Drives |-> [open |-> FALSE, size |-> 0, pos |-> 0]]

(***************************************************************************)
(* The UART.                                                               *)
(***************************************************************************)
\* u8250_update_interrupts.
UpdateInterrupts(u) == [u EXCEPT !.line = u.ier \cap u.ioready # {}]

\* u8250_reg_read: only the data register changes anything, and not behind DLAB.
UartRead ==
  /\ ~uart.dlab
  /\ uart' = UpdateInterrupts([uart EXCEPT !.ioready = @ \ {"rx"}])
  /\ UNCHANGED <<typed, rtc, link, floppy>>

\* u8250_reg_write: interrupt enable, line control.
UartWrite ==
  /\ \/ /\ ~uart.dlab
        /\ \E ier \in SUBSET {"rx", "tx"} :
             uart' = UpdateInterrupts(
               [uart EXCEPT !.ier = ier,
                            !.ioready = (@ \ {"tx"}) \cup (ier \cap {"tx"})])
     \/ \E dlab \in BOOLEAN : uart' = [uart EXCEPT !.dlab = dlab]
  /\ UNCHANGED <<typed, rtc, link, floppy>>

HostType ==
  /\ typed < MaxTyped
  /\ typed' = typed + 1
  /\ UNCHANGED <<uart, rtc, link, floppy>>

\* u8250_update: one byte at a time, when the last one has been read.
UartUpdate ==
  /\ typed > 0 /\ "rx" \notin uart.ioready
  /\ typed' = typed - 1
  /\ uart' = UpdateInterrupts([uart EXCEPT !.ioready = @ \cup {"rx"}])
  /\ UNCHANGED <<rtc, link, floppy>>

(***************************************************************************)
(* The clock.                                                              *)
(***************************************************************************)
\* Mutant: the timeout is counted from the last one, not from now.
NextTimeoutLate(now, period) == IF period = 0 THEN 0 ELSE ((now + 2 * period) \div period) * period

\* (now + period) & ~(period - 1), for a period that is a power of two or 0.
NextTimeout(now, period) == IF period = 0 THEN 0 ELSE ((now + period) \div period) * period

\* cmos_ioport_write to register A or B, with cmos_update_timer: no periodic rate, or no
\* interrupts, leaves the period as it was.
CmosWrite ==
  /\ \E a \in RtcPeriods, pie \in BOOLEAN :
       /\ a = rtc.reg_a \/ pie = rtc.pie
       /\ rtc' = IF pie /\ a # 0
                 THEN [rtc EXCEPT !.reg_a = a, !.pie = pie, !.period = a, !.lap = FALSE,
                                  !.timeout = NextTimeout(rtc.now, a)]
                 ELSE [rtc EXCEPT !.reg_a = a, !.pie = pie]
  /\ UNCHANGED <<uart, typed, link, floppy>>

\* cmos_get_timer and cmos_update_irq: missed periods are not replayed.
CmosUpdateIrq ==
  /\ \E gap \in 0 .. RtcGap :
       LET now   == (rtc.now + gap) % RtcWrap
           lap   == rtc.lap \/ rtc.now + gap >= RtcWrap
           fires == rtc.pie /\ now >= rtc.timeout
       IN  rtc' = [rtc EXCEPT !.now = now, !.lap = lap,
                              !.timeout = IF fires THEN NextTimeout(now, rtc.period) ELSE @]
  /\ UNCHANGED <<uart, typed, link, floppy>>

(***************************************************************************)
(* The floppy link.                                                        *)
(***************************************************************************)
\* emulink_attach_floppy, at start and from the menu: the new image is left at its end, and
\* is used even if no format has its size.
AttachFloppy ==
  /\ \E i \in Drives, f \in {[open |-> FALSE, size |-> 0, pos |-> 0],
                             [open |-> TRUE, size |-> 1, pos |-> 1]} :
       /\ floppy' = [floppy EXCEPT ![i] = f]
       /\ link' = [link EXCEPT !.swapped = @ \/ i = link.drive]
  /\ UNCHANGED <<uart, typed, rtc>>

\* emulink_cmd_write with exec_cmd: identify and list answer at once.
LinkCommand ==
  /\ \E cmd \in {"read", "write"} : link' = [link EXCEPT !.cmd = cmd, !.argi = 0]
  /\ UNCHANGED <<uart, typed, rtc, floppy>>

LinkAtOnce ==
  /\ link' = [link EXCEPT !.cmd = "none", !.argi = 0, !.status = 0]
  /\ UNCHANGED <<uart, typed, rtc, floppy>>

\* Mutant: the position is left where the last transfer ended.
SeekNot(e) ==
  IF ~floppy[e.drive].open \/ e.lba < 0
  THEN /\ link' = [e EXCEPT !.status = -1, !.cmd = "none"]
       /\ UNCHANGED floppy
  ELSE /\ link' = [e EXCEPT !.status = 0, !.left = e.count, !.swapped = FALSE]
       /\ UNCHANGED floppy

\* exec_cmd of a transfer, its arguments complete: the drive is looked up and positioned.
Seek(e) ==
  IF ~floppy[e.drive].open \/ e.lba < 0
  THEN /\ link' = [e EXCEPT !.status = -1, !.cmd = "none"]
       /\ UNCHANGED floppy
  ELSE /\ link' = [e EXCEPT !.status = 0, !.left = e.count, !.swapped = FALSE]
       /\ floppy' = [floppy EXCEPT ![e.drive].pos = e.lba]

\* emulink_data_write; a fourth word is taken too, and undoes a transfer.
LinkArgument ==
  /\ link.argi < 4
  /\ LET e == [link EXCEPT !.argi = @ + 1] IN
     \/ /\ link.argi = 0
        /\ \E i \in Drives : link' = [e EXCEPT !.drive = i]
        /\ UNCHANGED floppy
     \/ /\ link.argi = 1
        /\ \E lba \in -1 .. FdSectors - 1 : link' = [e EXCEPT !.lba = lba]
        /\ UNCHANGED floppy
     \/ /\ link.argi = 2
        /\ \E n \in FdCounts :
             IF link.cmd = "none" THEN link' = [e EXCEPT !.count = n] /\ UNCHANGED floppy
                                  ELSE Seek([e EXCEPT !.count = n])
     \/ /\ link.argi = 3
        /\ link' = e
        /\ UNCHANGED floppy
  /\ UNCHANGED <<uart, typed, rtc>>

Refuse(e) == [e EXCEPT !.cmd = "none", !.status = -1]
Moved(e, n) == [e EXCEPT !.left = @ - n, !.cmd = IF e.left = n THEN "none" ELSE @]

\* emulink_data_read_string: a short read ends the command, at the end of the image.
ReadString(n) ==
  LET f  == floppy[link.drive]
      ok == link.cmd = "read" /\ f.open /\ link.argi = 3 /\ n <= link.left
  IN  /\ link' = IF ok /\ f.pos + n <= f.size THEN Moved(link, n) ELSE Refuse(link)
      /\ floppy' = IF ok /\ f.pos < f.size
                   THEN [floppy EXCEPT ![link.drive].pos = IF @ + n < f.size THEN @ + n ELSE f.size]
                   ELSE floppy
      /\ UNCHANGED <<uart, typed, rtc>>

\* emulink_data_write_string: writing past the end makes the image longer.
WriteString(n) ==
  LET f  == floppy[link.drive]
      ok == link.cmd = "write" /\ f.open /\ link.argi = 3 /\ n <= link.left
  IN  /\ ok => f.pos + n <= FdSectors + 1       \* bound: growth of an image
      /\ link' = IF ok THEN Moved(link, n) ELSE Refuse(link)
      /\ floppy' = IF ok THEN [floppy EXCEPT ![link.drive].pos = @ + n,
                                             ![link.drive].size = IF f.pos + n > @ THEN f.pos + n ELSE @]
                         ELSE floppy
      /\ UNCHANGED <<uart, typed, rtc>>

SerialNext == UartRead \/ UartWrite \/ HostType \/ UartUpdate
ClockNext  == CmosWrite \/ CmosUpdateIrq
FloppyNext ==
  \/ AttachFloppy \/ LinkCommand \/ LinkAtOnce \/ LinkArgument
  \/ \E n \in FdCounts : ReadString(n) \/ WriteString(n)

\* All three at once.
MiscSpec == MiscInit /\ [][SerialNext \/ ClockNext \/ FloppyNext]_miscVars

(***************************************************************************)
(* Properties.                                                             *)
(***************************************************************************)
\* cmos_update_timer, cmos_update_irq: while the periodic interrupt is on, the next one is at
\* most a period away, however late the last call was and whatever rate was set before; this
\* lasts until the microsecond clock wraps, when the timeout is left in the past lap.
RtcPrompt ==
  rtc.pie /\ rtc.reg_a # 0 /\ ~rtc.lap =>
    rtc.now < rtc.timeout /\ rtc.timeout <= rtc.now + rtc.reg_a

\* emulink_data_read_string, emulink_data_write_string: between any commands, refusals and
\* changes of the other drive's image, each string continues a transfer at the sector after
\* the last one moved; only an image changed in mid-transfer is written at another place.
FloppyInPlace ==
  link.cmd # "none" /\ link.argi = 3 /\ ~link.swapped =>
    /\ link.left \in 0 .. link.count
    /\ floppy[link.drive].pos = link.lba + (link.count - link.left)
==============================================================================
