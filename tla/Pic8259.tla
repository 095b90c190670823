------------------------------ MODULE Pic8259 -------------------------------
(***************************************************************************)
(* The two cascaded 8259 interrupt controllers (i8259.c) and the CPU's     *)
(* INTR latch they raise (cpui386_raise_irq, cpui386_step in i386.c).      *)
(*                                                                         *)
(* Devices drive the request lines, the guest programs the controllers     *)
(* through the ports, and the CPU acknowledges between two slices whenever *)
(* INTR is latched and interrupts are on.  INTR is a latch: the            *)
(* controllers only ever raise it, and the acknowledge clears it, so what  *)
(* was raised may be gone when the CPU looks.                              *)
(*                                                                         *)
(* 8-bit registers are sets of line numbers, flags are 0 or 1.  The vector *)
(* base and the register a port read selects are data nobody branches on   *)
(* and are left out: an interrupt is the pair <<controller, line>>.        *)
(***************************************************************************)
EXTENDS Integers, FiniteSets

CONSTANTS
  Lines,      \* Lines[p]: the lines of controller p that devices drive
  Commands    \* <<p, kind>>: what the guest writes to the ports of controller p

Pics == {0, 1}    \* 0 is the master, 1 the slave
Irqs == 0 .. 7
Flag == {0, 1}

Kinds == {"icw1", "imr", "icw2", "icw3", "icw4", "sfnm", "poll", "special",
          "rotate_aeoi", "eoi", "specific_eoi", "set_priority", "rotate_eoi"}

ASSUME PicAssumption ==
  /\ Lines \in [Pics -> SUBSET Irqs]
  /\ 2 \notin Lines[0]
  /\ Commands \subseteq Pics \X Kinds

VARIABLES
  pic,      \* the two controllers
  intr,     \* cpu->intr: "high" once raised, until acknowledged
  iflag,    \* the CPU's IF
  cpu,      \* "run", or "halt" after HLT
  vector    \* what the last acknowledge delivered

vars == <<pic, intr, iflag, cpu, vector>>

Spurious      == <<0, 8>>    \* line 7 without a request
SlaveSpurious == <<1, 8>>
NoVector      == <<0, 9>>

PicState ==
  [last_irr : SUBSET Irqs, irr : SUBSET Irqs, imr : SUBSET Irqs, isr : SUBSET Irqs,
   priority_add : Irqs, poll : Flag, special_mask : Flag, init_state : 0 .. 3,
   auto_eoi : Flag, rotate : Flag, sfnm : Flag, init4 : Flag, single : Flag]

TypeOK ==
  /\ pic \in [Pics -> PicState]
  /\ intr \in {"low", "high"}
  /\ iflag \in Flag
  /\ cpu \in {"run", "halt"}
  /\ vector \in Pics \X (0 .. 9)

\* pic_reset, and what ICW1 sets after it.
ResetTo(state, ic4, sngl) ==
  [last_irr |-> {}, irr |-> {}, imr |-> {}, isr |-> {}, priority_add |-> 0,
   poll |-> 0, special_mask |-> 0, init_state |-> state, auto_eoi |-> 0, rotate |-> 0,
   sfnm |-> 0, init4 |-> ic4, single |-> sngl]

Reset == ResetTo(0, 0, 0)

Init ==
  /\ pic = [p \in Pics |-> Reset]
  /\ intr = "low"
  /\ iflag = 0
  /\ cpu = "run"
  /\ vector = NoVector

(***************************************************************************)
(* Priorities                                                              *)
(***************************************************************************)
\* get_priority: the rank of a line, 0 the highest.
Rank(s, i) == (i - s.priority_add) % 8

\* Line i is the highest of mask.
Highest(s, mask, i) == i \in mask /\ \A j \in mask : Rank(s, i) <= Rank(s, j)

\* The lines in service that hold back others of equal or lower priority.
Blocking(p, s) ==
  {i \in s.isr : /\ s.special_mask = 1 => i \notin s.imr
                 /\ s.sfnm = 1 /\ p = 0 => i # 2}

\* pic_get_irq: line i is the one controller p asks for.
Wants(p, s, i) ==
  /\ Highest(s, s.irr \ s.imr, i)
  /\ \A j \in Blocking(p, s) : Rank(s, i) < Rank(s, j)

Active(p, s) == \E i \in Irqs : Wants(p, s, i)

\* Mutant: a request goes away with its line.
SetLine_Level(s, i, level) ==
  IF level = 1
  THEN [s EXCEPT !.irr = @ \cup {i}, !.last_irr = @ \cup {i}]
  ELSE [s EXCEPT !.irr = @ \ {i}, !.last_irr = @ \ {i}]

\* pic_set_irq1: only a rising edge makes a request.
SetLine(s, i, level) ==
  IF level = 1
  THEN [s EXCEPT !.irr = IF i \in s.last_irr THEN @ ELSE @ \cup {i},
                 !.last_irr = @ \cup {i}]
  ELSE [s EXCEPT !.last_irr = @ \ {i}]

\* Mutant: a slave that wants service is not passed on to the master.
Cascade_Missing(ps) == ps

\* The slave's request pulses line 2 of the master.
Cascade(ps) ==
  IF Active(1, ps[1])
  THEN [ps EXCEPT ![0] = SetLine(SetLine(ps[0], 2, 1), 2, 0)]
  ELSE ps

\* pic_update_irq, with the INTR latch at line before it.
Update(ps, line) ==
  /\ pic' = Cascade(ps)
  /\ intr' = IF Active(0, Cascade(ps)[0]) THEN "high" ELSE line

(***************************************************************************)
(* The devices and the CPU                                                 *)
(***************************************************************************)
\* i8259_set_irq
SetIrq(p, i, level) ==
  /\ i \in Lines[p]
  /\ Update([pic EXCEPT ![p] = SetLine(pic[p], i, level)], intr)
  /\ UNCHANGED <<iflag, cpu, vector>>

\* Mutant: the request stays pending although it has been taken.
Intack_KeepsRequest(s, i) ==
  IF s.auto_eoi = 1
  THEN [s EXCEPT !.priority_add = IF s.rotate = 1 THEN (i + 1) % 8 ELSE @]
  ELSE [s EXCEPT !.isr = @ \cup {i}]

\* pic_intack
Intack(s, i) ==
  IF s.auto_eoi = 1
  THEN [s EXCEPT !.priority_add = IF s.rotate = 1 THEN (i + 1) % 8 ELSE @,
                 !.irr = @ \ {i}]
  ELSE [s EXCEPT !.isr = @ \cup {i}, !.irr = @ \ {i}]

Deliver(ps, v) == Update(ps, "low") /\ vector' = v

\* i8259_read_irq.  A request that is gone by now is answered with line 7.
ReadIrq ==
  \/ ~Active(0, pic[0]) /\ Deliver(pic, Spurious)
  \/ \E i \in Irqs \ {2} :
       Wants(0, pic[0], i) /\ Deliver([pic EXCEPT ![0] = Intack(@, i)], <<0, i>>)
  \/ /\ Wants(0, pic[0], 2)
     /\ ~Active(1, pic[1])
     /\ Deliver([pic EXCEPT ![0] = Intack(@, 2)], SlaveSpurious)
  \/ \E i \in Irqs :
       /\ Wants(0, pic[0], 2)
       /\ Wants(1, pic[1], i)
       /\ Deliver([pic EXCEPT ![0] = Intack(@, 2), ![1] = Intack(@, i)], <<1, i>>)

\* The head of cpui386_step: the latch is cleared before the controllers are
\* asked; an interrupt gate turns interrupts off, a trap gate does not.
Acknowledge ==
  /\ iflag = 1 /\ intr = "high"
  /\ ReadIrq
  /\ cpu' = "run"
  /\ iflag' \in Flag

Sti == cpu = "run" /\ iflag = 0 /\ iflag' = 1 /\ UNCHANGED <<pic, intr, cpu, vector>>
Cli == cpu = "run" /\ iflag = 1 /\ iflag' = 0 /\ UNCHANGED <<pic, intr, cpu, vector>>
Hlt == cpu = "run" /\ cpu' = "halt" /\ UNCHANGED <<pic, intr, iflag, vector>>

(***************************************************************************)
(* pic_ioport_write, by what the value written says                        *)
(***************************************************************************)
\* The guest writes to controller p; without a pic_update_irq.
Writes(p, kind, s) ==
  /\ cpu = "run"
  /\ <<p, kind>> \in Commands
  /\ pic' = [pic EXCEPT ![p] = s]
  /\ UNCHANGED <<intr, iflag, cpu, vector>>

\* The same with one.
WritesAndUpdates(p, kind, s) ==
  /\ cpu = "run"
  /\ <<p, kind>> \in Commands
  /\ Update([pic EXCEPT ![p] = s], intr)
  /\ UNCHANGED <<iflag, cpu, vector>>

Icw1(p) ==
  \E ic4, sngl \in Flag : Writes(p, "icw1", ResetTo(1, ic4, sngl))

\* The lines whose mask bits matter.
MaskLines(p) == Lines[p] \cup (IF p = 0 THEN {2} ELSE {})

\* Mutant: the mask is set without looking at what it uncovers.
WriteImr_NoUpdate(p) ==
  /\ pic[p].init_state = 0
  /\ \E mask \in SUBSET MaskLines(p) : Writes(p, "imr", [pic[p] EXCEPT !.imr = mask])

WriteImr(p) ==
  /\ pic[p].init_state = 0
  /\ \E mask \in SUBSET MaskLines(p) :
       WritesAndUpdates(p, "imr", [pic[p] EXCEPT !.imr = mask])

Icw2(p) ==
  /\ pic[p].init_state = 1
  /\ Writes(p, "icw2", [pic[p] EXCEPT !.init_state =
       IF pic[p].single = 1 THEN (IF pic[p].init4 = 1 THEN 3 ELSE 0) ELSE 2])

Icw3(p) ==
  /\ pic[p].init_state = 2
  /\ Writes(p, "icw3", [pic[p] EXCEPT !.init_state = IF pic[p].init4 = 1 THEN 3 ELSE 0])

\* ICW4 without special fully nested mode, and with it.
Icw4(p) ==
  /\ pic[p].init_state = 3
  /\ \E aeoi \in Flag :
       \/ Writes(p, "icw4", [pic[p] EXCEPT !.sfnm = 0, !.auto_eoi = aeoi, !.init_state = 0])
       \/ Writes(p, "sfnm", [pic[p] EXCEPT !.sfnm = 1, !.auto_eoi = aeoi, !.init_state = 0])

\* OCW3
WritePoll(p)    == Writes(p, "poll", [pic[p] EXCEPT !.poll = 1])
WriteSpecial(p) == \E on \in Flag : Writes(p, "special", [pic[p] EXCEPT !.special_mask = on])

\* OCW2
WriteRotate(p) == \E on \in Flag : Writes(p, "rotate_aeoi", [pic[p] EXCEPT !.rotate = on])

\* Mutant: the end of interrupt does not look for what it unblocks.
Eoi_NoUpdate(p) ==
  \E i \in Irqs : Highest(pic[p], pic[p].isr, i) /\ Writes(p, "eoi", [pic[p] EXCEPT !.isr = @ \ {i}])

Eoi(p) ==
  \E i \in Irqs :
    /\ Highest(pic[p], pic[p].isr, i)
    /\ \/ WritesAndUpdates(p, "eoi", [pic[p] EXCEPT !.isr = @ \ {i}])
       \/ WritesAndUpdates(p, "rotate_eoi",
            [pic[p] EXCEPT !.isr = @ \ {i}, !.priority_add = (i + 1) % 8])

SpecificEoi(p) ==
  \E i \in MaskLines(p) :
    \/ WritesAndUpdates(p, "specific_eoi", [pic[p] EXCEPT !.isr = @ \ {i}])
    \/ WritesAndUpdates(p, "rotate_eoi",
         [pic[p] EXCEPT !.isr = @ \ {i}, !.priority_add = (i + 1) % 8])

SetPriority(p) ==
  \E i \in Lines[p] :
    WritesAndUpdates(p, "set_priority", [pic[p] EXCEPT !.priority_add = (i + 1) % 8])

(***************************************************************************)
(* pic_ioport_read: only a read after a poll command changes anything.     *)
(***************************************************************************)
Drop(s, i) == [s EXCEPT !.irr = @ \ {i}, !.isr = @ \ {i}]

\* The state after the request i of controller p has been polled away.
Polled(p, i) ==
  LET taken == [pic EXCEPT ![p] = [Drop(pic[p], i) EXCEPT !.poll = 0]] IN
  IF p = 1 THEN [taken EXCEPT ![0] = Drop(pic[0], 2)] ELSE taken

PollRead(p) ==
  /\ cpu = "run"
  /\ pic[p].poll = 1
  /\ \/ \E i \in Irqs :
          /\ Wants(p, pic[p], i)
          /\ \/ (p = 1 \/ i # 2) /\ Update(Polled(p, i), intr)
             \/ p = 0 /\ i = 2 /\ pic' = Polled(p, i) /\ UNCHANGED intr
     \/ ~Active(p, pic[p]) /\ Update([pic EXCEPT ![p] = [pic[p] EXCEPT !.poll = 0]], intr)
  /\ UNCHANGED <<iflag, cpu, vector>>

Port(p) ==
  \/ Icw1(p) \/ WriteImr(p) \/ Icw2(p) \/ Icw3(p) \/ Icw4(p) \/ WritePoll(p)
  \/ WriteSpecial(p) \/ WriteRotate(p) \/ Eoi(p) \/ SpecificEoi(p) \/ SetPriority(p)
  \/ PollRead(p)

Device == \E p \in Pics, i \in Irqs, level \in Flag : SetIrq(p, i, level)

Next == Device \/ Acknowledge \/ Sti \/ Cli \/ Hlt \/ \E p \in Pics : Port(p)

Spec == Init /\ [][Next]_vars

\* pc_step comes back to cpui386_step for as long as the machine runs.
FairSpec == Spec /\ WF_vars(Acknowledge)

(***************************************************************************)
(* Properties                                                              *)
(***************************************************************************)
\* pic_update_irq "must be called every time the active irq may change": the
\* CPU is told whenever the master has something to deliver.
RaisedWhenActive == Active(0, pic[0]) => intr = "high"

\* A request the slave would deliver is pending at the master too, so it is
\* not forgotten there while other interrupts are taken and ended.
SlaveForwarded == Active(1, pic[1]) => 2 \in pic[0].irr

\* A guest that only ends interrupts, in order or by name, never gets one that
\* nobody requested: what raised INTR is still there when the CPU looks.
NeverSpurious == vector \notin {Spurious, SlaveSpurious}

\* The device requests, masked or not.
Requests == {r \in Pics \X Irqs : r[2] \in pic[r[1]].irr /\ r # <<0, 2>>}

\* Requests are only lost by being delivered: an acknowledge takes exactly the
\* request whose vector the CPU gets, out of both controllers, and a spurious
\* one takes none; programming the controllers, except for a new ICW1 or a
\* poll, takes none.
DeliveredOnce ==
  [][LET lost == Requests \ Requests' IN
     /\ Acknowledge => lost = {vector'} \ {Spurious, SlaveSpurious}
     /\ lost = {} \/ lost = {vector'}
          \/ \E p \in Pics : pic'[p].init_state = 1 \/ pic'[p].poll # pic[p].poll]_vars

\* A halted CPU with interrupts on runs again once the master has something to
\* deliver (cpui386_step takes the interrupt before it looks at halt).
HaltWakes == cpu = "halt" /\ iflag = 1 /\ Active(0, pic[0]) ~> cpu = "run"
==============================================================================
