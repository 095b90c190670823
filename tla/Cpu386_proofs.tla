---------------------------- MODULE Cpu386_proofs ----------------------------
(***************************************************************************)
(* Proofs about what the processor asks of the board at every instruction: *)
(* which interrupt is given to it, for every set of device lines and every *)
(* guest, and which memory its accesses reach, for every number of pages,  *)
(* frames and cache slots.                                                 *)
(***************************************************************************)
EXTENDS Pic8259, Mmu386, TLAPS

-----------------------------------------------------------------------------
(***************************************************************************)
(* The interrupt controllers.                                              *)
(***************************************************************************)
\* What the register helpers return is a controller.
LEMMA SetLineType ==
  ASSUME NEW s \in PicState, NEW i \in Irqs, NEW level
  PROVE  /\ SetLine(s, i, level) \in PicState
         /\ SetLine(s, i, level).last_irr \subseteq s.last_irr \cup {i}
BY DEF SetLine, PicState

\* The acknowledge of a line, likewise.
LEMMA IntackType ==
  ASSUME NEW s \in PicState, NEW i \in Irqs
  PROVE  Intack(s, i) \in PicState /\ Intack(s, i).last_irr = s.last_irr
<1>1. (i + 1) % 8 \in Irqs
  BY DEF Irqs
<1> QED
  BY <1>1 DEF Intack, PicState

\* Passing the slave's request on leaves the slave alone and reaches the master.
LEMMA CascadeType ==
  ASSUME NEW ps \in [Pics -> PicState], 2 \notin ps[0].last_irr
  PROVE  /\ Cascade(ps) \in [Pics -> PicState]
         /\ Cascade(ps)[1] = ps[1]
         /\ 2 \notin Cascade(ps)[0].last_irr
         /\ Cascade(ps)[0].poll = ps[0].poll
         /\ Active(1, ps[1]) => 2 \in Cascade(ps)[0].irr
<1>1. ps[0] \in PicState /\ 2 \in Irqs /\ 0 \in Pics /\ 1 \in Pics
  BY DEF Pics, Irqs
<1> DEFINE a == SetLine(ps[0], 2, 1)
           b == SetLine(a, 2, 0)
<1>2. a \in PicState
  BY <1>1, SetLineType
<1>3. b \in PicState
  BY <1>1, <1>2, SetLineType
<1>4. 2 \in a.irr
  BY <1>1 DEF SetLine, PicState
<1>5. 2 \in b.irr /\ 2 \notin b.last_irr /\ b.poll = a.poll /\ a.poll = ps[0].poll
  BY <1>1, <1>2, <1>4 DEF SetLine, PicState
<1> HIDE DEF b
<1>6. CASE Active(1, ps[1])
  <2>1. Cascade(ps) = [ps EXCEPT ![0] = b]
    BY <1>6 DEF Cascade, b
  <2> QED
    BY <1>1, <1>3, <1>5, <2>1
<1>7. CASE ~Active(1, ps[1])
  BY <1>7 DEF Cascade
<1> QED
  BY <1>6, <1>7

\* Line 2 of the master is only ever pulsed.
Shape == TypeOK /\ 2 \notin pic[0].last_irr

\* After pic_update_irq the CPU knows of what is active, and the master of what
\* the slave wants.
LEMMA UpdateRaises ==
  ASSUME NEW ps \in [Pics -> PicState], 2 \notin ps[0].last_irr,
         NEW line \in {"low", "high"}, Update(ps, line)
  PROVE  /\ pic' \in [Pics -> PicState] /\ intr' \in {"low", "high"}
         /\ 2 \notin pic'[0].last_irr
         /\ pic'[0].poll = ps[0].poll
         /\ RaisedWhenActive' /\ SlaveForwarded'
<1>1. pic' = Cascade(ps)
  BY DEF Update
<1>2. /\ pic' \in [Pics -> PicState] /\ 2 \notin pic'[0].last_irr
      /\ pic'[0].poll = ps[0].poll
      /\ pic'[1] = ps[1] /\ (Active(1, ps[1]) => 2 \in pic'[0].irr)
  BY <1>1, CascadeType
<1>3. intr' = IF Active(0, pic'[0]) THEN "high" ELSE line
  BY <1>1 DEF Update
<1> QED
  BY <1>2, <1>3 DEF RaisedWhenActive, SlaveForwarded

\* The guest leaves the master's special modes alone.
NoModes == <<0, "special">> \notin Commands /\ <<0, "sfnm">> \notin Commands

\* It neither initialises nor polls the master, nor uses the slave's special mask.
NoTaking == /\ <<0, "icw1">> \notin Commands /\ <<0, "poll">> \notin Commands
            /\ <<1, "special">> \notin Commands

Good ==
  /\ Shape
  /\ NoModes => RaisedWhenActive
  /\ NoTaking => SlaveForwarded /\ pic[0].poll = 0

\* A step that ends in pic_update_irq makes everything good.
LEMMA UpdateGood ==
  ASSUME NEW ps \in [Pics -> PicState], 2 \notin ps[0].last_irr,
         NoTaking => ps[0].poll = 0,
         NEW line \in {"low", "high"}, Update(ps, line),
         iflag' \in Flag, cpu' \in {"run", "halt"}, vector' \in Pics \X (0 .. 9)
  PROVE  Good'
BY UpdateRaises DEF Good, Shape, TypeOK

\* So does a port write that does.
LEMMA WritesAndUpdatesGood ==
  ASSUME Good, NEW p \in Pics, NEW kind, NEW s \in PicState,
         s.last_irr = pic[p].last_irr, s.poll = pic[p].poll, WritesAndUpdates(p, kind, s)
  PROVE  Good'
<1> DEFINE ps == [pic EXCEPT ![p] = s]
<1>1. /\ ps \in [Pics -> PicState] /\ 2 \notin ps[0].last_irr
      /\ NoTaking => ps[0].poll = 0
  BY DEF Good, Shape, TypeOK, Pics
<1>2. Update(ps, intr) /\ intr \in {"low", "high"}
  BY DEF WritesAndUpdates, Good, Shape, TypeOK
<1>3. iflag' \in Flag /\ cpu' \in {"run", "halt"} /\ vector' \in Pics \X (0 .. 9)
  BY DEF WritesAndUpdates, Good, Shape, TypeOK
<1> HIDE DEF ps
<1> QED
  BY <1>1, <1>2, <1>3, UpdateGood

\* A port write that does not has to leave alone what is active.
LEMMA WritesGood ==
  ASSUME Good, NEW p \in Pics, NEW kind, NEW s \in PicState, Writes(p, kind, s),
         s.last_irr \subseteq pic[p].last_irr,
         p = 0 /\ NoModes => (Active(0, s) => Active(0, pic[0])),
         p = 1 /\ NoTaking => (Active(1, s) => Active(1, pic[1])),
         p = 0 /\ NoTaking => pic[0].irr = s.irr /\ s.poll = pic[0].poll
  PROVE  Good'
<1>1. /\ pic' = [pic EXCEPT ![p] = s] /\ intr' = intr /\ iflag' = iflag /\ cpu' = cpu
      /\ vector' = vector
  BY DEF Writes
<1>2. /\ pic \in [Pics -> PicState] /\ 0 \in Pics /\ 1 \in Pics
      /\ 2 \notin pic[0].last_irr
  BY DEF Good, Shape, TypeOK, Pics
<1>3. CASE p = 0
  <2>1. pic'[0] = s /\ pic'[1] = pic[1] /\ pic' \in [Pics -> PicState]
    BY <1>1, <1>2, <1>3
  <2>2. Shape'
    BY <1>1, <1>2, <1>3, <2>1 DEF Good, Shape, TypeOK
  <2>3. NoModes => RaisedWhenActive'
    BY <1>1, <1>3, <2>1 DEF Good, RaisedWhenActive
  <2>4. NoTaking => SlaveForwarded' /\ pic'[0].poll = 0
    BY <1>1, <1>3, <2>1 DEF Good, SlaveForwarded
  <2> QED
    BY <2>2, <2>3, <2>4 DEF Good, NoModes, NoTaking
<1>4. CASE p = 1
  <2>1. pic'[1] = s /\ pic'[0] = pic[0] /\ pic' \in [Pics -> PicState]
    BY <1>1, <1>2, <1>4
  <2>2. Shape'
    BY <1>1, <1>2, <1>4, <2>1 DEF Good, Shape, TypeOK
  <2>3. NoModes => RaisedWhenActive'
    BY <1>1, <2>1 DEF Good, RaisedWhenActive
  <2>4. NoTaking => SlaveForwarded' /\ pic'[0].poll = 0
    BY <1>1, <1>4, <2>1 DEF Good, SlaveForwarded
  <2> QED
    BY <2>2, <2>3, <2>4 DEF Good, NoModes, NoTaking
<1> QED
  BY <1>3, <1>4 DEF Pics

\* What is active depends on the requests, the masks, what is in service, the
\* priorities and the special modes only.
LEMMA SameActive ==
  ASSUME NEW p \in Pics, NEW s, NEW t, s.irr = t.irr, s.imr = t.imr, s.isr = t.isr,
         s.priority_add = t.priority_add, s.special_mask = t.special_mask,
         p = 0 => s.sfnm = t.sfnm
  PROVE  Active(p, s) = Active(p, t)
BY DEF Active, Wants, Highest, Rank, Blocking, Pics

\* Without requests nothing is active.
LEMMA NoRequestInactive ==
  ASSUME NEW p, NEW s, s.irr = {} PROVE ~Active(p, s)
BY DEF Active, Wants, Highest

\* A rotated priority is one.
LEMMA RotateType == \A i \in Irqs : (i + 1) % 8 \in Irqs
BY DEF Irqs

\* The devices' and the CPU's steps.
LEMMA DeviceGood == ASSUME Good, Device PROVE Good'
<1>1. PICK p \in Pics, i \in Irqs, level \in Flag : SetIrq(p, i, level)
  BY DEF Device
<1>2. pic[p] \in PicState /\ (p = 0 => i # 2) /\ 2 \notin pic[0].last_irr
  BY <1>1, PicAssumption DEF SetIrq, Good, Shape, TypeOK
<1> DEFINE s == SetLine(pic[p], i, level)
           ps == [pic EXCEPT ![p] = s]
<1>3. s \in PicState /\ (p = 0 => 2 \notin s.last_irr) /\ s.poll = pic[p].poll
  <2>1. s \in PicState /\ s.last_irr \subseteq pic[p].last_irr \cup {i}
    BY <1>2, SetLineType
  <2>2. s.poll = pic[p].poll
    BY <1>2 DEF SetLine, PicState
  <2> QED
    BY <1>2, <2>1, <2>2
<1>4. /\ ps \in [Pics -> PicState] /\ 2 \notin ps[0].last_irr
      /\ NoTaking => ps[0].poll = 0
  BY <1>3 DEF Good, Shape, TypeOK, Pics
<1>5. Update(ps, intr) /\ intr \in {"low", "high"}
  BY <1>1 DEF SetIrq, Good, Shape, TypeOK
<1>6. iflag' \in Flag /\ cpu' \in {"run", "halt"} /\ vector' \in Pics \X (0 .. 9)
  BY <1>1 DEF SetIrq, Good, Shape, TypeOK
<1> HIDE DEF ps
<1> QED
  BY <1>4, <1>5, <1>6, UpdateGood

\* The acknowledge clears INTR, takes its requests and looks again.
LEMMA AcknowledgeGood == ASSUME Good, Acknowledge PROVE Good'
<1>1. iflag' \in Flag /\ cpu' \in {"run", "halt"}
  BY DEF Acknowledge
<1>2. /\ pic \in [Pics -> PicState] /\ 0 \in Pics /\ 1 \in Pics /\ 2 \in Irqs
      /\ 2 \notin pic[0].last_irr
  BY DEF Good, Shape, TypeOK, Pics, Irqs
<1>3. \A q \in Pics, i \in Irqs :
        /\ Intack(pic[q], i) \in PicState /\ Intack(pic[q], i).last_irr = pic[q].last_irr
        /\ Intack(pic[q], i).poll = pic[q].poll
  BY <1>2, IntackType, ZenonT(40) DEF Intack, PicState
<1>4. ASSUME NEW ps \in [Pics -> PicState], NEW v \in Pics \X (0 .. 9), Deliver(ps, v),
             ps[0].last_irr = pic[0].last_irr, ps[0].poll = pic[0].poll
      PROVE  Good'
  BY <1>1, <1>2, <1>4, UpdateGood DEF Deliver, Good
<1>5. CASE ~Active(0, pic[0]) /\ Deliver(pic, Spurious)
  BY <1>2, <1>4, <1>5 DEF Spurious
<1>6. CASE \E i \in Irqs \ {2} : Deliver([pic EXCEPT ![0] = Intack(@, i)], <<0, i>>)
  <2>1. PICK i \in Irqs : Deliver([pic EXCEPT ![0] = Intack(@, i)], <<0, i>>)
    BY <1>6
  <2> DEFINE ps == [pic EXCEPT ![0] = Intack(@, i)]
  <2>2. /\ ps \in [Pics -> PicState] /\ ps[0].last_irr = pic[0].last_irr
        /\ ps[0].poll = pic[0].poll
    BY <1>2, <1>3
  <2>3. <<0, i>> \in Pics \X (0 .. 9)
    BY <1>2 DEF Irqs
  <2> HIDE DEF ps
  <2> QED
    BY <1>4, <2>1, <2>2, <2>3 DEF ps
<1>7. CASE Deliver([pic EXCEPT ![0] = Intack(@, 2)], SlaveSpurious)
  <2> DEFINE ps == [pic EXCEPT ![0] = Intack(@, 2)]
  <2>2. /\ ps \in [Pics -> PicState] /\ ps[0].last_irr = pic[0].last_irr
        /\ ps[0].poll = pic[0].poll
    BY <1>2, <1>3
  <2>3. SlaveSpurious \in Pics \X (0 .. 9)
    BY <1>2 DEF SlaveSpurious
  <2>4. Deliver(ps, SlaveSpurious)
    BY <1>7
  <2> HIDE DEF ps
  <2> QED
    BY <1>4, <2>2, <2>3, <2>4
<1>8. CASE \E i \in Irqs : Deliver([pic EXCEPT ![0] = Intack(@, 2), ![1] = Intack(@, i)], <<1, i>>)
  <2>1. PICK i \in Irqs : Deliver([pic EXCEPT ![0] = Intack(@, 2), ![1] = Intack(@, i)], <<1, i>>)
    BY <1>8
  <2> DEFINE ps == [pic EXCEPT ![0] = Intack(@, 2), ![1] = Intack(@, i)]
  <2>2. /\ ps \in [Pics -> PicState] /\ ps[0].last_irr = pic[0].last_irr
        /\ ps[0].poll = pic[0].poll
    BY <1>2, <1>3
  <2>3. <<1, i>> \in Pics \X (0 .. 9)
    BY <1>2 DEF Irqs
  <2>4. Deliver(ps, <<1, i>>)
    BY <2>1
  <2> HIDE DEF ps
  <2> QED
    BY <1>4, <2>2, <2>3, <2>4
<1> QED
  BY <1>5, <1>6, <1>7, <1>8 DEF Acknowledge, ReadIrq

\* The port writes without pic_update_irq.
LEMMA QuietPortGood ==
  ASSUME Good, NEW p \in Pics,
         \/ Icw1(p) \/ Icw2(p) \/ Icw3(p) \/ Icw4(p) \/ WritePoll(p) \/ WriteSpecial(p)
         \/ WriteRotate(p)
  PROVE  Good'
<1>1. pic[p] \in PicState
  BY DEF Good, Shape, TypeOK
<1>2. CASE Icw1(p)
  <2>1. PICK ic4 \in Flag, sngl \in Flag : Writes(p, "icw1", ResetTo(1, ic4, sngl))
    BY <1>2 DEF Icw1
  <2> DEFINE s == ResetTo(1, ic4, sngl)
  <2>2. s \in PicState /\ s.irr = {} /\ s.last_irr = {}
    <3>1. 0 \in Flag /\ 0 \in Irqs /\ 1 \in 0 .. 3 /\ {} \in SUBSET Irqs
      BY DEF Flag, Irqs
    <3> QED
      BY <3>1 DEF PicState, ResetTo
  <2>3. Writes(p, "icw1", s) /\ ~(p = 0 /\ NoTaking)
    BY <2>1 DEF Writes, NoTaking
  <2> HIDE DEF s
  <2>4. ~Active(0, s) /\ ~Active(1, s)
    BY <2>2, NoRequestInactive
  <2> QED
    BY <2>2, <2>3, <2>4, WritesGood
<1>3. ASSUME NEW kind, NEW s \in PicState, Writes(p, kind, s),
             s.irr = pic[p].irr, s.imr = pic[p].imr, s.isr = pic[p].isr,
             s.last_irr = pic[p].last_irr, s.priority_add = pic[p].priority_add,
             p = 0 /\ NoModes => s.special_mask = pic[p].special_mask /\ s.sfnm = pic[p].sfnm,
             p = 1 /\ NoTaking => s.special_mask = pic[p].special_mask,
             p = 0 /\ NoTaking => s.poll = pic[p].poll
      PROVE  Good'
  <2>1. p = 0 /\ NoModes => (Active(0, s) => Active(0, pic[0]))
    BY <1>3, SameActive
  <2>2. p = 1 /\ NoTaking => (Active(1, s) => Active(1, pic[1]))
    BY <1>3, SameActive
  <2> QED
    BY <1>3, <2>1, <2>2, WritesGood
<1>4. CASE Icw2(p)
  <2> DEFINE s == [pic[p] EXCEPT !.init_state =
                     IF pic[p].single = 1 THEN (IF pic[p].init4 = 1 THEN 3 ELSE 0) ELSE 2]
  <2>1. s \in PicState
    BY <1>1 DEF PicState
  <2> QED
    BY <1>1, <1>3, <1>4, <2>1 DEF Icw2, PicState
<1>5. CASE Icw3(p)
  <2> DEFINE s == [pic[p] EXCEPT !.init_state = IF pic[p].init4 = 1 THEN 3 ELSE 0]
  <2>1. s \in PicState
    BY <1>1 DEF PicState
  <2> QED
    BY <1>1, <1>3, <1>5, <2>1 DEF Icw3, PicState
<1>6. CASE Icw4(p)
  <2>1. PICK aeoi \in Flag :
          \/ Writes(p, "icw4", [pic[p] EXCEPT !.sfnm = 0, !.auto_eoi = aeoi, !.init_state = 0])
          \/ Writes(p, "sfnm", [pic[p] EXCEPT !.sfnm = 1, !.auto_eoi = aeoi, !.init_state = 0])
    BY <1>6 DEF Icw4
  <2> DEFINE off == [pic[p] EXCEPT !.sfnm = 0, !.auto_eoi = aeoi, !.init_state = 0]
             on  == [pic[p] EXCEPT !.sfnm = 1, !.auto_eoi = aeoi, !.init_state = 0]
  <2>0. aeoi \in Flag
    BY <2>1
  <2>2. off \in PicState /\ on \in PicState
    <3> DEFINE base == [pic[p] EXCEPT !.auto_eoi = aeoi, !.init_state = 0]
    <3>1. base \in PicState
      <4> DEFINE auto == [pic[p] EXCEPT !.auto_eoi = aeoi]
      <4>1. auto \in PicState
        BY <1>1, <2>0 DEF PicState
      <4>2. base = [auto EXCEPT !.init_state = 0]
        BY <1>1 DEF PicState
      <4>3. 0 \in 0 .. 3
        OBVIOUS
      <4> HIDE DEF auto, base
      <4> QED
        BY <4>1, <4>2, <4>3 DEF PicState
    <3>2. 0 \in Flag /\ 1 \in Flag
      BY DEF Flag
    <3>3. off = [base EXCEPT !.sfnm = 0]
      BY <1>1 DEF PicState
    <3>4. on = [base EXCEPT !.sfnm = 1]
      BY <1>1 DEF PicState
    <3> HIDE DEF base, off, on
    <3>5. off \in PicState
      BY <3>1, <3>2, <3>3 DEF PicState
    <3>6. on \in PicState
      BY <3>1, <3>2, <3>4 DEF PicState
    <3> QED
      BY <3>5, <3>6
  <2>3. CASE Writes(p, "icw4", off)
    <3>1. /\ off.irr = pic[p].irr /\ off.imr = pic[p].imr /\ off.isr = pic[p].isr
          /\ off.last_irr = pic[p].last_irr /\ off.priority_add = pic[p].priority_add
          /\ off.special_mask = pic[p].special_mask /\ off.poll = pic[p].poll
          /\ off.sfnm = 0
      BY <1>1 DEF PicState
    <3> HIDE DEF off
    <3>2. Active(p, off) => Active(p, pic[p])
      <4>1. Blocking(p, pic[p]) \subseteq Blocking(p, off)
        BY <3>1 DEF Blocking
      <4>2. \A i, j : Rank(off, i) = Rank(pic[p], i)
        BY <3>1 DEF Rank
      <4>3. ASSUME NEW i \in Irqs, Wants(p, off, i) PROVE Wants(p, pic[p], i)
        BY <3>1, <4>1, <4>2, <4>3 DEF Wants, Highest
      <4> QED
        BY <4>3 DEF Active
    <3> QED
      BY <2>2, <2>3, <3>1, <3>2, WritesGood
  <2>4. CASE Writes(p, "sfnm", on)
    BY <1>1, <1>3, <2>2, <2>4 DEF Writes, NoModes, PicState
  <2> QED
    BY <2>1, <2>3, <2>4
<1>7. CASE WritePoll(p)
  <2> DEFINE s == [pic[p] EXCEPT !.poll = 1]
  <2>1. s \in PicState
    BY <1>1 DEF PicState, Flag
  <2> QED
    BY <1>1, <1>3, <1>7, <2>1 DEF WritePoll, PicState, Writes, NoTaking
<1>8. CASE WriteSpecial(p)
  <2>1. PICK on \in Flag : Writes(p, "special", [pic[p] EXCEPT !.special_mask = on])
    BY <1>8 DEF WriteSpecial
  <2>0. on \in Flag /\ ~(p = 0 /\ NoModes) /\ ~(p = 1 /\ NoTaking)
    BY <2>1 DEF Writes, NoModes, NoTaking
  <2> DEFINE s == [pic[p] EXCEPT !.special_mask = on]
  <2>2. s \in PicState
    BY <1>1, <2>0 DEF PicState
  <2> QED
    BY <1>1, <1>3, <2>0, <2>1, <2>2 DEF PicState
<1>9. CASE WriteRotate(p)
  <2>1. PICK on \in Flag : Writes(p, "rotate_aeoi", [pic[p] EXCEPT !.rotate = on])
    BY <1>9 DEF WriteRotate
  <2>0. on \in Flag
    BY <2>1
  <2> DEFINE s == [pic[p] EXCEPT !.rotate = on]
  <2>2. s \in PicState
    BY <1>1, <2>0 DEF PicState
  <2> QED
    BY <1>1, <1>3, <2>1, <2>2 DEF PicState
<1> QED
  BY <1>2, <1>4, <1>5, <1>6, <1>7, <1>8, <1>9

\* The port writes with it.
LEMMA UpdatingPortGood ==
  ASSUME Good, NEW p \in Pics,
         WriteImr(p) \/ Eoi(p) \/ SpecificEoi(p) \/ SetPriority(p)
  PROVE  Good'
<1>1. pic[p] \in PicState /\ MaskLines(p) \subseteq Irqs /\ Lines[p] \subseteq Irqs
  BY PicAssumption DEF Good, Shape, TypeOK, MaskLines, Irqs, Pics
<1>2. ASSUME NEW kind, NEW isr \in SUBSET Irqs, NEW add \in Irqs,
             WritesAndUpdates(p, kind, [pic[p] EXCEPT !.isr = isr, !.priority_add = add])
      PROVE  Good'
  <2> DEFINE s == [pic[p] EXCEPT !.isr = isr, !.priority_add = add]
  <2>1. s \in PicState /\ s.last_irr = pic[p].last_irr /\ s.poll = pic[p].poll
    BY <1>1 DEF PicState
  <2>2. WritesAndUpdates(p, kind, s)
    BY <1>2
  <2> HIDE DEF s
  <2> QED
    BY <2>1, <2>2, WritesAndUpdatesGood
<1>3. CASE WriteImr(p)
  <2>1. PICK mask \in SUBSET MaskLines(p) :
          WritesAndUpdates(p, "imr", [pic[p] EXCEPT !.imr = mask])
    BY <1>3 DEF WriteImr
  <2> DEFINE s == [pic[p] EXCEPT !.imr = mask]
  <2>0. mask \in SUBSET Irqs
    BY <1>1, <2>1
  <2>2. s \in PicState /\ s.last_irr = pic[p].last_irr /\ s.poll = pic[p].poll
    BY <1>1, <2>0 DEF PicState
  <2>3. WritesAndUpdates(p, "imr", s)
    BY <2>1
  <2> HIDE DEF s
  <2> QED
    BY <2>2, <2>3, WritesAndUpdatesGood
<1>4. ASSUME NEW kind, NEW i \in Irqs,
             \/ WritesAndUpdates(p, kind, [pic[p] EXCEPT !.isr = @ \ {i}])
             \/ WritesAndUpdates(p, kind, [pic[p] EXCEPT !.isr = @ \ {i},
                                                         !.priority_add = (i + 1) % 8])
      PROVE  Good'
  <2> DEFINE isr == pic[p].isr \ {i}
  <2>1. isr \in SUBSET Irqs /\ pic[p].priority_add \in Irqs /\ (i + 1) % 8 \in Irqs
    BY <1>1, RotateType DEF PicState
  <2>2. [pic[p] EXCEPT !.isr = @ \ {i}] =
           [pic[p] EXCEPT !.isr = isr, !.priority_add = pic[p].priority_add]
    BY <1>1 DEF PicState
  <2> QED
    BY <1>2, <1>4, <2>1, <2>2
<1>5. CASE Eoi(p)
  BY <1>4, <1>5 DEF Eoi
<1>6. CASE SpecificEoi(p)
  BY <1>1, <1>4, <1>6 DEF SpecificEoi
<1>7. CASE SetPriority(p)
  <2>1. PICK i \in Irqs :
          WritesAndUpdates(p, "set_priority", [pic[p] EXCEPT !.priority_add = (i + 1) % 8])
    BY <1>1, <1>7 DEF SetPriority
  <2>2. [pic[p] EXCEPT !.priority_add = (i + 1) % 8] =
           [pic[p] EXCEPT !.isr = pic[p].isr, !.priority_add = (i + 1) % 8]
    BY <1>1 DEF PicState
  <2>3. pic[p].isr \in SUBSET Irqs /\ (i + 1) % 8 \in Irqs
    BY <1>1, RotateType DEF PicState
  <2> QED
    BY <1>2, <2>1, <2>2, <2>3
<1> QED
  BY <1>3, <1>5, <1>6, <1>7

\* A poll read takes a request away without telling the CPU only when line 2 of
\* the master is polled, and then INTR is still up.
LEMMA PollReadGood == ASSUME Good, NEW p \in Pics, PollRead(p) PROVE Good'
<1>1. /\ pic \in [Pics -> PicState] /\ 0 \in Pics /\ 1 \in Pics
      /\ 2 \notin pic[0].last_irr /\ intr \in {"low", "high"}
      /\ iflag' \in Flag /\ cpu' \in {"run", "halt"} /\ vector' \in Pics \X (0 .. 9)
      /\ NoTaking => pic[0].poll = 0
  BY DEF Good, Shape, TypeOK, Pics, PollRead
<1>2. ASSUME NEW i \in Irqs
      PROVE  /\ Polled(p, i) \in [Pics -> PicState]
             /\ Polled(p, i)[0].last_irr = pic[0].last_irr
             /\ Polled(p, i)[0].poll \in {0, pic[0].poll}
  <2> DEFINE t == [Drop(pic[p], i) EXCEPT !.poll = 0]
             m == Drop(pic[0], 2)
  <2>1. t \in PicState /\ t.last_irr = pic[p].last_irr /\ t.poll = 0
    <3>1. Drop(pic[p], i) \in PicState /\ Drop(pic[p], i).last_irr = pic[p].last_irr
      BY <1>1, ZenonT(40) DEF PicState, Drop
    <3>2. 0 \in Flag
      BY DEF Flag
    <3> QED
      BY <3>1, <3>2 DEF PicState
  <2>2. m \in PicState /\ m.last_irr = pic[0].last_irr /\ m.poll = pic[0].poll
    BY <1>1, ZenonT(40) DEF PicState, Drop
  <2>3. CASE p = 0
    <3>1. Polled(p, i) = [pic EXCEPT ![0] = t]
      BY <2>3 DEF Polled
    <3> HIDE DEF t
    <3> QED
      BY <1>1, <2>1, <2>3, <3>1
  <2>4. CASE p = 1
    <3>1. Polled(p, i) = [[pic EXCEPT ![1] = t] EXCEPT ![0] = m]
      BY <2>4 DEF Polled
    <3> HIDE DEF t, m
    <3> QED
      BY <1>1, <2>1, <2>2, <2>4, <3>1
  <2> QED
    BY <2>3, <2>4 DEF Pics
<1>3. CASE \E i \in Irqs : Update(Polled(p, i), intr)
  <2>1. PICK i \in Irqs : Update(Polled(p, i), intr)
    BY <1>3
  <2>2. /\ Polled(p, i) \in [Pics -> PicState] /\ 2 \notin Polled(p, i)[0].last_irr
        /\ NoTaking => Polled(p, i)[0].poll = 0
    BY <1>1, <1>2
  <2> QED
    BY <1>1, <2>1, <2>2, UpdateGood
<1>4. CASE p = 0 /\ Wants(0, pic[0], 2) /\ pic' = Polled(0, 2) /\ UNCHANGED intr
  <2>1. pic[0].poll = 1 /\ ~NoTaking
    BY <1>1, <1>4 DEF PollRead
  <2>2. Polled(0, 2) \in [Pics -> PicState] /\ Polled(0, 2)[0].last_irr = pic[0].last_irr
    BY <1>2, <1>4 DEF Irqs
  <2>3. Shape'
    BY <1>1, <1>4, <2>2 DEF Shape, TypeOK
  <2>4. NoModes => intr = "high"
    BY <1>4 DEF Good, RaisedWhenActive, Active, Irqs
  <2> QED
    BY <1>4, <2>1, <2>3, <2>4 DEF Good, RaisedWhenActive, NoModes, NoTaking
<1>5. CASE Update([pic EXCEPT ![p] = [pic[p] EXCEPT !.poll = 0]], intr)
  <2> DEFINE ps == [pic EXCEPT ![p] = [pic[p] EXCEPT !.poll = 0]]
  <2>1. /\ ps \in [Pics -> PicState] /\ ps[0].last_irr = pic[0].last_irr
        /\ NoTaking => ps[0].poll = 0
    <3>1. [pic[p] EXCEPT !.poll = 0] \in PicState
      BY <1>1 DEF PicState, Flag
    <3> QED
      BY <1>1, <3>1 DEF PicState
  <2>2. Update(ps, intr)
    BY <1>5
  <2> HIDE DEF ps
  <2> QED
    BY <1>1, <2>1, <2>2, UpdateGood
<1> QED
  BY <1>3, <1>4, <1>5 DEF PollRead

\* Good is inductive.
LEMMA GoodInvariant == Spec => []Good
<1>1. Init => Good
  <2>1. SUFFICES ASSUME Init PROVE Good
    OBVIOUS
  <2>2. Reset \in PicState /\ Reset.irr = {} /\ Reset.last_irr = {} /\ Reset.poll = 0
    BY DEF Reset, ResetTo, PicState, Flag, Irqs
  <2>3. TypeOK
    BY <2>1, <2>2 DEF Init, TypeOK, Flag, NoVector, Pics
  <2>4. pic[0] = Reset /\ pic[1] = Reset
    BY <2>1 DEF Init, Pics
  <2>5. ~Active(0, pic[0]) /\ ~Active(1, pic[1])
    BY <2>2, <2>4, NoRequestInactive
  <2> QED
    BY <2>2, <2>3, <2>4, <2>5 DEF Good, Shape, RaisedWhenActive, SlaveForwarded
<1>2. Good /\ [Next]_vars => Good'
  <2> SUFFICES ASSUME Good, [Next]_vars PROVE Good'
    OBVIOUS
  <2>1. CASE Sti \/ Cli \/ Hlt
    BY <2>1 DEF Sti, Cli, Hlt, Good, Shape, TypeOK, RaisedWhenActive, SlaveForwarded, Flag,
                NoModes, NoTaking
  <2>2. CASE UNCHANGED vars
    BY <2>2 DEF vars, Good, Shape, TypeOK, RaisedWhenActive, SlaveForwarded, NoModes, NoTaking
  <2>3. CASE \E p \in Pics : Port(p)
    BY <2>3, QuietPortGood, UpdatingPortGood, PollReadGood DEF Port
  <2> QED
    BY <2>1, <2>2, <2>3, DeviceGood, AcknowledgeGood DEF Next
<1> QED
  BY <1>1, <1>2, PTL DEF Spec

\* The registers stay registers, whatever the guest writes.
THEOREM PicTypeCorrect == Spec => []TypeOK
BY GoodInvariant, PTL DEF Good, Shape

\* As long as the guest does not put the master into special mask or special
\* fully nested mode, the CPU is told of everything the master can deliver.
THEOREM CpuIsTold == NoModes => (Spec => []RaisedWhenActive)
<1> SUFFICES ASSUME NoModes PROVE Spec => []RaisedWhenActive
  OBVIOUS
<1>1. Good => RaisedWhenActive
  BY DEF Good
<1> QED
  BY <1>1, GoodInvariant, PTL

\* As long as the guest does not initialise or poll the master nor put the
\* slave into special mask mode, the master knows of every slave request.
THEOREM SlaveIsForwarded == NoTaking => (Spec => []SlaveForwarded)
<1> SUFFICES ASSUME NoTaking PROVE Spec => []SlaveForwarded
  OBVIOUS
<1>1. Good => SlaveForwarded
  BY DEF Good
<1> QED
  BY <1>1, GoodInvariant, PTL

-----------------------------------------------------------------------------
(***************************************************************************)
(* What raised INTR is still there when the CPU looks.                     *)
(***************************************************************************)
\* The rank of a line is a number below 8.
LEMMA RankType ==
  ASSUME NEW s, s.priority_add \in Irqs, NEW i \in Irqs
  PROVE  Rank(s, i) \in 0 .. 7
BY DEF Rank, Irqs

\* Of some lines one has the highest priority.
LEMMA SomeHighest ==
  ASSUME NEW s, s.priority_add \in Irqs, NEW mask \in SUBSET Irqs, mask # {}
  PROVE  \E i \in Irqs : Highest(s, mask, i)
<1> DEFINE Has(k) == \E i \in mask : Rank(s, i) = k
           Least(k) == \E i \in mask : Rank(s, i) = k /\ \A j \in mask : Rank(s, j) >= k
<1>1. \A i \in mask : i \in Irqs /\ Rank(s, i) \in 0 .. 7
  BY RankType
<1>2. \E k \in 0 .. 7 : Has(k)
  BY <1>1
<1>3. \E k \in 0 .. 7 : Has(k) /\ \A m \in 0 .. 7 : Has(m) => k <= m
  <2> HIDE DEF Has
  <2> QED
    BY <1>2
<1>4. PICK k \in 0 .. 7 : Has(k) /\ \A m \in 0 .. 7 : Has(m) => k <= m
  BY <1>3
<1>5. PICK i \in mask : Rank(s, i) = k
  BY <1>4
<1>6. \A j \in mask : k <= Rank(s, j)
  BY <1>1, <1>4
<1> QED
  BY <1>1, <1>5, <1>6 DEF Highest

\* More requests and fewer lines in service leave a controller with something to deliver; with
\* nothing masked the special mask mode makes no difference.
LEMMA ActiveGrows ==
  ASSUME NEW p \in Pics, NEW s \in PicState, NEW t \in PicState,
         s.irr \subseteq t.irr, t.isr \subseteq s.isr, s.imr = {}, t.imr = {},
         t.priority_add = s.priority_add, t.sfnm = s.sfnm, Active(p, s)
  PROVE  Active(p, t)
<1>1. PICK i \in Irqs : Wants(p, s, i)
  BY DEF Active
<1>2. /\ s.priority_add \in Irqs /\ t.irr \in SUBSET Irqs
      /\ t.isr \in SUBSET Irqs /\ s.isr \in SUBSET Irqs
  BY DEF PicState
<1>3. i \in t.irr
  BY <1>1 DEF Wants, Highest
<1>4. PICK j \in Irqs : Highest(t, t.irr, j)
  BY <1>2, <1>3, SomeHighest
<1>5. \A a : Rank(t, a) = Rank(s, a)
  BY DEF Rank
<1>6. Rank(s, j) <= Rank(s, i)
  BY <1>3, <1>4, <1>5 DEF Highest
<1>7. Blocking(p, t) \subseteq Blocking(p, s)
  BY DEF Blocking
<1>8. \A b \in Blocking(p, t) : Rank(s, i) < Rank(s, b) /\ b \in Irqs
  BY <1>1, <1>2, <1>7 DEF Wants, Blocking
<1>9. \A b \in Blocking(p, t) : Rank(s, j) < Rank(s, b)
  BY <1>1, <1>2, <1>4, <1>6, <1>8, RankType
<1>10. Wants(p, t, j)
  BY <1>4, <1>5, <1>9 DEF Wants
<1> QED
  BY <1>10 DEF Active

\* A guest that only ends interrupts, and may play with modes that are without effect then.
OnlyEnds == Commands \subseteq Pics \X {"eoi", "specific_eoi", "special", "rotate_aeoi"}

\* Then INTR is up, and line 2 requested at the master, only for a reason.
Reasoned(ps, line) ==
  /\ \A p \in Pics : ps[p].imr = {} /\ ps[p].poll = 0
  /\ line = "high" => Active(0, ps[0])
  /\ 2 \in ps[0].irr => Active(1, ps[1])

Exact == OnlyEnds => Reasoned(pic, intr) /\ NeverSpurious

\* pic_update_irq gives no other reasons.
LEMMA UpdateReasoned ==
  ASSUME NEW ps \in [Pics -> PicState], 2 \notin ps[0].last_irr, NEW line,
         Reasoned(ps, line), Update(ps, line)
  PROVE  Reasoned(pic', intr')
<1>1. /\ ps[0] \in PicState /\ ps[1] \in PicState /\ 2 \in Irqs /\ 0 \in Pics /\ 1 \in Pics
      /\ ps[0].imr = {} /\ ps[1].imr = {} /\ ps[0].poll = 0 /\ ps[1].poll = 0
  BY DEF Pics, Irqs, Reasoned
<1>2. pic' = Cascade(ps) /\ intr' = IF Active(0, pic'[0]) THEN "high" ELSE line
  BY DEF Update
<1>3. CASE Active(1, ps[1])
  <2> DEFINE a == SetLine(ps[0], 2, 1)
             b == SetLine(a, 2, 0)
  <2>1. a \in PicState /\ a.irr = ps[0].irr \cup {2} /\ a.isr = ps[0].isr /\ a.imr = {}
        /\ a.priority_add = ps[0].priority_add /\ a.sfnm = ps[0].sfnm /\ a.poll = 0
    BY <1>1 DEF SetLine, PicState
  <2> HIDE DEF a
  <2>2. b \in PicState /\ b.irr = ps[0].irr \cup {2} /\ b.isr = ps[0].isr /\ b.imr = {}
        /\ b.priority_add = ps[0].priority_add /\ b.sfnm = ps[0].sfnm /\ b.poll = 0
    BY <1>1, <2>1 DEF SetLine, PicState
  <2>3. pic' = [ps EXCEPT ![0] = b]
    BY <1>2, <1>3 DEF Cascade, a
  <2> HIDE DEF b
  <2>4. pic'[0] = b /\ pic'[1] = ps[1]
    BY <1>1, <2>3
  <2>5. Active(0, ps[0]) => Active(0, b)
    BY <1>1, <2>2, ActiveGrows
  <2>6. \A p \in Pics : pic'[p].imr = {} /\ pic'[p].poll = 0
    BY <1>1, <2>2, <2>4 DEF Pics
  <2>7. intr' = "high" => Active(0, pic'[0])
    BY <1>2, <2>4, <2>5 DEF Reasoned
  <2> QED
    BY <1>3, <2>4, <2>6, <2>7 DEF Reasoned
<1>4. CASE ~Active(1, ps[1])
  <2>1. pic' = ps
    BY <1>2, <1>4 DEF Cascade
  <2> QED
    BY <1>2, <2>1 DEF Reasoned
<1> QED
  BY <1>3, <1>4

\* A request more at a controller, or a line in service less, takes no reason away.
LEMMA ReasonsStay ==
  ASSUME NEW ps \in [Pics -> PicState], NEW line, Reasoned(ps, line),
         NEW p \in Pics, NEW t \in PicState, t.imr = {}, t.poll = 0,
         ps[p].irr \subseteq t.irr, t.isr \subseteq ps[p].isr,
         t.priority_add = ps[p].priority_add, t.sfnm = ps[p].sfnm,
         p = 0 /\ 2 \in t.irr => 2 \in ps[0].irr
  PROVE  Reasoned([ps EXCEPT ![p] = t], line)
<1>1. ps[p] \in PicState /\ ps[p].imr = {} /\ 0 \in Pics /\ 1 \in Pics
  BY DEF Reasoned, Pics
<1>2. Active(p, ps[p]) => Active(p, t)
  BY <1>1, ActiveGrows
<1> DEFINE qs == [ps EXCEPT ![p] = t]
<1>3. qs[p] = t /\ \A q \in Pics \ {p} : qs[q] = ps[q]
  OBVIOUS
<1> HIDE DEF qs
<1>4. \A q \in Pics : qs[q].imr = {} /\ qs[q].poll = 0
  BY <1>3 DEF Reasoned
<1>5. CASE p = 0
  <2>1. qs[0] = t /\ qs[1] = ps[1]
    BY <1>1, <1>3, <1>5
  <2> QED
    BY <1>2, <1>4, <1>5, <2>1 DEF Reasoned, qs
<1>6. CASE p = 1
  <2>1. qs[1] = t /\ qs[0] = ps[0]
    BY <1>1, <1>3, <1>6
  <2> QED
    BY <1>2, <1>4, <1>6, <2>1 DEF Reasoned, qs
<1> QED
  BY <1>5, <1>6 DEF Pics

\* A device's edge.
LEMMA DeviceExact ==
  ASSUME Good, Exact, Device, OnlyEnds
  PROVE  Reasoned(pic', intr') /\ NeverSpurious'
<1>1. PICK p \in Pics, i \in Irqs, level \in Flag : SetIrq(p, i, level)
  BY DEF Device
<1>2. /\ pic \in [Pics -> PicState] /\ pic[p] \in PicState /\ (p = 0 => i # 2)
      /\ 2 \notin pic[0].last_irr /\ Reasoned(pic, intr) /\ NeverSpurious
  BY <1>1, PicAssumption DEF SetIrq, Good, Shape, TypeOK, Exact
<1> DEFINE s == SetLine(pic[p], i, level)
           ps == [pic EXCEPT ![p] = s]
<1>3. /\ s \in PicState /\ s.imr = {} /\ s.poll = 0 /\ pic[p].irr \subseteq s.irr /\ s.isr = pic[p].isr
      /\ s.irr \subseteq pic[p].irr \cup {i} /\ s.last_irr \subseteq pic[p].last_irr \cup {i}
      /\ s.priority_add = pic[p].priority_add /\ s.sfnm = pic[p].sfnm
  <2>1. s \in PicState
    BY <1>2, SetLineType
  <2>2. pic[p].imr = {} /\ pic[p].poll = 0
    BY <1>2 DEF Reasoned
  <2>3. CASE level = 1
    BY <1>2, <2>1, <2>2, <2>3 DEF SetLine, PicState
  <2>4. CASE level # 1
    BY <1>2, <2>1, <2>2, <2>4 DEF SetLine, PicState
  <2> QED
    BY <2>3, <2>4
<1> HIDE DEF s
<1>4. Reasoned(ps, intr)
  BY <1>2, <1>3, ReasonsStay
<1>5. ps \in [Pics -> PicState] /\ 2 \notin ps[0].last_irr
  BY <1>2, <1>3 DEF Pics
<1>6. Update(ps, intr) /\ vector' = vector
  BY <1>1 DEF SetIrq, s
<1> HIDE DEF ps
<1>7. Reasoned(pic', intr')
  BY <1>4, <1>5, <1>6, UpdateReasoned
<1> QED
  BY <1>2, <1>6, <1>7 DEF NeverSpurious

\* The CPU finds a request at the master, and behind line 2 one at the slave.
LEMMA AcknowledgeExact ==
  ASSUME Good, Exact, Acknowledge, OnlyEnds
  PROVE  Reasoned(pic', intr') /\ NeverSpurious'
<1>1. /\ pic \in [Pics -> PicState] /\ 0 \in Pics /\ 1 \in Pics /\ 2 \in Irqs
      /\ pic[0] \in PicState /\ pic[1] \in PicState
      /\ 2 \notin pic[0].last_irr /\ Reasoned(pic, intr) /\ intr = "high"
  BY DEF Good, Shape, TypeOK, Exact, Acknowledge, Pics, Irqs
<1>2. Active(0, pic[0]) /\ (Wants(0, pic[0], 2) => Active(1, pic[1]))
  BY <1>1 DEF Reasoned, Wants, Highest
<1>3. \A q \in Pics, i \in Irqs :
        /\ Intack(pic[q], i) \in PicState /\ Intack(pic[q], i).last_irr = pic[q].last_irr
        /\ Intack(pic[q], i).poll = 0 /\ Intack(pic[q], i).imr = {}
        /\ Intack(pic[q], i).irr = pic[q].irr \ {i}
  <2>1. ASSUME NEW q \in Pics, NEW i \in Irqs
        PROVE  /\ Intack(pic[q], i).poll = pic[q].poll /\ Intack(pic[q], i).imr = pic[q].imr
               /\ Intack(pic[q], i).irr = pic[q].irr \ {i}
    BY <1>1 DEF Intack, PicState
  <2> QED
    BY <1>1, <2>1, IntackType DEF Reasoned
<1>4. ASSUME NEW ps \in [Pics -> PicState], NEW v, Deliver(ps, v), ps[0].last_irr = pic[0].last_irr,
             \A q \in Pics : ps[q].imr = {} /\ ps[q].poll = 0,
             2 \in ps[0].irr => Active(1, ps[1]), v \notin {Spurious, SlaveSpurious}
      PROVE  Reasoned(pic', intr') /\ NeverSpurious'
  <2>1. Reasoned(ps, "low")
    BY <1>4 DEF Reasoned
  <2>2. Reasoned(pic', intr')
    BY <1>1, <1>4, <2>1, UpdateReasoned DEF Deliver
  <2> QED
    BY <1>4, <2>2 DEF Deliver, NeverSpurious
<1>5. CASE \E i \in Irqs \ {2} : Deliver([pic EXCEPT ![0] = Intack(@, i)], <<0, i>>)
  <2>1. PICK i \in Irqs \ {2} : Deliver([pic EXCEPT ![0] = Intack(@, i)], <<0, i>>)
    BY <1>5
  <2> DEFINE ps == [pic EXCEPT ![0] = Intack(@, i)]
  <2>2. ps[0] = Intack(pic[0], i) /\ ps[1] = pic[1] /\ ps \in [Pics -> PicState]
    BY <1>1, <1>3
  <2>3. <<0, i>> \notin {Spurious, SlaveSpurious}
    BY <2>1 DEF Spurious, SlaveSpurious, Irqs
  <2>4. Deliver(ps, <<0, i>>)
    BY <2>1
  <2> HIDE DEF ps
  <2>5. \A q \in Pics : ps[q].imr = {} /\ ps[q].poll = 0
    BY <1>1, <1>3, <2>1, <2>2 DEF Pics, Reasoned
  <2>6. 2 \in ps[0].irr => Active(1, ps[1])
    BY <1>1, <1>3, <2>1, <2>2 DEF Reasoned
  <2>7. ps[0].last_irr = pic[0].last_irr
    BY <1>1, <1>3, <2>1, <2>2
  <2> QED
    BY <1>4, <2>2, <2>3, <2>4, <2>5, <2>6, <2>7
<1>6. CASE \E i \in Irqs : Deliver([pic EXCEPT ![0] = Intack(@, 2), ![1] = Intack(@, i)], <<1, i>>)
  <2>1. PICK i \in Irqs : Deliver([pic EXCEPT ![0] = Intack(@, 2), ![1] = Intack(@, i)], <<1, i>>)
    BY <1>6
  <2> DEFINE ps == [pic EXCEPT ![0] = Intack(@, 2), ![1] = Intack(@, i)]
  <2>2. ps[0] = Intack(pic[0], 2) /\ ps[1] = Intack(pic[1], i) /\ ps \in [Pics -> PicState]
    BY <1>1, <1>3
  <2>3. <<1, i>> \notin {Spurious, SlaveSpurious}
    BY DEF Spurious, SlaveSpurious, Irqs
  <2>4. Deliver(ps, <<1, i>>)
    BY <2>1
  <2> HIDE DEF ps
  <2>5. \A q \in Pics : ps[q].imr = {} /\ ps[q].poll = 0
    BY <1>1, <1>3, <2>2 DEF Pics
  <2>6. 2 \notin ps[0].irr
    BY <1>1, <1>3, <2>2
  <2>7. ps[0].last_irr = pic[0].last_irr
    BY <1>1, <1>3, <2>2
  <2> QED
    BY <1>4, <2>2, <2>3, <2>4, <2>5, <2>6, <2>7
<1> QED
  BY <1>2, <1>5, <1>6 DEF Acknowledge, ReadIrq

\* The end of an interrupt, and the modes without effect.
LEMMA PortExact ==
  ASSUME Good, Exact, NEW p \in Pics, Port(p), OnlyEnds
  PROVE  Reasoned(pic', intr') /\ NeverSpurious'
<1>1. /\ pic \in [Pics -> PicState] /\ pic[p] \in PicState /\ 2 \notin pic[0].last_irr
      /\ Reasoned(pic, intr) /\ NeverSpurious /\ pic[p].poll = 0 /\ pic[p].imr = {}
  BY DEF Good, Shape, TypeOK, Exact, Reasoned
<1>2. ASSUME NEW kind, NEW isr \in SUBSET pic[p].isr,
             WritesAndUpdates(p, kind, [pic[p] EXCEPT !.isr = isr])
      PROVE  Reasoned(pic', intr') /\ NeverSpurious'
  <2> DEFINE s == [pic[p] EXCEPT !.isr = isr]
             ps == [pic EXCEPT ![p] = s]
  <2>1. /\ s \in PicState /\ s.imr = {} /\ s.poll = 0 /\ s.irr = pic[p].irr /\ s.isr = isr
        /\ s.last_irr = pic[p].last_irr
        /\ s.priority_add = pic[p].priority_add /\ s.sfnm = pic[p].sfnm
    BY <1>1, <1>2 DEF PicState
  <2>2. Update(ps, intr) /\ vector' = vector
    BY <1>2 DEF WritesAndUpdates
  <2> HIDE DEF s
  <2>3. ps \in [Pics -> PicState] /\ 2 \notin ps[0].last_irr
    BY <1>1, <2>1 DEF Pics
  <2>4. Reasoned(ps, intr)
    BY <1>1, <1>2, <2>1, ReasonsStay
  <2> HIDE DEF ps
  <2> QED
    BY <1>1, <2>2, <2>3, <2>4, UpdateReasoned DEF NeverSpurious
<1>3. CASE WriteSpecial(p) \/ WriteRotate(p)
  <2>1. PICK on \in Flag : \/ Writes(p, "special", [pic[p] EXCEPT !.special_mask = on])
                           \/ Writes(p, "rotate_aeoi", [pic[p] EXCEPT !.rotate = on])
    BY <1>3 DEF WriteSpecial, WriteRotate
  <2>2. PICK s \in {[pic[p] EXCEPT !.special_mask = on], [pic[p] EXCEPT !.rotate = on]} :
          pic' = [pic EXCEPT ![p] = s]
    BY <2>1 DEF Writes
  <2>3. /\ s \in PicState /\ s.imr = {} /\ s.poll = 0 /\ s.irr = pic[p].irr /\ s.isr = pic[p].isr
        /\ s.priority_add = pic[p].priority_add /\ s.sfnm = pic[p].sfnm
    <3>1. on \in Flag
      BY <2>1
    <3>2. CASE s = [pic[p] EXCEPT !.special_mask = on]
      BY <1>1, <3>1, <3>2 DEF PicState
    <3>3. CASE s = [pic[p] EXCEPT !.rotate = on]
      BY <1>1, <3>1, <3>3 DEF PicState
    <3> QED
      BY <2>2, <3>2, <3>3
  <2>4. intr' = intr /\ vector' = vector
    BY <2>1 DEF Writes
  <2>5. Reasoned([pic EXCEPT ![p] = s], intr)
    BY <1>1, <2>3, ReasonsStay
  <2> QED
    BY <1>1, <2>2, <2>4, <2>5 DEF NeverSpurious
<1>4. CASE Eoi(p) \/ SpecificEoi(p)
  <2>1. PICK i, kind : WritesAndUpdates(p, kind, [pic[p] EXCEPT !.isr = @ \ {i}])
    <3>1. <<p, "rotate_eoi">> \notin Commands
      BY DEF OnlyEnds
    <3> QED
      BY <1>4, <3>1 DEF Eoi, SpecificEoi, WritesAndUpdates
  <2>2. pic[p].isr \ {i} \in SUBSET pic[p].isr
    OBVIOUS
  <2> QED
    BY <1>2, <2>1, <2>2
<1>5. ~Icw1(p) /\ ~WriteImr(p) /\ ~Icw2(p) /\ ~Icw3(p) /\ ~Icw4(p) /\ ~WritePoll(p) /\ ~SetPriority(p)
  BY DEF OnlyEnds, Icw1, WriteImr, Icw2, Icw3, Icw4, WritePoll, SetPriority, Writes, WritesAndUpdates
<1>6. ~PollRead(p)
  BY <1>1 DEF PollRead
<1> QED
  BY <1>3, <1>4, <1>5, <1>6 DEF Port

\* A guest whose handlers only end interrupts, in order or by name, is never given one that
\* nobody requested, neither the master's line 7 nor the slave's.
THEOREM NothingSpurious == OnlyEnds => (Spec => []NeverSpurious)
<1> SUFFICES ASSUME OnlyEnds PROVE Spec => []NeverSpurious
  OBVIOUS
<1>1. Init => Exact
  <2>1. SUFFICES ASSUME Init PROVE Exact
    OBVIOUS
  <2>2. \A q \in Pics : pic[q].irr = {} /\ pic[q].imr = {} /\ pic[q].poll = 0
    BY <2>1 DEF Init, Reset, ResetTo
  <2>3. 0 \in Pics
    BY DEF Pics
  <2> QED
    BY <2>1, <2>2, <2>3 DEF Init, Exact, Reasoned, NeverSpurious, NoVector, Spurious, SlaveSpurious
<1>2. Good /\ Exact /\ [Next]_vars => Exact'
  <2> SUFFICES ASSUME Good, Exact, [Next]_vars PROVE Exact'
    OBVIOUS
  <2>1. SUFFICES Reasoned(pic', intr') /\ NeverSpurious'
    BY DEF Exact, OnlyEnds
  <2>2. CASE Sti \/ Cli \/ Hlt \/ UNCHANGED vars
    BY <2>2 DEF Sti, Cli, Hlt, vars, Exact, NeverSpurious
  <2> QED
    BY <2>2, DeviceExact, AcknowledgeExact, PortExact DEF Next
<1>3. Exact => NeverSpurious
  BY DEF Exact
<1> QED
  BY <1>1, <1>2, <1>3, GoodInvariant, PTL DEF Spec

-----------------------------------------------------------------------------
(***************************************************************************)
(* Requests are only lost by being delivered.                              *)
(***************************************************************************)
\* The device requests two controllers hold.
RequestsOf(ps) == {r \in Pics \X Irqs : r[2] \in ps[r[1]].irr /\ r # <<0, 2>>}

\* The master's line 2 is not one of them.
LEMMA SameRequests ==
  ASSUME NEW ps, NEW qs, ps[1].irr = qs[1].irr, ps[0].irr \ {2} = qs[0].irr \ {2}
  PROVE  RequestsOf(ps) = RequestsOf(qs)
<1>1. ASSUME NEW r \in Pics \X Irqs, r # <<0, 2>>
      PROVE  r[2] \in ps[r[1]].irr <=> r[2] \in qs[r[1]].irr
  <2>1. PICK p \in Pics, i \in Irqs : r = <<p, i>>
    OBVIOUS
  <2>2. CASE p = 0
    <3>1. i # 2
      BY <1>1, <2>1, <2>2
    <3> QED
      BY <2>1, <2>2, <3>1
  <2>3. CASE p = 1
    BY <2>1, <2>3
  <2> QED
    BY <2>2, <2>3 DEF Pics
<1> QED
  BY <1>1 DEF RequestsOf

\* pic_update_irq loses none.
LEMMA UpdateKeepsRequests ==
  ASSUME NEW ps \in [Pics -> PicState], NEW line, Update(ps, line)
  PROVE  /\ RequestsOf(pic') = RequestsOf(ps)
         /\ pic'[1] = ps[1] /\ pic'[0].poll = ps[0].poll
<1>1. ps[0] \in PicState /\ 2 \in Irqs /\ 0 \in Pics /\ 1 \in Pics /\ 0 # 1
  BY DEF Pics, Irqs
<1> DEFINE a == SetLine(ps[0], 2, 1)
           b == SetLine(a, 2, 0)
<1>2. a \in PicState /\ a.irr \ {2} = ps[0].irr \ {2} /\ a.poll = ps[0].poll
  BY <1>1 DEF SetLine, PicState
<1> HIDE DEF a
<1>3. b.irr \ {2} = ps[0].irr \ {2} /\ b.poll = ps[0].poll
  BY <1>1, <1>2 DEF SetLine, PicState
<1>4. pic' = ps \/ pic' = [ps EXCEPT ![0] = b]
  BY DEF Update, Cascade, a
<1> HIDE DEF b
<1>5. pic'[1] = ps[1] /\ pic'[0].irr \ {2} = ps[0].irr \ {2} /\ pic'[0].poll = ps[0].poll
  BY <1>1, <1>3, <1>4
<1> QED
  BY <1>5, SameRequests

\* Taking line i of controller p takes that one request, and none when it is the master's line 2.
LEMMA TakesOne ==
  ASSUME NEW ps, NEW qs, NEW p \in Pics, NEW i \in Irqs, i \in ps[p].irr,
         qs[p].irr = ps[p].irr \ {i}, \A q \in Pics \ {p} : qs[q].irr = ps[q].irr
  PROVE  RequestsOf(ps) \ RequestsOf(qs) = {<<p, i>>} \ {<<0, 2>>}
<1>1. ASSUME NEW q \in Pics, NEW j \in Irqs
      PROVE  <<q, j>> \in RequestsOf(ps) \ RequestsOf(qs) <=> <<q, j>> \in {<<p, i>>} \ {<<0, 2>>}
  <2>1. CASE q = p
    BY <2>1 DEF RequestsOf
  <2>2. CASE q # p
    BY <2>2 DEF RequestsOf
  <2> QED
    BY <2>1, <2>2
<1> DEFINE A == RequestsOf(ps) \ RequestsOf(qs)
           B == {<<p, i>>} \ {<<0, 2>>}
<1>2. \A r \in A : r \in Pics \X Irqs
  BY DEF RequestsOf
<1>3. \A r \in B : r \in Pics \X Irqs
  OBVIOUS
<1>4. \A q \in Pics, j \in Irqs : <<q, j>> \in A <=> <<q, j>> \in B
  BY <1>1
<1> HIDE DEF A, B
<1>5. \A r \in Pics \X Irqs : r \in A <=> r \in B
  <2> SUFFICES ASSUME NEW r \in Pics \X Irqs PROVE r \in A <=> r \in B
    OBVIOUS
  <2>1. PICK q \in Pics, j \in Irqs : r = <<q, j>>
    OBVIOUS
  <2> QED
    BY <1>4, <2>1
<1>6. A = B
  BY <1>2, <1>3, <1>5
<1> QED
  BY <1>6 DEF A, B

\* pic_intack is such a step.
LEMMA IntackTakes ==
  ASSUME NEW ps \in [Pics -> PicState], NEW p \in Pics, NEW i \in Irqs
  PROVE  LET qs == [ps EXCEPT ![p] = Intack(ps[p], i)] IN
         /\ qs \in [Pics -> PicState] /\ qs[p].irr = ps[p].irr \ {i}
         /\ \A q \in Pics \ {p} : qs[q] = ps[q]
<1>1. ps[p] \in PicState
  OBVIOUS
<1>2. Intack(ps[p], i).irr = ps[p].irr \ {i}
  BY <1>1 DEF Intack, PicState
<1>3. Intack(ps[p], i) \in PicState
  BY <1>1, IntackType
<1> QED
  BY <1>2, <1>3

\* The acknowledge takes exactly what it delivers.
LEMMA AcknowledgeTakes ==
  ASSUME Shape, Acknowledge
  PROVE  /\ Requests \ Requests' = {vector'} \ {Spurious, SlaveSpurious}
         /\ Requests \ Requests' = {} \/ Requests \ Requests' = {vector'}
<1>1. /\ pic \in [Pics -> PicState] /\ 0 \in Pics /\ 1 \in Pics /\ 2 \in Irqs /\ 0 # 1
  BY DEF Shape, TypeOK, Pics, Irqs
<1>2. Requests = RequestsOf(pic) /\ Requests' = RequestsOf(pic')
  BY DEF Requests, RequestsOf
<1>3. ASSUME NEW ps \in [Pics -> PicState], NEW v, Deliver(ps, v)
      PROVE  Requests \ Requests' = RequestsOf(pic) \ RequestsOf(ps) /\ vector' = v
  BY <1>2, <1>3, UpdateKeepsRequests DEF Deliver
<1>4. \A p \in Pics, i \in Irqs : Wants(p, pic[p], i) => i \in pic[p].irr
  BY DEF Wants, Highest
<1>5. \A p \in Pics, i \in Irqs : <<p, i>> \notin {Spurious, SlaveSpurious}
  BY DEF Spurious, SlaveSpurious, Irqs
<1>6. CASE Deliver(pic, Spurious)
  BY <1>1, <1>3, <1>6
<1>7. CASE \E i \in Irqs \ {2} :
             Wants(0, pic[0], i) /\ Deliver([pic EXCEPT ![0] = Intack(@, i)], <<0, i>>)
  <2>1. PICK i \in Irqs \ {2} :
             Wants(0, pic[0], i) /\ Deliver([pic EXCEPT ![0] = Intack(@, i)], <<0, i>>)
    BY <1>7
  <2> DEFINE qs == [pic EXCEPT ![0] = Intack(@, i)]
  <2>2. qs \in [Pics -> PicState] /\ RequestsOf(pic) \ RequestsOf(qs) = {<<0, i>>}
    <3>1. /\ i \in pic[0].irr /\ qs \in [Pics -> PicState] /\ qs[0].irr = pic[0].irr \ {i}
          /\ \A q \in Pics \ {0} : qs[q] = pic[q]
      BY <1>1, <1>4, <2>1, IntackTakes
    <3> HIDE DEF qs
    <3>2. RequestsOf(pic) \ RequestsOf(qs) = {<<0, i>>} \ {<<0, 2>>}
      BY <1>1, <3>1, TakesOne
    <3>3. <<0, i>> # <<0, 2>>
      BY <2>1
    <3> QED
      BY <3>1, <3>2, <3>3
  <2>3. Deliver(qs, <<0, i>>)
    BY <2>1
  <2> HIDE DEF qs
  <2>4. Requests \ Requests' = {<<0, i>>} /\ vector' = <<0, i>>
    BY <1>3, <2>2, <2>3
  <2> QED
    BY <1>1, <1>5, <2>1, <2>4
<1>8. CASE Wants(0, pic[0], 2) /\ Deliver([pic EXCEPT ![0] = Intack(@, 2)], SlaveSpurious)
  <2> DEFINE qs == [pic EXCEPT ![0] = Intack(@, 2)]
  <2>2. qs \in [Pics -> PicState] /\ RequestsOf(pic) \ RequestsOf(qs) = {}
    <3>1. /\ 2 \in pic[0].irr /\ qs \in [Pics -> PicState] /\ qs[0].irr = pic[0].irr \ {2}
          /\ \A q \in Pics \ {0} : qs[q] = pic[q]
      BY <1>1, <1>4, <1>8, IntackTakes
    <3> HIDE DEF qs
    <3>2. RequestsOf(pic) \ RequestsOf(qs) = {<<0, 2>>} \ {<<0, 2>>}
      BY <1>1, <3>1, TakesOne
    <3> QED
      BY <3>1, <3>2
  <2>3. Deliver(qs, SlaveSpurious)
    BY <1>8
  <2> HIDE DEF qs
  <2> QED
    BY <1>3, <2>2, <2>3
<1>9. CASE \E i \in Irqs :
             /\ Wants(0, pic[0], 2) /\ Wants(1, pic[1], i)
             /\ Deliver([pic EXCEPT ![0] = Intack(@, 2), ![1] = Intack(@, i)], <<1, i>>)
  <2>1. PICK i \in Irqs :
             /\ Wants(0, pic[0], 2) /\ Wants(1, pic[1], i)
             /\ Deliver([pic EXCEPT ![0] = Intack(@, 2), ![1] = Intack(@, i)], <<1, i>>)
    BY <1>9
  <2> DEFINE ps == [pic EXCEPT ![0] = Intack(@, 2)]
             qs == [ps EXCEPT ![1] = Intack(@, i)]
  <2>2. ps \in [Pics -> PicState] /\ RequestsOf(pic) \ RequestsOf(ps) = {} /\ ps[1] = pic[1]
    <3>1. /\ 2 \in pic[0].irr /\ ps \in [Pics -> PicState] /\ ps[0].irr = pic[0].irr \ {2}
          /\ \A q \in Pics \ {0} : ps[q] = pic[q]
      BY <1>1, <1>4, <2>1, IntackTakes
    <3> HIDE DEF ps
    <3>2. RequestsOf(pic) \ RequestsOf(ps) = {<<0, 2>>} \ {<<0, 2>>}
      BY <1>1, <3>1, TakesOne
    <3> QED
      BY <1>1, <3>1, <3>2
  <2>3. Deliver(qs, <<1, i>>)
    BY <2>1
  <2> HIDE DEF ps
  <2>4. qs \in [Pics -> PicState] /\ RequestsOf(ps) \ RequestsOf(qs) = {<<1, i>>}
    <3>1. /\ i \in ps[1].irr /\ qs \in [Pics -> PicState] /\ qs[1].irr = ps[1].irr \ {i}
          /\ \A q \in Pics \ {1} : qs[q] = ps[q]
      <4>1. i \in ps[1].irr
        BY <1>1, <1>4, <2>1, <2>2
      <4> QED
        BY <1>1, <2>2, <4>1, IntackTakes
    <3> HIDE DEF qs
    <3>2. RequestsOf(ps) \ RequestsOf(qs) = {<<1, i>>} \ {<<0, 2>>}
      <4>1. \A q \in Pics \ {1} : qs[q].irr = ps[q].irr
        BY <3>1
      <4>2. i \in ps[1].irr /\ qs[1].irr = ps[1].irr \ {i} /\ 1 \in Pics /\ i \in Irqs
        BY <1>1, <2>1, <3>1
      <4> QED
        BY <4>1, <4>2, TakesOne
    <3>3. <<1, i>> # <<0, 2>>
      OBVIOUS
    <3> QED
      BY <3>1, <3>2, <3>3
  <2>5. RequestsOf(ps) \subseteq RequestsOf(pic)
    <3>1. ps[0].irr = pic[0].irr \ {2}
      BY <1>1 DEF ps, Intack, PicState
    <3>2. RequestsOf(ps) = RequestsOf(pic)
      BY <2>2, <3>1, SameRequests
    <3> QED
      BY <3>2
  <2> HIDE DEF qs
  <2>6. Requests \ Requests' = {<<1, i>>} /\ vector' = <<1, i>>
    BY <1>3, <2>2, <2>3, <2>4, <2>5
  <2> QED
    BY <1>1, <1>5, <2>1, <2>6
<1> QED
  BY <1>6, <1>7, <1>8, <1>9 DEF Acknowledge, ReadIrq

\* A port write that leaves a controller's requests alone loses none.
LEMMA WriteKeeps ==
  ASSUME Shape, NEW p \in Pics, NEW kind, NEW s \in PicState, s.irr = pic[p].irr,
         Writes(p, kind, s) \/ WritesAndUpdates(p, kind, s)
  PROVE  Requests \ Requests' = {}
<1> DEFINE ps == [pic EXCEPT ![p] = s]
<1>1. pic \in [Pics -> PicState] /\ 0 \in Pics /\ 1 \in Pics
  BY DEF Shape, TypeOK, Pics
<1>2. ps \in [Pics -> PicState] /\ \A q \in Pics : ps[q].irr = pic[q].irr
  BY <1>1
<1>3. pic' = ps \/ Update(ps, intr)
  BY DEF Writes, WritesAndUpdates
<1> HIDE DEF ps
<1>4. RequestsOf(ps) = RequestsOf(pic)
  BY <1>1, <1>2, SameRequests
<1>5. RequestsOf(pic') = RequestsOf(ps)
  BY <1>2, <1>3, UpdateKeepsRequests
<1> QED
  BY <1>4, <1>5 DEF Requests, RequestsOf

\* What the ports may take: nothing, unless it is a new ICW1 or the answer to a poll.
LEMMA PortTakes ==
  ASSUME Shape, NEW p \in Pics, Port(p)
  PROVE  \/ Requests \ Requests' = {}
         \/ pic'[p].init_state = 1 \/ pic'[p].poll # pic[p].poll
<1>1. pic \in [Pics -> PicState] /\ pic[p] \in PicState /\ 0 \in Pics /\ 1 \in Pics
  BY DEF Shape, TypeOK, Pics
<1>2. CASE Icw1(p)
  <2>1. PICK ic4, sngl \in Flag : pic' = [pic EXCEPT ![p] = ResetTo(1, ic4, sngl)]
    BY <1>2 DEF Icw1, Writes
  <2>2. pic'[p] = ResetTo(1, ic4, sngl)
    BY <1>1, <2>1
  <2> QED
    BY <2>2 DEF ResetTo
<1>3. CASE WriteImr(p)
  <2>1. PICK mask \in SUBSET MaskLines(p) : WritesAndUpdates(p, "imr", [pic[p] EXCEPT !.imr = mask])
    BY <1>3 DEF WriteImr
  <2>2. mask \in SUBSET Irqs
    BY <2>1, PicAssumption DEF MaskLines, Irqs
  <2>3. [pic[p] EXCEPT !.imr = mask] \in PicState /\ [pic[p] EXCEPT !.imr = mask].irr = pic[p].irr
    BY <1>1, <2>2 DEF PicState
  <2> QED
    BY <2>1, <2>3, WriteKeeps
<1>4. CASE Icw2(p) \/ Icw3(p)
  <2>1. PICK k \in {0, 2, 3}, kind \in {"icw2", "icw3"} : Writes(p, kind, [pic[p] EXCEPT !.init_state = k])
    BY <1>4 DEF Icw2, Icw3
  <2>2. k \in 0 .. 3
    BY <2>1
  <2>3. [pic[p] EXCEPT !.init_state = k] \in PicState /\ [pic[p] EXCEPT !.init_state = k].irr = pic[p].irr
    BY <1>1, <2>2 DEF PicState
  <2> QED
    BY <2>1, <2>3, WriteKeeps
<1>5. CASE Icw4(p)
  <2>1. PICK aeoi \in Flag, on \in Flag, kind \in {"icw4", "sfnm"} :
          Writes(p, kind, [pic[p] EXCEPT !.sfnm = on, !.auto_eoi = aeoi, !.init_state = 0])
    BY <1>5 DEF Icw4, Flag
  <2> DEFINE s == [pic[p] EXCEPT !.sfnm = on, !.auto_eoi = aeoi, !.init_state = 0]
  <2> DEFINE t == [pic[p] EXCEPT !.sfnm = on, !.auto_eoi = aeoi]
  <2>2. t \in PicState /\ t.irr = pic[p].irr
    BY <1>1, <2>1 DEF PicState
  <2>3. s \in PicState /\ s.irr = pic[p].irr
    <3>1. s = [t EXCEPT !.init_state = 0]
      OBVIOUS
    <3> HIDE DEF s, t
    <3> QED
      BY <2>2, <3>1 DEF PicState
  <2>4. Writes(p, kind, s)
    BY <2>1
  <2> HIDE DEF s
  <2> QED
    BY <2>3, <2>4, WriteKeeps
<1>6. CASE WritePoll(p)
  <2>1. Writes(p, "poll", [pic[p] EXCEPT !.poll = 1])
    BY <1>6 DEF WritePoll
  <2>2. [pic[p] EXCEPT !.poll = 1] \in PicState /\ [pic[p] EXCEPT !.poll = 1].irr = pic[p].irr
    BY <1>1 DEF PicState, Flag
  <2> QED
    BY <2>1, <2>2, WriteKeeps
<1>7. CASE WriteSpecial(p)
  <2>1. PICK on \in Flag : Writes(p, "special", [pic[p] EXCEPT !.special_mask = on])
    BY <1>7 DEF WriteSpecial
  <2>2. [pic[p] EXCEPT !.special_mask = on] \in PicState /\ [pic[p] EXCEPT !.special_mask = on].irr = pic[p].irr
    BY <1>1 DEF PicState
  <2> QED
    BY <2>1, <2>2, WriteKeeps
<1>8. CASE WriteRotate(p)
  <2>1. PICK on \in Flag : Writes(p, "rotate_aeoi", [pic[p] EXCEPT !.rotate = on])
    BY <1>8 DEF WriteRotate
  <2>2. [pic[p] EXCEPT !.rotate = on] \in PicState /\ [pic[p] EXCEPT !.rotate = on].irr = pic[p].irr
    BY <1>1 DEF PicState
  <2> QED
    BY <2>1, <2>2, WriteKeeps
<1>9. CASE Eoi(p) \/ SpecificEoi(p) \/ SetPriority(p)
  <2>1. PICK isr \in SUBSET pic[p].isr, add \in Irqs, kind \in {"eoi", "rotate_eoi", "specific_eoi", "set_priority"} :
          WritesAndUpdates(p, kind, [pic[p] EXCEPT !.isr = isr, !.priority_add = add])
    <3>1. \A i : pic[p].isr \ {i} \in SUBSET pic[p].isr
      OBVIOUS
    <3>2. pic[p].priority_add \in Irqs /\ MaskLines(p) \subseteq Irqs /\ Lines[p] \subseteq Irqs
      BY <1>1, PicAssumption DEF PicState, MaskLines, Irqs
    <3>3. \A isr \in SUBSET pic[p].isr :
            [pic[p] EXCEPT !.isr = isr] = [pic[p] EXCEPT !.isr = isr, !.priority_add = pic[p].priority_add]
      BY <1>1 DEF PicState
    <3>4. \A add : [pic[p] EXCEPT !.priority_add = add] = [pic[p] EXCEPT !.isr = pic[p].isr, !.priority_add = add]
      BY <1>1 DEF PicState
    <3>5. CASE Eoi(p)
      BY <3>1, <3>2, <3>3, <3>5, RotateType DEF Eoi
    <3>6. CASE SpecificEoi(p)
      BY <3>1, <3>2, <3>3, <3>6, RotateType DEF SpecificEoi
    <3>7. CASE SetPriority(p)
      BY <3>1, <3>2, <3>4, <3>7, RotateType DEF SetPriority
    <3> QED
      BY <1>9, <3>5, <3>6, <3>7
  <2> DEFINE s == [pic[p] EXCEPT !.isr = isr, !.priority_add = add]
  <2>2. s \in PicState /\ s.irr = pic[p].irr
    BY <1>1, <2>1 DEF PicState
  <2>3. WritesAndUpdates(p, kind, s)
    BY <2>1
  <2> HIDE DEF s
  <2> QED
    BY <2>2, <2>3, WriteKeeps
<1>10. CASE PollRead(p)
  <2>1. PICK ps : /\ ps = [pic EXCEPT ![p] = [pic[p] EXCEPT !.poll = 0]] \/ \E i \in Irqs : ps = Polled(p, i)
                  /\ Update(ps, intr) \/ pic' = ps
    BY <1>10 DEF PollRead
  <2>2. ps \in [Pics -> PicState] /\ ps[p].poll = 0
    <3>1. CASE ps = [pic EXCEPT ![p] = [pic[p] EXCEPT !.poll = 0]]
      BY <1>1, <3>1 DEF PicState, Flag
    <3>2. CASE \E i \in Irqs : ps = Polled(p, i)
      <4>1. PICK i \in Irqs : ps = Polled(p, i)
        BY <3>2
      <4> DEFINE t == [Drop(pic[p], i) EXCEPT !.poll = 0]
                 u == Drop(pic[0], 2)
      <4>2. t \in PicState /\ u \in PicState /\ t.poll = 0
        BY <1>1 DEF Drop, PicState, Flag
      <4>3. ps = IF p = 1 THEN [[pic EXCEPT ![p] = t] EXCEPT ![0] = u] ELSE [pic EXCEPT ![p] = t]
        BY <4>1 DEF Polled
      <4> HIDE DEF t, u
      <4> QED
        BY <1>1, <4>2, <4>3 DEF Pics
    <3> QED
      BY <2>1, <3>1, <3>2
  <2>3. pic'[p].poll = 0
    BY <2>1, <2>2, UpdateKeepsRequests DEF Pics
  <2> QED
    BY <1>10, <2>3 DEF PollRead
<1> QED
  BY <1>2, <1>3, <1>4, <1>5, <1>6, <1>7, <1>8, <1>9, <1>10 DEF Port

\* No step loses a request that it does not deliver, whatever the guest programs, short of a
\* new ICW1 or a poll; an acknowledge takes exactly the request the CPU is given the vector of.
THEOREM RequestsAreDelivered == Spec => DeliveredOnce
<1> DEFINE A == LET lost == Requests \ Requests' IN
     /\ Acknowledge => lost = {vector'} \ {Spurious, SlaveSpurious}
     /\ lost = {} \/ lost = {vector'}
          \/ \E p \in Pics : pic'[p].init_state = 1 \/ pic'[p].poll # pic[p].poll
<1>1. Good /\ [Next]_vars => [A]_vars
  <2> SUFFICES ASSUME Good, Next PROVE A
    OBVIOUS
  <2>1. Shape
    BY DEF Good
  <2>2. CASE Acknowledge
    BY <2>1, <2>2, AcknowledgeTakes
  <2>3. CASE ~Acknowledge /\ Device
    <3>1. PICK p \in Pics, i \in Irqs, level \in Flag : SetIrq(p, i, level)
      BY <2>3 DEF Device
    <3> DEFINE s == SetLine(pic[p], i, level)
               ps == [pic EXCEPT ![p] = s]
    <3>2. pic \in [Pics -> PicState] /\ pic[p] \in PicState
      BY <2>1 DEF Shape, TypeOK
    <3>3. s \in PicState /\ pic[p].irr \subseteq s.irr
      BY <3>2 DEF SetLine, PicState
    <3>4. Update(ps, intr)
      BY <3>1 DEF SetIrq
    <3> HIDE DEF s
    <3>5. ps \in [Pics -> PicState] /\ \A q \in Pics : pic[q].irr \subseteq ps[q].irr
      BY <3>2, <3>3
    <3> HIDE DEF ps
    <3>6. RequestsOf(pic') = RequestsOf(ps)
      BY <3>4, <3>5, UpdateKeepsRequests
    <3>7. RequestsOf(pic) \subseteq RequestsOf(ps)
      BY <3>5 DEF RequestsOf
    <3>8. Requests \ Requests' = {}
      BY <3>6, <3>7 DEF Requests, RequestsOf
    <3> QED
      BY <2>3, <3>8
  <2>4. CASE ~Acknowledge /\ (Sti \/ Cli \/ Hlt)
    <3>1. Requests \ Requests' = {}
      BY <2>4 DEF Sti, Cli, Hlt, Requests
    <3> QED
      BY <2>4, <3>1
  <2>5. CASE ~Acknowledge /\ \E p \in Pics : Port(p)
    BY <2>1, <2>5, PortTakes
  <2> QED
    BY <2>2, <2>3, <2>4, <2>5 DEF Next
<1> QED
  BY <1>1, GoodInvariant, PTL DEF Spec, DeliveredOnce

-----------------------------------------------------------------------------
(***************************************************************************)
(* The page tables and the caches before them.                             *)
(*                                                                         *)
(* Every access comes out as the page tables say: AccessExact, for every   *)
(* number of pages, frames and cache slots, with and without the caches    *)
(* before the TLB.                                                         *)
(*                                                                         *)
(* AccessExact speaks of the last access only.  What makes it inductive is *)
(* that every entry the CPU keeps, of a page that lost nothing since the   *)
(* last flush, still tells the truth: TlbFresh of the TLB, whose entries   *)
(* may be weaker than the tables by rights granted since, and FastFresh of *)
(* the two caches before it, which remember only that an access of their   *)
(* kind was allowed.                                                       *)
(***************************************************************************)
Pte == [present : BOOLEAN, rights : Rights, frame : MmuFrames, accessed : BOOLEAN, dirty : BOOLEAN]
TlbEntry  == [page : LPages, frame : MmuFrames, rights : Rights, protect : BOOLEAN]
FastEntry == [page : LPages, frame : MmuFrames, user : BOOLEAN]
AccessKinds == {"read", "write"}

MmuTypeOK ==
  /\ pde \in [rights : Rights, accessed : BOOLEAN]
  /\ pt \in [LPages -> Pte]
  /\ wp \in BOOLEAN
  /\ tlb \in [0 .. TlbSlots - 1 -> TlbEntry \cup {NoEntry}]
  /\ fast \in [AccessKinds -> [0 .. FastSlots - 1 -> FastEntry \cup {NoEntry}]]
  /\ ifetch \in [page : LPages, frame : MmuFrames] \cup {NoEntry}
  /\ owed \subseteq LPages /\ relaxed \subseteq LPages

\* A TLB entry is at its slot.
TlbInSlot == \A s \in 0 .. TlbSlots - 1 : tlb[s] # NoEntry => tlb[s].page % TlbSlots = s

\* What a TLB entry says of its page: no more than the tables, and exactly as much unless
\* rights were granted since.
TlbFresh(e) ==
  /\ pt[e.page].present /\ pt[e.page].accessed
  /\ e.frame = pt[e.page].frame /\ e.protect = wp
  /\ Weaker(e.rights, Both(e.page))
  /\ e.page \notin relaxed => e.rights = Both(e.page)

TlbExact == \A s \in 0 .. TlbSlots - 1 :
              tlb[s] # NoEntry /\ tlb[s].page \notin owed => TlbFresh(tlb[s])

\* What an entry of a cache before the TLB says: an access of its kind is still allowed.
FastFresh(k, e) ==
  /\ pt[e.page].present /\ pt[e.page].accessed
  /\ e.frame = pt[e.page].frame
  /\ ~Refuses(Both(e.page), e.user, k = "write", wp)
  /\ k = "write" => pt[e.page].dirty

FastExact == \A k \in AccessKinds : \A s \in 0 .. FastSlots - 1 :
               fast[k][s] # NoEntry /\ fast[k][s].page \notin owed => FastFresh(k, fast[k][s])

MmuInv == MmuTypeOK /\ TlbInSlot /\ TlbExact /\ FastExact /\ AccessExact

-----------------------------------------------------------------------------
(***************************************************************************)
(* The operators.                                                          *)
(***************************************************************************)
\* Both is a pair of rights, and grants what both levels grant.
LEMMA BothRights ==
  ASSUME MmuTypeOK, NEW p \in LPages
  PROVE  /\ Both(p) \in Rights
         /\ Both(p).user <=> pt[p].rights.user /\ pde.rights.user
         /\ Both(p).write <=> pt[p].rights.write /\ pde.rights.write
  BY DEF MmuTypeOK, Both, Rights, Pte

\* NoEntry is an entry of no page.
LEMMA NoEntryNoPage ==
  /\ NoEntry.page = -1 /\ -1 \notin LPages
  /\ NoEntry \notin TlbEntry /\ NoEntry \notin FastEntry
  /\ NoEntry \notin [page : LPages, frame : MmuFrames]
  <1>1. NoEntry.page = -1
    BY DEF NoEntry
  <1>2. -1 \notin LPages
    BY DEF LPages
  <1>. QED  BY <1>1, <1>2 DEF TlbEntry, FastEntry

\* Slots.
LEMMA SlotTypes ==
  ASSUME NEW p \in LPages
  PROVE  p \in Nat /\ p % TlbSlots \in 0 .. TlbSlots - 1 /\ p % FastSlots \in 0 .. FastSlots - 1
  BY MmuAssumption DEF LPages

\* Being weaker is an order.
LEMMA WeakerOrder ==
  ASSUME NEW r \in Rights, NEW q \in Rights, NEW t \in Rights
  PROVE  Weaker(r, r) /\ (Weaker(r, q) /\ Weaker(q, t) => Weaker(r, t))
  BY DEF Rights, Weaker

(***************************************************************************)
(* What an access leaves alone: the tables but for the marks in them.      *)
(***************************************************************************)
Marks ==
  /\ pde' \in [rights : Rights, accessed : BOOLEAN] /\ pde'.rights = pde.rights
  /\ pt' \in [LPages -> Pte]
  /\ \A q \in LPages :
       /\ pt'[q].present = pt[q].present /\ pt'[q].rights = pt[q].rights /\ pt'[q].frame = pt[q].frame
       /\ pt[q].accessed => pt'[q].accessed
       /\ pt[q].dirty => pt'[q].dirty

\* translate_lpgno on a miss: marks only, those of the page among them.
LEMMA MissMarks ==
  ASSUME MmuTypeOK, NEW p \in LPages, NEW written \in BOOLEAN, Accessed(p, written)
  PROVE  Marks /\ (pt[p].present => pt'[p].accessed /\ (written => pt'[p].dirty))
  BY ZenonT(40) DEF MmuTypeOK, Accessed, Marks, Pte

\* On a hit: the dirty mark only.
LEMMA HitMarks ==
  ASSUME MmuTypeOK, NEW p \in LPages, NEW write \in BOOLEAN,
         pt' = [pt EXCEPT ![p].dirty = @ \/ write], UNCHANGED pde
  PROVE  Marks /\ (write => pt'[p].dirty)
  BY DEF MmuTypeOK, Marks, Pte

\* Nothing at all.
LEMMA NoMarks ==
  ASSUME MmuTypeOK, UNCHANGED <<pde, pt>>
  PROVE  Marks
  BY DEF MmuTypeOK, Marks

\* Marks change nothing of what the tables allow.
LEMMA MarksKeepBoth ==
  ASSUME MmuTypeOK, Marks, NEW p \in LPages
  PROVE  Both(p)' = Both(p)
  BY DEF Marks, Both

\* So the caches stay true: a TLB entry, if its page is no longer excused by a grant, has to
\* be exact already;
LEMMA MarksKeepTlb ==
  ASSUME MmuTypeOK, Marks, UNCHANGED wp, NEW e \in TlbEntry, TlbFresh(e),
         e.page \notin relaxed' => e.page \notin relaxed
  PROVE  TlbFresh(e)'
  <1>1. e.page \in LPages
    BY DEF TlbEntry
  <1>2. Both(e.page)' = Both(e.page)
    BY <1>1, MarksKeepBoth
  <1>. QED  BY <1>1, <1>2 DEF TlbFresh, Marks, Weaker

\* and so does an entry of a cache before it.
LEMMA MarksKeepFast ==
  ASSUME MmuTypeOK, Marks, UNCHANGED wp, NEW k \in AccessKinds, NEW e \in FastEntry, FastFresh(k, e)
  PROVE  FastFresh(k, e)'
  <1>1. e.page \in LPages
    BY DEF FastEntry
  <1>2. Both(e.page)' = Both(e.page)
    BY <1>1, MarksKeepBoth
  <1>. QED  BY <1>1, <1>2 DEF FastFresh, Marks, Refuses

\* The caches before the TLB, when an access changes nothing in them.
LEMMA FastKept ==
  ASSUME MmuTypeOK, FastExact, Marks, UNCHANGED <<wp, fast, owed>>
  PROVE  FastExact'
  <1>1. SUFFICES ASSUME NEW k \in AccessKinds, NEW s \in 0 .. FastSlots - 1,
                        fast[k][s] # NoEntry, fast[k][s].page \notin owed
                 PROVE  FastFresh(k, fast[k][s])'
    BY DEF FastExact
  <1>2. fast[k][s] \in FastEntry /\ FastFresh(k, fast[k][s])
    BY <1>1, ZenonT(40) DEF MmuTypeOK, FastExact
  <1>3. FastFresh(k, fast[k][s]) /\ fast' = fast
    BY <1>2
  <1>4. \A e \in FastEntry : FastFresh(k, e) => FastFresh(k, e)'
    BY MarksKeepFast
  <1>. QED  BY <1>2, <1>3, <1>4 DEF FastFresh

-----------------------------------------------------------------------------
(***************************************************************************)
(* The entry an access goes by.                                            *)
(***************************************************************************)
\* Found or filled in just now, the entry is of the page and says no more than the tables.
LEMMA EntryTrue ==
  ASSUME MmuTypeOK, TlbExact, NEW p \in LPages \ owed, Hit(p) \/ pt[p].present
  PROVE  /\ Entry(p) \in TlbEntry /\ Entry(p).page = p
         /\ pt[p].present /\ Entry(p).frame = pt[p].frame /\ Entry(p).protect = wp
         /\ Weaker(Entry(p).rights, Both(p))
         /\ p \notin relaxed => Entry(p).rights = Both(p)
         /\ Hit(p) => pt[p].accessed
  <1>1. CASE Hit(p)
    <2>1. tlb[p % TlbSlots] \in TlbEntry /\ tlb[p % TlbSlots].page = p /\ Entry(p) = tlb[p % TlbSlots]
      BY <1>1, SlotTypes, NoEntryNoPage DEF MmuTypeOK, Hit, Entry
    <2>2. TlbFresh(tlb[p % TlbSlots])
      BY <2>1, SlotTypes, NoEntryNoPage DEF TlbExact
    <2>. QED  BY <2>1, <2>2 DEF TlbFresh
  <1>2. CASE ~Hit(p)
    <2>1. Entry(p) = Refilled(p) /\ pt[p].present
      BY <1>2 DEF Hit, Entry
    <2>2. Both(p) \in Rights /\ Weaker(Both(p), Both(p))
      BY BothRights, WeakerOrder
    <2>. QED  BY <1>2, <2>1, <2>2 DEF Refilled, TlbEntry, MmuTypeOK, Pte
  <1>. QED  BY <1>1, <1>2

\* An entry is only found in its own slot.
LEMMA MissElsewhere ==
  ASSUME MmuTypeOK, TlbInSlot, NEW p \in LPages, NEW s \in 0 .. TlbSlots - 1,
         tlb[s] # NoEntry, tlb[s].page = p
  PROVE  s = p % TlbSlots /\ Hit(p)
  BY DEF TlbInSlot, Hit

-----------------------------------------------------------------------------
(***************************************************************************)
(* The three ways a walk through the TLB ends, shared by data accesses and *)
(* instruction fetches.                                                    *)
(***************************************************************************)
\* The page is absent: nothing is kept of it, so a grant no longer excuses anything.
LEMMA AbsentTlb ==
  ASSUME MmuInv, NEW p \in LPages \ owed, ~Hit(p), ~pt[p].present,
         Marks, UNCHANGED <<wp, tlb, owed>>, relaxed' = relaxed \ {p}
  PROVE  TlbInSlot' /\ TlbExact'
  <1>1. TlbInSlot'
    BY DEF MmuInv, TlbInSlot
  <1>2. ASSUME NEW s \in 0 .. TlbSlots - 1, tlb[s] # NoEntry, tlb[s].page \notin owed
        PROVE  TlbFresh(tlb[s])'
    <2>1. tlb[s] \in TlbEntry /\ TlbFresh(tlb[s])
      BY <1>2 DEF MmuInv, MmuTypeOK, TlbExact
    <2>2. tlb[s].page # p
      BY <1>2, MissElsewhere DEF MmuInv
    <2>3. \A e \in TlbEntry : TlbFresh(e) /\ e.page # p => TlbFresh(e)'
      BY MarksKeepTlb DEF MmuInv
    <2>. QED  BY <2>1, <2>2, <2>3 DEF TlbFresh
  <1>. QED  BY <1>1, <1>2 DEF TlbExact

\* The access is refused: the entry goes, so here too a grant no longer excuses anything.
LEMMA RefusedTlb ==
  ASSUME MmuInv, NEW p \in LPages \ owed, Marks, UNCHANGED <<wp, owed>>,
         tlb' = [tlb EXCEPT ![p % TlbSlots] = NoEntry], relaxed' = relaxed \ {p}
  PROVE  /\ tlb' \in [0 .. TlbSlots - 1 -> TlbEntry \cup {NoEntry}]
         /\ TlbInSlot' /\ TlbExact'
  <1>1. tlb' \in [0 .. TlbSlots - 1 -> TlbEntry \cup {NoEntry}]
    BY DEF MmuInv, MmuTypeOK
  <1>2. ASSUME NEW s \in 0 .. TlbSlots - 1, tlb'[s] # NoEntry
        PROVE  /\ tlb'[s] = tlb[s] /\ tlb[s] \in TlbEntry /\ tlb[s].page # p
               /\ tlb[s].page % TlbSlots = s
    BY <1>2, MissElsewhere, SlotTypes DEF MmuInv, MmuTypeOK, TlbInSlot
  <1>3. TlbInSlot'
    BY <1>2 DEF TlbInSlot
  <1>4. ASSUME NEW s \in 0 .. TlbSlots - 1, tlb'[s] # NoEntry, tlb'[s].page \notin owed'
        PROVE  TlbFresh(tlb[s])'
    <2>1. tlb[s] \in TlbEntry /\ TlbFresh(tlb[s])
      BY <1>2, <1>4 DEF MmuInv, MmuTypeOK, TlbExact
    <2>2. \A e \in TlbEntry : TlbFresh(e) /\ e.page # p => TlbFresh(e)'
      BY MarksKeepTlb DEF MmuInv
    <2>. QED  BY <1>2, <1>4, <2>1, <2>2 DEF TlbFresh
  <1>. QED  BY <1>1, <1>3, <1>4 DEF TlbExact, TlbFresh

\* The access is allowed: the entry it went by stays, or becomes, the page's.
LEMMA AllowedTlb ==
  ASSUME MmuInv, NEW p \in LPages \ owed, Hit(p) \/ pt[p].present, Marks, pt'[p].accessed,
         UNCHANGED <<wp, owed, relaxed>>, tlb' = [tlb EXCEPT ![p % TlbSlots] = Entry(p)]
  PROVE  /\ tlb' \in [0 .. TlbSlots - 1 -> TlbEntry \cup {NoEntry}]
         /\ TlbInSlot' /\ TlbExact'
  <1>1. Entry(p) \in TlbEntry /\ Entry(p).page = p
    BY EntryTrue DEF MmuInv
  <1>2. tlb' \in [0 .. TlbSlots - 1 -> TlbEntry \cup {NoEntry}]
    BY <1>1 DEF MmuInv, MmuTypeOK
  <1>3. ASSUME NEW s \in 0 .. TlbSlots - 1, tlb'[s] # NoEntry
        PROVE  /\ s # p % TlbSlots => tlb'[s] = tlb[s]
               /\ s = p % TlbSlots => tlb'[s] = Entry(p)
               /\ tlb'[s] \in TlbEntry
               /\ tlb'[s].page % TlbSlots = s
    BY <1>1, <1>3, SlotTypes DEF MmuInv, MmuTypeOK, TlbInSlot
  <1>4. TlbInSlot'
    BY <1>3 DEF TlbInSlot
  <1>5. ASSUME NEW s \in 0 .. TlbSlots - 1, tlb'[s] # NoEntry, tlb'[s].page \notin owed'
        PROVE  s # p % TlbSlots => TlbFresh(tlb[s])'
    <2>1. SUFFICES ASSUME s # p % TlbSlots
                   PROVE  TlbFresh(tlb[s])'
      OBVIOUS
    <2>2. tlb'[s] = tlb[s] /\ tlb[s] \in TlbEntry /\ TlbFresh(tlb[s])
      BY <1>3, <1>5, <2>1 DEF MmuInv, TlbExact
    <2>3. \A e \in TlbEntry : TlbFresh(e) => TlbFresh(e)'
      BY MarksKeepTlb DEF MmuInv
    <2>. QED  BY <2>2, <2>3 DEF TlbFresh
  <1>6. /\ pt'[p].present /\ pt'[p].accessed /\ Entry(p).frame = pt'[p].frame
        /\ Entry(p).protect = wp' /\ Weaker(Entry(p).rights, Both(p)')
        /\ p \notin relaxed' => Entry(p).rights = Both(p)'
    <2>1. Both(p)' = Both(p)
      BY MarksKeepBoth DEF MmuInv
    <2>. QED  BY <2>1, EntryTrue DEF MmuInv, Marks, Weaker
  <1>7. ASSUME NEW s \in 0 .. TlbSlots - 1, tlb'[s] # NoEntry, tlb'[s].page \notin owed'
        PROVE  TlbFresh(tlb[s])'
    <2>1. CASE s = p % TlbSlots
      BY <1>1, <1>3, <1>6, <1>7, <2>1 DEF TlbFresh
    <2>2. CASE s # p % TlbSlots
      BY <1>5, <1>7, <2>2 DEF TlbFresh
    <2>. QED  BY <2>1, <2>2
  <1>. QED  BY <1>2, <1>4, <1>7 DEF TlbExact

-----------------------------------------------------------------------------
(***************************************************************************)
(* The caches before the TLB.                                              *)
(***************************************************************************)
\* After a refused access: entries are only lost.
LEMMA RefusedFast ==
  ASSUME MmuInv, NEW p \in LPages, Marks, UNCHANGED <<wp, owed>>, fast' = FastDropped(p)
  PROVE  /\ fast' \in [AccessKinds -> [0 .. FastSlots - 1 -> FastEntry \cup {NoEntry}]]
         /\ FastExact'
  <1>1. /\ fast' \in [AccessKinds -> [0 .. FastSlots - 1 -> FastEntry \cup {NoEntry}]]
        /\ \A k \in AccessKinds, s \in 0 .. FastSlots - 1 : fast'[k][s] = fast[k][s] \/ fast'[k][s] = NoEntry
    <2>1. CASE ~ArmFast
      BY <2>1 DEF MmuInv, MmuTypeOK, FastDropped
    <2>2. CASE ArmFast
      <3>1. fast' = [k \in AccessKinds |->
               [fast[k] EXCEPT ![p % FastSlots] = IF @.page = p THEN NoEntry ELSE @]]
        BY <2>2 DEF FastDropped, AccessKinds
      <3>2. \A k \in AccessKinds : fast[k] \in [0 .. FastSlots - 1 -> FastEntry \cup {NoEntry}]
        BY DEF MmuInv, MmuTypeOK
      <3>3. \A k \in AccessKinds : fast'[k] = [fast[k] EXCEPT ![p % FastSlots] =
                                            IF fast[k][p % FastSlots].page = p THEN NoEntry ELSE @]
        BY <3>1
      <3>4. ASSUME NEW k \in AccessKinds
            PROVE  /\ fast'[k] \in [0 .. FastSlots - 1 -> FastEntry \cup {NoEntry}]
                   /\ \A s \in 0 .. FastSlots - 1 : fast'[k][s] = fast[k][s] \/ fast'[k][s] = NoEntry
        <4> DEFINE v == IF fast[k][p % FastSlots].page = p THEN NoEntry ELSE fast[k][p % FastSlots]
        <4>1. v \in FastEntry \cup {NoEntry} /\ (v = fast[k][p % FastSlots] \/ v = NoEntry)
          BY <3>2, SlotTypes
        <4>2. fast'[k] = [fast[k] EXCEPT ![p % FastSlots] = v]
          BY <3>3
        <4>. HIDE DEF v
        <4>. QED  BY <3>2, <4>1, <4>2
      <3>. QED  BY <3>1, <3>4
    <2>. QED  BY <2>1, <2>2
  <1>2. ASSUME NEW k \in AccessKinds, NEW s \in 0 .. FastSlots - 1,
               fast'[k][s] # NoEntry, fast'[k][s].page \notin owed'
        PROVE  FastFresh(k, fast[k][s])'
    <2>0. fast'[k][s] = fast[k][s] /\ fast[k][s] \in FastEntry \cup {NoEntry}
      BY <1>1, <1>2 DEF MmuInv, MmuTypeOK
    <2>1. fast'[k][s] = fast[k][s] /\ fast[k][s] \in FastEntry /\ FastFresh(k, fast[k][s])
      BY <1>2, <2>0 DEF MmuInv, FastExact
    <2>2. \A e \in FastEntry : FastFresh(k, e) => FastFresh(k, e)'
      BY MarksKeepFast DEF MmuInv
    <2>. QED  BY <2>1, <2>2 DEF FastFresh
  <1>. QED  BY <1>1, <1>2 DEF FastExact

\* After an allowed one: the entry filled in is of an access the tables allow.
LEMMA AllowedFast ==
  ASSUME MmuInv, NEW p \in LPages \ owed, NEW user \in BOOLEAN, NEW write \in BOOLEAN,
         Hit(p) \/ pt[p].present, ~Refuses(Entry(p).rights, user, write, Entry(p).protect),
         Marks, pt'[p].accessed, write => pt'[p].dirty,
         UNCHANGED <<wp, owed>>, fast' = FastFilled(p, user, write, Entry(p))
  PROVE  /\ fast' \in [AccessKinds -> [0 .. FastSlots - 1 -> FastEntry \cup {NoEntry}]]
         /\ FastExact'
  <1> DEFINE kind == IF write THEN "write" ELSE "read"
             new == [page |-> p, frame |-> Entry(p).frame, user |-> user]
  <1>1. CASE ~ArmFast
    <2>1. UNCHANGED fast
      BY <1>1 DEF FastFilled
    <2>. QED  BY <2>1, FastKept DEF MmuInv, MmuTypeOK
  <1>2. CASE ArmFast
    <2>1. new \in FastEntry
      BY EntryTrue DEF MmuInv, TlbEntry, FastEntry
    <2>2. fast' = [fast EXCEPT ![kind][p % FastSlots] = new]
      BY <1>2 DEF FastFilled
    <2>3. /\ fast' \in [AccessKinds -> [0 .. FastSlots - 1 -> FastEntry \cup {NoEntry}]]
          /\ \A k \in AccessKinds, s \in 0 .. FastSlots - 1 :
               fast'[k][s] = IF k = kind /\ s = p % FastSlots THEN new ELSE fast[k][s]
      <3>1. kind \in AccessKinds /\ fast \in [AccessKinds -> [0 .. FastSlots - 1 -> FastEntry \cup {NoEntry}]]
        BY DEF MmuInv, MmuTypeOK, AccessKinds
      <3>. HIDE DEF new, kind
      <3>2. fast' = [fast EXCEPT ![kind] = [fast[kind] EXCEPT ![p % FastSlots] = new]]
        BY <2>2
      <3>3. fast[kind] \in [0 .. FastSlots - 1 -> FastEntry \cup {NoEntry}]
        BY <3>1
      <3>4. [fast[kind] EXCEPT ![p % FastSlots] = new] \in [0 .. FastSlots - 1 -> FastEntry \cup {NoEntry}]
        BY <2>1, <3>3
      <3>5. fast' \in [AccessKinds -> [0 .. FastSlots - 1 -> FastEntry \cup {NoEntry}]]
        BY <3>1, <3>2, <3>4
      <3>6. ASSUME NEW k \in AccessKinds, NEW s \in 0 .. FastSlots - 1
            PROVE  fast'[k][s] = IF k = kind /\ s = p % FastSlots THEN new ELSE fast[k][s]
        <4>1. CASE k # kind
          BY <3>1, <3>2, <4>1
        <4>2. CASE k = kind
          <5>1. fast'[k] = [fast[kind] EXCEPT ![p % FastSlots] = new]
            BY <3>1, <3>2, <4>2
          <5>. QED  BY <3>3, <4>2, <5>1
        <4>. QED  BY <4>1, <4>2
      <3>. QED  BY <3>5, <3>6
    <2>4. /\ pt'[p].present /\ pt'[p].accessed /\ new.frame = pt'[p].frame
          /\ ~Refuses(Both(p)', user, write, wp') /\ (write => pt'[p].dirty)
      <3>1. Both(p)' = Both(p) /\ Both(p) \in Rights
        BY MarksKeepBoth, BothRights DEF MmuInv
      <3>2. /\ Entry(p).rights \in Rights /\ Weaker(Entry(p).rights, Both(p)) /\ Entry(p).protect = wp
            /\ pt[p].present /\ Entry(p).frame = pt[p].frame
        BY EntryTrue DEF MmuInv, TlbEntry
      <3>3. ~Refuses(Both(p), user, write, wp)
        <4>1. wp \in BOOLEAN /\ ~Refuses(Entry(p).rights, user, write, wp)
          BY <3>2 DEF MmuInv, MmuTypeOK
        <4>. QED  BY <3>2, <4>1 DEF Refuses, Weaker
      <3>. QED  BY <3>1, <3>2, <3>3 DEF Marks
    <2>5. ASSUME NEW k \in AccessKinds, NEW s \in 0 .. FastSlots - 1,
                 fast'[k][s] # NoEntry, fast'[k][s].page \notin owed'
          PROVE  FastFresh(k, fast[k][s])'
      <3>1. CASE k = kind /\ s = p % FastSlots
        <4>1. fast'[k][s] = new /\ ((k = "write") <=> write)
          BY <2>3, <3>1 DEF AccessKinds
        <4>. QED  BY <2>4, <4>1 DEF FastFresh, Refuses
      <3>2. CASE ~(k = kind /\ s = p % FastSlots)
        <4>0. fast'[k][s] = fast[k][s]
          BY <2>3, <3>2
        <4>1. fast[k][s] \in FastEntry /\ FastFresh(k, fast[k][s])
          <5>1. fast[k][s] \in FastEntry \cup {NoEntry}
            BY ZenonT(40) DEF MmuInv, MmuTypeOK
          <5>. QED  BY <2>5, <4>0, <5>1 DEF MmuInv, FastExact
        <4>2. \A e \in FastEntry : FastFresh(k, e) => FastFresh(k, e)'
          BY MarksKeepFast DEF MmuInv
        <4>. QED  BY <4>0, <4>1, <4>2 DEF FastFresh
      <3>. QED  BY <3>1, <3>2
    <2>. QED  BY <2>3, <2>5 DEF FastExact
  <1>. QED  BY <1>1, <1>2

-----------------------------------------------------------------------------
(***************************************************************************)
(* What the access reports.                                                *)
(***************************************************************************)
\* A failure: the page is absent, or its entry refused; then the tables refuse too, unless
\* they were granted more since.
LEMMA FailureTrue ==
  ASSUME MmuInv, NEW p \in LPages \ owed, NEW user \in BOOLEAN, NEW write \in BOOLEAN,
         Marks, UNCHANGED wp, NEW present \in BOOLEAN, Failed(p, user, write, present),
         \/ ~pt[p].present /\ ~present
         \/ /\ present /\ (Hit(p) \/ pt[p].present)
            /\ Refuses(Entry(p).rights, user, write, Entry(p).protect)
  PROVE  AccessExact' /\ relaxed' = relaxed \ {p}
  <1>1. Both(p)' = Both(p) /\ pt'[p].present = pt[p].present
    BY MarksKeepBoth DEF MmuInv, Marks
  <1>2. CASE ~pt[p].present /\ ~present
    <2>1. pt[p].present = FALSE /\ present = FALSE
      BY <1>2 DEF MmuInv, MmuTypeOK, Pte
    <2>. QED  BY <1>1, <2>1 DEF Failed, AccessExact
  <1>3. CASE /\ present /\ (Hit(p) \/ pt[p].present)
             /\ Refuses(Entry(p).rights, user, write, Entry(p).protect)
    <2>1. /\ pt[p].present /\ Entry(p).protect = wp
          /\ p \notin relaxed => Entry(p).rights = Both(p)
      BY <1>3, EntryTrue DEF MmuInv
    <2>2. p \in relaxed \/ Refuses(Both(p)', user, write, wp')
      BY <1>1, <1>3, <2>1
    <2>3. /\ walked'.page = p /\ walked'.user = user /\ walked'.write = write /\ ~walked'.ok
          /\ walked'.present = present /\ (walked'.granted <=> p \in relaxed)
      BY DEF Failed
    <2>. QED  BY <1>1, <1>3, <2>1, <2>2, <2>3 DEF AccessExact, Failed
  <1>. QED  BY <1>2, <1>3

\* A success: the tables allow it, and hold its marks.
LEMMA SuccessTrue ==
  ASSUME MmuInv, NEW p \in LPages, NEW user \in BOOLEAN, NEW write \in BOOLEAN, NEW frame,
         Marks, UNCHANGED wp, Reached(p, user, write, frame),
         pt[p].present, frame = pt[p].frame, ~Refuses(Both(p), user, write, wp),
         pt'[p].accessed, write => pt'[p].dirty
  PROVE  AccessExact' /\ relaxed' = relaxed
  <1>1. Both(p)' = Both(p) /\ pt'[p].present = pt[p].present /\ pt'[p].frame = pt[p].frame
    BY MarksKeepBoth DEF MmuInv, Marks
  <1>2. /\ walked'.page = p /\ walked'.user = user /\ walked'.write = write /\ walked'.ok
        /\ walked'.frame = frame
    BY DEF Reached
  <1>. QED  BY <1>1, <1>2 DEF AccessExact, Reached

-----------------------------------------------------------------------------
(***************************************************************************)
(* The actions.                                                            *)
(***************************************************************************)
\* translate_lpgno and the rest of translate_lpgno_fast.
LEMMA TranslateStep ==
  ASSUME MmuInv, NEW p \in LPages \ owed, NEW user \in BOOLEAN, NEW write \in BOOLEAN,
         Translate(p, user, write), UNCHANGED <<wp, ifetch, owed>>
  PROVE  MmuInv'
  <1>1. CASE /\ ~Hit(p) /\ ~pt[p].present /\ Accessed(p, FALSE)
             /\ Failed(p, user, write, FALSE) /\ UNCHANGED <<tlb, fast>>
    <2>1. Marks
      BY <1>1, MissMarks DEF MmuInv
    <2>2. AccessExact' /\ relaxed' = relaxed \ {p}
      BY <1>1, <2>1, FailureTrue
    <2>3. TlbInSlot' /\ TlbExact'
      BY <1>1, <2>1, <2>2, AbsentTlb
    <2>4. FastExact'
      BY <1>1, <2>1, FastKept DEF MmuInv
    <2>5. MmuTypeOK'
      BY <1>1, <2>1, <2>2 DEF MmuInv, MmuTypeOK, Marks
    <2>. QED  BY <2>2, <2>3, <2>4, <2>5 DEF MmuInv
  <1>2. CASE /\ Hit(p) \/ pt[p].present
             /\ Refuses(Entry(p).rights, user, write, Entry(p).protect)
             /\ IF Hit(p) THEN UNCHANGED <<pde, pt>> ELSE Accessed(p, FALSE)
             /\ tlb' = [tlb EXCEPT ![p % TlbSlots] = NoEntry]
             /\ fast' = FastDropped(p)
             /\ Failed(p, user, write, TRUE)
    <2>1. Marks
      BY <1>2, MissMarks, NoMarks DEF MmuInv
    <2>2. AccessExact' /\ relaxed' = relaxed \ {p}
      BY <1>2, <2>1, FailureTrue
    <2>3. /\ tlb' \in [0 .. TlbSlots - 1 -> TlbEntry \cup {NoEntry}]
          /\ TlbInSlot' /\ TlbExact'
      BY <1>2, <2>1, <2>2, RefusedTlb
    <2>4. /\ fast' \in [AccessKinds -> [0 .. FastSlots - 1 -> FastEntry \cup {NoEntry}]]
          /\ FastExact'
      BY <1>2, <2>1, RefusedFast
    <2>5. MmuTypeOK'
      BY <2>1, <2>2, <2>3, <2>4 DEF MmuInv, MmuTypeOK, Marks
    <2>. QED  BY <2>2, <2>3, <2>4, <2>5 DEF MmuInv
  <1>3. CASE /\ Hit(p) \/ pt[p].present
             /\ ~Refuses(Entry(p).rights, user, write, Entry(p).protect)
             /\ IF Hit(p) THEN /\ pt' = [pt EXCEPT ![p].dirty = @ \/ write]
                               /\ UNCHANGED pde
                ELSE Accessed(p, write)
             /\ tlb' = [tlb EXCEPT ![p % TlbSlots] = Entry(p)]
             /\ fast' = FastFilled(p, user, write, Entry(p))
             /\ Reached(p, user, write, Entry(p).frame)
    <2>0. /\ Entry(p) \in TlbEntry /\ pt[p].present /\ Entry(p).frame = pt[p].frame
          /\ Entry(p).protect = wp /\ Weaker(Entry(p).rights, Both(p))
          /\ Hit(p) => pt[p].accessed
      BY <1>3, EntryTrue DEF MmuInv
    <2>1. Marks /\ pt'[p].accessed /\ (write => pt'[p].dirty)
      <3>1. CASE Hit(p)
        <4>1. Marks /\ (write => pt'[p].dirty)
          BY <1>3, <3>1, HitMarks DEF MmuInv
        <4>. QED  BY <2>0, <3>1, <4>1 DEF Marks
      <3>2. CASE ~Hit(p)
        BY <1>3, <2>0, <3>2, MissMarks DEF MmuInv
      <3>. QED  BY <3>1, <3>2
    <2>2. ~Refuses(Both(p), user, write, wp)
      BY <1>3, <2>0 DEF Refuses, Weaker
    <2>3. AccessExact' /\ relaxed' = relaxed
      BY <1>3, <2>0, <2>1, <2>2, SuccessTrue
    <2>4. /\ tlb' \in [0 .. TlbSlots - 1 -> TlbEntry \cup {NoEntry}]
          /\ TlbInSlot' /\ TlbExact'
      BY <1>3, <2>1, <2>3, AllowedTlb
    <2>5. /\ fast' \in [AccessKinds -> [0 .. FastSlots - 1 -> FastEntry \cup {NoEntry}]]
          /\ FastExact'
      BY <1>3, <2>1, AllowedFast
    <2>6. MmuTypeOK'
      BY <2>1, <2>3, <2>4, <2>5 DEF MmuInv, MmuTypeOK, Marks
    <2>. QED  BY <2>3, <2>4, <2>5, <2>6 DEF MmuInv
  <1>. QED  BY <1>1, <1>2, <1>3 DEF Translate

\* Entries that are not touched stay true while the tables are not touched either.
LEMMA NothingTouched ==
  ASSUME MmuInv, UNCHANGED <<pde, pt, wp, tlb, fast, ifetch, owed, relaxed>>
  PROVE  MmuTypeOK' /\ TlbInSlot' /\ TlbExact' /\ FastExact'
  <1>1. MmuTypeOK'
    BY DEF MmuInv, MmuTypeOK
  <1>2. TlbInSlot'
    BY DEF MmuInv, TlbInSlot
  <1>3. TlbExact'
    BY DEF MmuInv, TlbExact, TlbFresh, Both
  <1>4. FastExact'
    BY ZenonT(40) DEF MmuInv, FastExact, FastFresh, Both
  <1>. QED  BY <1>1, <1>2, <1>3, <1>4

\* translate_lpgno_fast, answered by a cache before the TLB.
LEMMA FastHitStep ==
  ASSUME MmuInv, NEW p \in LPages \ owed, NEW user \in BOOLEAN, NEW write \in BOOLEAN,
         NEW e \in FastHits(p, user, write), Reached(p, user, write, e.frame),
         UNCHANGED <<pde, pt, wp, tlb, fast, ifetch, owed>>
  PROVE  MmuInv'
  <1>1. PICK k \in AccessKinds : /\ e = fast[k][p % FastSlots] /\ (write => k = "write")
                           /\ e.page = p /\ e.user = user
    BY DEF FastHits, AccessKinds
  <1>2. FastFresh(k, e)
    <2>1. e # NoEntry
      BY <1>1, NoEntryNoPage
    <2>. QED  BY <1>1, <2>1, SlotTypes DEF MmuInv, FastExact
  <1>3. Marks
    BY NoMarks DEF MmuInv
  <1>4. /\ pt[p].present /\ e.frame = pt[p].frame /\ pt'[p].accessed /\ (write => pt'[p].dirty)
        /\ ~Refuses(Both(p), user, write, wp)
    BY <1>1, <1>2 DEF FastFresh, Refuses
  <1>5. AccessExact' /\ relaxed' = relaxed
    BY <1>3, <1>4, SuccessTrue
  <1>6. MmuTypeOK' /\ TlbInSlot' /\ TlbExact' /\ FastExact'
    BY <1>5, NothingTouched
  <1>. QED  BY <1>5, <1>6 DEF MmuInv

\* translate_lpgno_fast as a whole.
LEMMA AccessStep ==
  ASSUME MmuInv, NEW p \in LPages \ owed, NEW user \in BOOLEAN, NEW write \in BOOLEAN,
         Access(p, user, write)
  PROVE  MmuInv'
  <1>1. CASE ArmFast /\ FastHits(p, user, write) # {}
    <2>1. PICK e \in FastHits(p, user, write) : Reached(p, user, write, e.frame)
      BY <1>1 DEF Access
    <2>. QED  BY <1>1, <2>1, FastHitStep DEF Access
  <1>2. CASE ~(ArmFast /\ FastHits(p, user, write) # {})
    BY <1>2, TranslateStep DEF Access
  <1>. QED  BY <1>1, <1>2

\* peek8: the instruction fetch goes through the TLB alone.
LEMMA FetchStep ==
  ASSUME MmuInv, NEW p \in LPages \ owed, NEW user \in BOOLEAN, Fetch(p, user)
  PROVE  MmuInv'
  <1>0. UNCHANGED <<wp, fast, owed>>
    BY DEF Fetch
  <1>1. CASE /\ ifetch.page = p /\ walked' = NoEntry
             /\ UNCHANGED <<pde, pt, tlb, ifetch, relaxed>>
    <2>1. AccessExact'
      BY <1>1 DEF AccessExact
    <2>. QED  BY <1>0, <1>1, <2>1, NothingTouched DEF MmuInv
  <1>2. CASE /\ ~Hit(p) /\ ~pt[p].present /\ Accessed(p, FALSE)
             /\ Failed(p, user, FALSE, FALSE) /\ UNCHANGED <<tlb, ifetch>>
    <2>1. Marks
      BY <1>2, MissMarks DEF MmuInv
    <2>2. AccessExact' /\ relaxed' = relaxed \ {p}
      BY <1>0, <1>2, <2>1, FailureTrue
    <2>3. TlbInSlot' /\ TlbExact'
      BY <1>0, <1>2, <2>1, <2>2, AbsentTlb
    <2>4. FastExact'
      BY <1>0, <2>1, FastKept DEF MmuInv
    <2>5. MmuTypeOK'
      BY <1>0, <1>2, <2>1, <2>2 DEF MmuInv, MmuTypeOK, Marks
    <2>. QED  BY <2>2, <2>3, <2>4, <2>5 DEF MmuInv
  <1>3. CASE /\ Hit(p) \/ pt[p].present
             /\ IF Hit(p) THEN UNCHANGED <<pde, pt>> ELSE Accessed(p, FALSE)
             /\ Refuses(Entry(p).rights, user, FALSE, Entry(p).protect)
             /\ tlb' = [tlb EXCEPT ![p % TlbSlots] = NoEntry]
             /\ Failed(p, user, FALSE, TRUE)
             /\ UNCHANGED ifetch
    <2>1. Marks
      BY <1>3, MissMarks, NoMarks DEF MmuInv
    <2>2. AccessExact' /\ relaxed' = relaxed \ {p}
      BY <1>0, <1>3, <2>1, FailureTrue
    <2>3. /\ tlb' \in [0 .. TlbSlots - 1 -> TlbEntry \cup {NoEntry}]
          /\ TlbInSlot' /\ TlbExact'
      BY <1>0, <1>3, <2>1, <2>2, RefusedTlb
    <2>4. FastExact'
      BY <1>0, <2>1, FastKept DEF MmuInv
    <2>5. MmuTypeOK'
      BY <1>0, <1>3, <2>1, <2>2, <2>3 DEF MmuInv, MmuTypeOK, Marks
    <2>. QED  BY <2>2, <2>3, <2>4, <2>5 DEF MmuInv
  <1>4. CASE /\ Hit(p) \/ pt[p].present
             /\ IF Hit(p) THEN UNCHANGED <<pde, pt>> ELSE Accessed(p, FALSE)
             /\ ~Refuses(Entry(p).rights, user, FALSE, Entry(p).protect)
             /\ tlb' = [tlb EXCEPT ![p % TlbSlots] = Entry(p)]
             /\ Reached(p, user, FALSE, Entry(p).frame)
             /\ ifetch' = [page |-> p, frame |-> Entry(p).frame]
    <2>0. /\ Entry(p) \in TlbEntry /\ pt[p].present /\ Entry(p).frame = pt[p].frame
          /\ Entry(p).protect = wp /\ Weaker(Entry(p).rights, Both(p))
          /\ Hit(p) => pt[p].accessed
      BY <1>4, EntryTrue DEF MmuInv
    <2>1. Marks /\ pt'[p].accessed
      <3>1. CASE Hit(p)
        BY <1>4, <2>0, <3>1, NoMarks DEF MmuInv
      <3>2. CASE ~Hit(p)
        BY <1>4, <2>0, <3>2, MissMarks DEF MmuInv
      <3>. QED  BY <3>1, <3>2
    <2>2. ~Refuses(Both(p), user, FALSE, wp)
      BY <1>4, <2>0 DEF Refuses, Weaker
    <2>3. AccessExact' /\ relaxed' = relaxed
      BY <1>0, <1>4, <2>0, <2>1, <2>2, SuccessTrue
    <2>4. /\ tlb' \in [0 .. TlbSlots - 1 -> TlbEntry \cup {NoEntry}]
          /\ TlbInSlot' /\ TlbExact'
      BY <1>0, <1>4, <2>1, <2>3, AllowedTlb
    <2>5. FastExact'
      BY <1>0, <2>1, FastKept DEF MmuInv
    <2>6. ifetch' \in [page : LPages, frame : MmuFrames]
      BY <1>4, <2>0 DEF TlbEntry
    <2>7. MmuTypeOK'
      BY <1>0, <2>1, <2>3, <2>4, <2>6 DEF MmuInv, MmuTypeOK, Marks
    <2>. QED  BY <2>3, <2>4, <2>5, <2>7 DEF MmuInv
  <1>. QED  BY <1>1, <1>2, <1>3, <1>4 DEF Fetch

\* tlb_clear: nothing is remembered, so nothing is wrong.
LEMMA ClearStep ==
  ASSUME MmuInv, TlbClear, walked' = NoEntry, owed' = {}, relaxed' = {}, wp' \in BOOLEAN,
         UNCHANGED <<pde, pt>>
  PROVE  MmuInv'
  <1>1. /\ \A s \in 0 .. TlbSlots - 1 : tlb'[s] = NoEntry
        /\ \A k \in AccessKinds, s \in 0 .. FastSlots - 1 : fast'[k][s] = NoEntry
        /\ tlb' \in [0 .. TlbSlots - 1 -> TlbEntry \cup {NoEntry}]
        /\ fast' \in [AccessKinds -> [0 .. FastSlots - 1 -> FastEntry \cup {NoEntry}]]
    BY DEF TlbClear, MmuInv, MmuTypeOK
  <1>2. MmuTypeOK'
    BY <1>1 DEF TlbClear, MmuInv, MmuTypeOK
  <1>. QED  BY <1>1, <1>2 DEF MmuInv, TlbInSlot, TlbExact, FastExact, AccessExact

\* The kernel replaces an entry: one that was absent is in no cache, any other is owed a flush.
LEMMA WritePteStep ==
  ASSUME MmuInv, NEW p \in LPages, NEW entry \in Pte, WritePte(p, entry)
  PROVE  MmuInv'
  <1>1. MmuTypeOK'
    BY DEF MmuInv, MmuTypeOK, WritePte
  <1>2. /\ \A q \in LPages : q # p => pt'[q] = pt[q] /\ Both(q)' = Both(q)
        /\ p \in owed' \/ ~pt[p].present
        /\ owed \subseteq owed'
    BY DEF MmuInv, MmuTypeOK, WritePte, Both
  <1>3. TlbExact'
    <2>1. ASSUME NEW s \in 0 .. TlbSlots - 1, tlb[s] # NoEntry, tlb[s].page \notin owed'
          PROVE  TlbFresh(tlb[s])'
      <3>1. tlb[s] \in TlbEntry /\ TlbFresh(tlb[s])
        BY <1>2, <2>1 DEF MmuInv, MmuTypeOK, TlbExact
      <3>2. tlb[s].page \in LPages /\ tlb[s].page # p
        BY <1>2, <2>1, <3>1 DEF TlbEntry, TlbFresh
      <3>. QED  BY <1>2, <3>1, <3>2 DEF TlbFresh, WritePte, Weaker
    <2>. QED  BY <2>1 DEF TlbExact, WritePte
  <1>4. FastExact'
    <2>1. ASSUME NEW k \in AccessKinds, NEW s \in 0 .. FastSlots - 1,
                 fast[k][s] # NoEntry, fast[k][s].page \notin owed'
          PROVE  FastFresh(k, fast[k][s])'
      <3>0. fast[k][s] \in FastEntry \cup {NoEntry}
        BY ZenonT(40) DEF MmuInv, MmuTypeOK
      <3>1. fast[k][s] \in FastEntry /\ FastFresh(k, fast[k][s])
        BY <1>2, <2>1, <3>0 DEF MmuInv, FastExact
      <3>2. fast[k][s].page \in LPages /\ fast[k][s].page # p
        BY <1>2, <2>1, <3>1 DEF FastEntry, FastFresh
      <3>. QED  BY <1>2, <3>1, <3>2 DEF FastFresh, WritePte, Refuses
    <2>. QED  BY <2>1 DEF FastExact, WritePte
  <1>. QED  BY <1>1, <1>3, <1>4 DEF MmuInv, WritePte, TlbInSlot, AccessExact

\* The kernel grants rights without a flush: the entries kept are weaker now, and excused.
LEMMA GrantPteStep ==
  ASSUME MmuInv, NEW p \in LPages, NEW rights \in Rights, GrantPte(p, rights)
  PROVE  MmuInv'
  <1>1. MmuTypeOK'
    BY DEF MmuInv, MmuTypeOK, GrantPte, Pte
  <1>2. \A q \in LPages :
          /\ pt'[q].present = pt[q].present /\ pt'[q].frame = pt[q].frame
          /\ pt'[q].accessed = pt[q].accessed /\ pt'[q].dirty = pt[q].dirty
          /\ Weaker(Both(q), Both(q)') /\ (q # p => Both(q)' = Both(q))
    BY DEF MmuInv, MmuTypeOK, GrantPte, Pte, Both, Weaker, Rights
  <1>3. TlbExact'
    <2>1. ASSUME NEW s \in 0 .. TlbSlots - 1, tlb[s] # NoEntry, tlb[s].page \notin owed
          PROVE  TlbFresh(tlb[s])'
      <3>1. tlb[s] \in TlbEntry /\ TlbFresh(tlb[s]) /\ tlb[s].page \in LPages
        BY <2>1 DEF MmuInv, MmuTypeOK, TlbExact, TlbEntry
      <3>. QED  BY <1>2, <3>1 DEF TlbFresh, GrantPte, Weaker
    <2>. QED  BY <2>1 DEF TlbExact, GrantPte
  <1>4. FastExact'
    <2>1. ASSUME NEW k \in AccessKinds, NEW s \in 0 .. FastSlots - 1,
                 fast[k][s] # NoEntry, fast[k][s].page \notin owed
          PROVE  FastFresh(k, fast[k][s])'
      <3>0. fast[k][s] \in FastEntry \cup {NoEntry}
        BY ZenonT(40) DEF MmuInv, MmuTypeOK
      <3>1. fast[k][s] \in FastEntry /\ FastFresh(k, fast[k][s]) /\ fast[k][s].page \in LPages
        BY <2>1, <3>0 DEF MmuInv, FastExact, FastEntry
      <3>. QED  BY <1>2, <3>1 DEF FastFresh, GrantPte, Refuses, Weaker
    <2>. QED  BY <2>1 DEF FastExact, GrantPte
  <1>. QED  BY <1>1, <1>3, <1>4 DEF MmuInv, GrantPte, TlbInSlot, AccessExact

-----------------------------------------------------------------------------
\* The entries a kernel writes are entries.
LEMMA EntriesArePtes ==
  /\ NoPage \in Pte
  /\ \A r \in Rights, f \in MmuFrames : MappedTo(r, f) \in Pte
  /\ [user |-> TRUE, write |-> TRUE] \in Rights
  BY MmuAssumption DEF Pte, NoPage, MappedTo, Rights

\* The invariant holds before anything is cached,
LEMMA MmuInitInv == MmuInit => MmuInv
  <1>1. SUFFICES ASSUME MmuInit PROVE MmuInv
    OBVIOUS
  <1>2. /\ pt = [p \in LPages |-> IF p \in KernelPages THEN NoPage
                                 ELSE MappedTo([user |-> TRUE, write |-> TRUE], 0)]
        /\ wp \in BOOLEAN
        /\ tlb = [s \in 0 .. TlbSlots - 1 |-> NoEntry]
        /\ fast = [k \in AccessKinds |-> [s \in 0 .. FastSlots - 1 |-> NoEntry]]
        /\ ifetch = NoEntry /\ walked = NoEntry /\ owed = {} /\ relaxed = {}
    BY <1>1 DEF MmuInit, AccessKinds
  <1>3. pt \in [LPages -> Pte]
    BY <1>2, EntriesArePtes, MmuAssumption
  <1>4. pde \in [rights : Rights, accessed : BOOLEAN]
    <2>1. pde \in [rights : {r \in Rights : r.user}, accessed : {FALSE}]
      BY <1>1 DEF MmuInit
    <2>2. {r \in Rights : r.user} \subseteq Rights
      OBVIOUS
    <2>. QED  BY <2>1, <2>2
  <1>5. tlb \in [0 .. TlbSlots - 1 -> TlbEntry \cup {NoEntry}]
    BY <1>2
  <1>6. fast \in [AccessKinds -> [0 .. FastSlots - 1 -> FastEntry \cup {NoEntry}]]
    BY <1>2
  <1>7. MmuTypeOK
    BY <1>2, <1>3, <1>4, <1>5, <1>6 DEF MmuTypeOK
  <1>. QED  BY <1>2, <1>7 DEF MmuInv, TlbInSlot, TlbExact, FastExact, AccessExact

\* and every access, fetch, change of the tables and flush preserves it.
LEMMA MmuStepInv == MmuInv /\ [MmuNext]_mmuVars => MmuInv'
  <1>1. SUFFICES ASSUME MmuInv, [MmuNext]_mmuVars PROVE MmuInv'
    OBVIOUS
  <1>0. KernelPages \subseteq LPages
    BY MmuAssumption DEF LPages
  <1>2. ASSUME NEW p \in LPages \ owed, NEW user \in BOOLEAN, NEW write \in BOOLEAN,
               Access(p, user, write)
        PROVE  MmuInv'
    BY <1>1, <1>2, AccessStep
  <1>3. ASSUME NEW p \in KernelPages \ owed, NEW user \in BOOLEAN, Fetch(p, user)
        PROVE  MmuInv'
    BY <1>0, <1>1, <1>3, FetchStep
  <1>4. ASSUME NEW p \in KernelPages, NEW entry \in Pte, WritePte(p, entry)
        PROVE  MmuInv'
    BY <1>0, <1>1, <1>4, WritePteStep
  <1>5. ASSUME NEW p \in KernelPages, NEW r \in Rights, GrantPte(p, r)
        PROVE  MmuInv'
    BY <1>0, <1>1, <1>5, GrantPteStep
  <1>6. CASE Flush386
    BY <1>1, <1>6, ClearStep DEF Flush386, MmuInv, MmuTypeOK
  <1>7. CASE WriteWp
    BY <1>1, <1>7, ClearStep DEF WriteWp, MmuInv, MmuTypeOK
  <1>8. CASE UNCHANGED mmuVars
    <2>1. AccessExact'
      BY <1>1, <1>8 DEF mmuVars, MmuInv, AccessExact, Both
    <2>. QED  BY <1>1, <1>8, <2>1, NothingTouched DEF mmuVars, MmuInv
  <1>9. CASE \E p \in KernelPages :
               \/ WritePte(p, NoPage)
               \/ \E r \in Rights : WritePte(p, MappedTo(r, 0)) \/ GrantPte(p, r)
               \/ \E f \in MmuFrames : WritePte(p, MappedTo([user |-> TRUE, write |-> TRUE], f))
    BY <1>4, <1>5, <1>9, EntriesArePtes, MmuAssumption
  <1>. QED  BY <1>1, <1>2, <1>3, <1>6, <1>7, <1>8, <1>9 DEF MmuNext

\* translate_lpgno, translate_lpgno_fast, tlb_clear: for every number of pages, frames and
\* slots, whichever cache answers, an access comes out as the page tables and CR0.WP say, and
\* leaves its marks in them; a kernel that only grants rights sees one fault too many at most.
THEOREM AccessIsExact == MmuSpec => []AccessExact
  <1>1. MmuInv => AccessExact
    BY DEF MmuInv
  <1>. QED  BY MmuInitInv, MmuStepInv, <1>1, PTL DEF MmuSpec

\* tlb_refill, tlb_clear: what the TLB and the caches before it remember of a page that lost
\* nothing since the last flush is never more than the page tables say now.
THEOREM CachesAreTrue == MmuSpec => [](TlbExact /\ FastExact)
  <1>1. MmuInv => TlbExact /\ FastExact
    BY DEF MmuInv
  <1>. QED  BY MmuInitInv, MmuStepInv, <1>1, PTL DEF MmuSpec
=============================================================================
