----------------------------- MODULE Board_proofs ----------------------------
(***************************************************************************)
(* Proofs about the smaller devices of the board, each for a guest that    *)
(* uses all of it, and for every size of its queues and images.            *)
(***************************************************************************)
EXTENDS Kbd8042, PciBoard, PcMisc, Ne2000, Pit8254, Sb16, TLAPS

-----------------------------------------------------------------------------
(***************************************************************************)
(* The keyboard controller.                                                *)
(***************************************************************************)
KbQueues == 0 .. QueueSize

Controller ==
  [write_cmd : {"none"} \cup ControllerArgs, mode : SUBSET Modes, pending : SUBSET {"kbd", "aux"},
   obf : BOOLEAN, mouse_obf : BOOLEAN, irq1 : BOOLEAN, irq12 : BOOLEAN]

Keyboards == [queue : KbQueues, write_cmd : BOOLEAN, delay : BOOLEAN]

Mice == [queue : KbQueues, write_cmd : {"none", "set_res", "set_sample"}, remote : BOOLEAN,
         enabled : BOOLEAN, wrap : BOOLEAN, type : {0, 3, 4}, detect_state : 0 .. 3,
         delta : 0 .. MaxDelta]

\* The registers of the controller show what the queues of the two devices hold.
Announced(c, kq, mq) ==
  /\ c \in Controller
  /\ "kbd" \in c.pending <=> kq > 0
  /\ "aux" \in c.pending <=> mq > 0
  /\ c.obf <=> c.pending # {}
  /\ c.mouse_obf <=> c.pending = {"aux"}
  /\ c.irq1 <=> /\ c.pending # {} /\ c.pending # {"aux"}
                /\ "kbd_int" \in c.mode /\ "disable_kbd" \notin c.mode
  /\ c.irq12 <=> c.pending = {"aux"} /\ "mouse_int" \in c.mode

\* kbd_update_irq makes them so, whatever they showed before.
LEMMA UpdateAnnounces ==
  ASSUME NEW c \in Controller, NEW kq \in KbQueues, NEW mq \in KbQueues,
         "kbd" \in c.pending <=> kq > 0, "aux" \in c.pending <=> mq > 0
  PROVE  Announced(KbdUpdateIrq(c), kq, mq)
<1> DEFINE d == KbdUpdateIrq(c)
           aux == c.pending = {"aux"}
           any == c.pending # {}
           one == /\ any /\ ~aux
                  /\ "kbd_int" \in c.mode /\ "disable_kbd" \notin c.mode
           two == aux /\ "mouse_int" \in c.mode
<1>1. any \in BOOLEAN /\ aux \in BOOLEAN /\ one \in BOOLEAN /\ two \in BOOLEAN
  OBVIOUS
<1>2. d = [c EXCEPT !.obf = any, !.mouse_obf = aux, !.irq1 = one, !.irq12 = two]
  BY DEF KbdUpdateIrq
<1> HIDE DEF d, aux, any, one, two
<1>3. /\ d \in Controller /\ d.pending = c.pending /\ d.mode = c.mode
      /\ d.obf = any /\ d.mouse_obf = aux /\ d.irq1 = one /\ d.irq12 = two
  BY <1>1, <1>2 DEF Controller
<1> QED
  BY <1>3 DEF Announced, d, aux, any, one, two

\* ps2_queue: what is let into a queue is announced, what is dropped was announced before.
LEMMA QueueAnnounces ==
  ASSUME NEW kq \in KbQueues, NEW mq \in KbQueues, NEW c, Announced(c, kq, mq), NEW n \in Nat
  PROVE  /\ Queued(kq, n) \in KbQueues /\ Queued(mq, n) \in KbQueues
         /\ Announced(Ps2Queue(c, "kbd", kq, n), Queued(kq, n), mq)
         /\ Announced(Ps2Queue(c, "aux", mq, n), kq, Queued(mq, n))
<1>1. /\ kq \in Nat /\ mq \in Nat /\ QueueSize \in Nat \ {0} /\ kq <= QueueSize /\ mq <= QueueSize
      /\ c \in Controller
  BY KbAssumption DEF KbQueues, Announced
<1>2. ASSUME NEW q \in KbQueues
      PROVE  /\ Queued(q, n) \in KbQueues
             /\ n = 0 \/ q = QueueSize => Queued(q, n) = q
             /\ ~(n = 0 \/ q = QueueSize) => Queued(q, n) > 0
  BY <1>1 DEF Queued, Least, KbQueues
<1>3. ASSUME NEW dev \in {"kbd", "aux"}
      PROVE  LET d == [c EXCEPT !.pending = @ \cup {dev}] IN
             d \in Controller /\ d.pending = c.pending \cup {dev}
  BY <1>1, <1>3 DEF Controller
<1>4. Announced(Ps2Queue(c, "kbd", kq, n), Queued(kq, n), mq)
  <2>1. CASE n = 0 \/ kq = QueueSize
    BY <1>2, <2>1 DEF Ps2Queue
  <2>2. CASE ~(n = 0 \/ kq = QueueSize)
    <3> DEFINE d == [c EXCEPT !.pending = @ \cup {"kbd"}]
    <3>1. d \in Controller /\ d.pending = c.pending \cup {"kbd"}
      BY <1>3
    <3>2. Ps2Queue(c, "kbd", kq, n) = KbdUpdateIrq(d)
      BY <2>2 DEF Ps2Queue, Update
    <3> HIDE DEF d
    <3>3. "kbd" \in d.pending /\ Queued(kq, n) > 0 /\ ("aux" \in d.pending <=> mq > 0)
      BY <1>2, <2>2, <3>1 DEF Announced
    <3> QED
      BY <1>2, <3>1, <3>2, <3>3, UpdateAnnounces
  <2> QED
    BY <2>1, <2>2
<1>5. Announced(Ps2Queue(c, "aux", mq, n), kq, Queued(mq, n))
  <2>1. CASE n = 0 \/ mq = QueueSize
    BY <1>2, <2>1 DEF Ps2Queue
  <2>2. CASE ~(n = 0 \/ mq = QueueSize)
    <3> DEFINE d == [c EXCEPT !.pending = @ \cup {"aux"}]
    <3>1. d \in Controller /\ d.pending = c.pending \cup {"aux"}
      BY <1>3
    <3>2. Ps2Queue(c, "aux", mq, n) = KbdUpdateIrq(d)
      BY <2>2 DEF Ps2Queue, Update
    <3> HIDE DEF d
    <3>3. "aux" \in d.pending /\ Queued(mq, n) > 0 /\ ("kbd" \in d.pending <=> kq > 0)
      BY <1>2, <2>2, <3>1 DEF Announced
    <3> QED
      BY <1>2, <3>1, <3>2, <3>3, UpdateAnnounces
  <2> QED
    BY <2>1, <2>2
<1> QED
  BY <1>2, <1>4, <1>5

\* Raising and lowering a device's request.
LEMMA UpdatePending ==
  ASSUME NEW c \in Controller, NEW dev \in {"kbd", "aux"}, NEW level \in BOOLEAN
  PROVE  /\ Update(c, dev, level) \in Controller
         /\ Update(c, dev, level).pending = IF level THEN c.pending \cup {dev} ELSE c.pending \ {dev}
<1> DEFINE d == [c EXCEPT !.pending = IF level THEN @ \cup {dev} ELSE @ \ {dev}]
           kq == IF "kbd" \in d.pending THEN QueueSize ELSE 0
           mq == IF "aux" \in d.pending THEN QueueSize ELSE 0
<1>1. d \in Controller /\ d.pending = IF level THEN c.pending \cup {dev} ELSE c.pending \ {dev}
  BY DEF Controller
<1>2. Update(c, dev, level) = KbdUpdateIrq(d)
  BY DEF Update
<1> HIDE DEF d
<1>3. /\ kq \in KbQueues /\ mq \in KbQueues
      /\ "kbd" \in d.pending <=> kq > 0
      /\ "aux" \in d.pending <=> mq > 0
  BY KbAssumption DEF KbQueues
<1> HIDE DEF kq, mq
<1>4. Announced(KbdUpdateIrq(d), kq, mq)
  BY <1>1, <1>3, UpdateAnnounces
<1>5. KbdUpdateIrq(d).pending = d.pending
  BY <1>1 DEF KbdUpdateIrq, Controller
<1> QED
  BY <1>1, <1>2, <1>4, <1>5 DEF Announced

\* ps2_read_data: the reassertion after the read is for what is left.
LEMMA ReadAnnounces ==
  ASSUME NEW kq \in KbQueues, NEW mq \in KbQueues, NEW c, Announced(c, kq, mq)
  PROVE  /\ (IF kq = 0 THEN 0 ELSE kq - 1) \in KbQueues /\ (IF mq = 0 THEN 0 ELSE mq - 1) \in KbQueues
         /\ Announced(Ps2Read(c, "kbd", kq), IF kq = 0 THEN 0 ELSE kq - 1, mq)
         /\ Announced(Ps2Read(c, "aux", mq), kq, IF mq = 0 THEN 0 ELSE mq - 1)
<1>1. kq \in Nat /\ mq \in Nat /\ kq <= QueueSize /\ mq <= QueueSize /\ QueueSize \in Nat /\ c \in Controller
  BY KbAssumption DEF KbQueues, Announced
<1>2. ASSUME NEW dev \in {"kbd", "aux"}, NEW q \in Nat, q # 0
      PROVE  LET b == Update(c, dev, FALSE)
                 d == [b EXCEPT !.pending = IF q > 1 THEN @ \cup {dev} ELSE @ \ {dev}] IN
             /\ Ps2Read(c, dev, q) = KbdUpdateIrq(d) /\ d \in Controller
             /\ d.pending = IF q > 1 THEN c.pending \cup {dev} ELSE c.pending \ {dev}
  <2> DEFINE b == Update(c, dev, FALSE)
             d == [b EXCEPT !.pending = IF q > 1 THEN @ \cup {dev} ELSE @ \ {dev}]
  <2>1. b \in Controller /\ b.pending = c.pending \ {dev}
    BY <1>1, <1>2, UpdatePending
  <2>2. Ps2Read(c, dev, q) = KbdUpdateIrq(d)
    BY <1>2 DEF Ps2Read, Update
  <2> HIDE DEF b
  <2>3. b.pending \cup {dev} = c.pending \cup {dev} /\ b.pending \ {dev} = c.pending \ {dev}
    BY <2>1
  <2>4. d \in Controller /\ d.pending = IF q > 1 THEN b.pending \cup {dev} ELSE b.pending \ {dev}
    BY <1>2, <2>1 DEF Controller
  <2> QED
    BY <2>2, <2>3, <2>4 DEF b
<1>3. ASSUME kq # 0 PROVE Announced(Ps2Read(c, "kbd", kq), kq - 1, mq)
  <2>1. PICK d \in Controller : /\ Ps2Read(c, "kbd", kq) = KbdUpdateIrq(d)
                                /\ d.pending = IF kq > 1 THEN c.pending \cup {"kbd"} ELSE c.pending \ {"kbd"}
    BY <1>1, <1>2, <1>3
  <2>2. kq - 1 \in KbQueues /\ ("kbd" \in d.pending <=> kq - 1 > 0) /\ ("aux" \in d.pending <=> mq > 0)
    BY <1>1, <1>3, <2>1 DEF Announced, KbQueues
  <2> QED
    BY <2>1, <2>2, UpdateAnnounces
<1>4. ASSUME mq # 0 PROVE Announced(Ps2Read(c, "aux", mq), kq, mq - 1)
  <2>1. PICK d \in Controller : /\ Ps2Read(c, "aux", mq) = KbdUpdateIrq(d)
                                /\ d.pending = IF mq > 1 THEN c.pending \cup {"aux"} ELSE c.pending \ {"aux"}
    BY <1>1, <1>2, <1>4
  <2>2. mq - 1 \in KbQueues /\ ("aux" \in d.pending <=> mq - 1 > 0) /\ ("kbd" \in d.pending <=> kq > 0)
    BY <1>1, <1>4, <2>1 DEF Announced, KbQueues
  <2> QED
    BY <2>1, <2>2, UpdateAnnounces
<1>5. CASE kq = 0 /\ mq = 0
  BY <1>1, <1>5 DEF Ps2Read, KbQueues
<1>6. (IF kq = 0 THEN 0 ELSE kq - 1) \in KbQueues /\ (IF mq = 0 THEN 0 ELSE mq - 1) \in KbQueues
  BY <1>1 DEF KbQueues
<1>7. Announced(Ps2Read(c, "kbd", kq), IF kq = 0 THEN 0 ELSE kq - 1, mq)
  BY <1>3 DEF Ps2Read
<1>8. Announced(Ps2Read(c, "aux", mq), kq, IF mq = 0 THEN 0 ELSE mq - 1)
  BY <1>4 DEF Ps2Read
<1> QED
  BY <1>6, <1>7, <1>8

\* What every step keeps: the registers agree with the queues, and a prefix waits for its code.
KbInv ==
  /\ kbd \in Keyboards /\ mouse \in Mice
  /\ Announced(kbc, kbd.queue, mouse.queue)
  /\ keys \in [prefix : BOOLEAN, full : BOOLEAN, torn : BOOLEAN, packet_torn : BOOLEAN]
  /\ keys.prefix = kbd.delay
  /\ ~keys.torn /\ ~keys.packet_torn

\* It is what the properties need.
LEMMA KbInvSuffices == KbInv => DataAnnounced /\ StreamsWhole
<1> SUFFICES ASSUME KbInv PROVE DataAnnounced /\ StreamsWhole
  OBVIOUS
<1>1. StreamsWhole
  BY DEF KbInv, StreamsWhole
<1>2. /\ kbd.queue \in Nat /\ mouse.queue \in Nat
  BY KbAssumption DEF KbInv, Keyboards, Mice, KbQueues
<1>3. /\ kbc.obf \in BOOLEAN /\ kbc.mouse_obf \in BOOLEAN /\ kbc.irq1 \in BOOLEAN /\ kbc.irq12 \in BOOLEAN
      /\ kbc.pending \in SUBSET {"kbd", "aux"}
  BY DEF KbInv, Announced, Controller
<1>4. /\ "kbd" \in kbc.pending <=> kbd.queue > 0
      /\ "aux" \in kbc.pending <=> mouse.queue > 0
  BY DEF KbInv, Announced
<1>5. /\ kbc.pending # {} <=> kbd.queue + mouse.queue > 0
      /\ kbc.pending = {"aux"} <=> (kbd.queue = 0 /\ mouse.queue > 0)
      /\ (kbc.pending # {} /\ kbc.pending # {"aux"}) <=> kbd.queue > 0
  BY <1>2, <1>3, <1>4
<1>6. /\ kbc.obf <=> (kbd.queue + mouse.queue > 0)
      /\ kbc.mouse_obf <=> (kbd.queue = 0 /\ mouse.queue > 0)
  BY <1>5 DEF KbInv, Announced
<1>7. kbc.irq1 <=> (kbd.queue > 0 /\ kbc.mode \cap {"kbd_int", "disable_kbd"} = {"kbd_int"})
  <2>1. kbc.mode \cap {"kbd_int", "disable_kbd"} = {"kbd_int"}
          <=> "kbd_int" \in kbc.mode /\ "disable_kbd" \notin kbc.mode
    OBVIOUS
  <2> QED
    BY <1>5, <2>1 DEF KbInv, Announced
<1>8. kbc.irq12 <=> (kbc.mouse_obf /\ "mouse_int" \in kbc.mode)
  BY DEF KbInv, Announced
<1>9. DataAnnounced
  BY <1>3, <1>6, <1>7, <1>8 DEF DataAnnounced
<1> QED
  BY <1>1, <1>9

\* Steps of the controller and the keyboard that leave the scan codes alone.
LEMMA KbPlain ==
  ASSUME KbInv, mouse' \in Mice, kbd' \in Keyboards, kbd'.delay = kbd.delay, keys' = keys,
         Announced(kbc', kbd'.queue, mouse'.queue)
  PROVE  KbInv'
BY DEF KbInv, Announced, Controller, Keyboards, Mice

\* The register a command writes does not matter to what is announced.
LEMMA ExpectAnnounces ==
  ASSUME NEW kq \in KbQueues, NEW mq \in KbQueues, NEW c, Announced(c, kq, mq),
         NEW a \in {"none"} \cup ControllerArgs
  PROVE  Announced([c EXCEPT !.write_cmd = a], kq, mq)
<1> DEFINE d == [c EXCEPT !.write_cmd = a]
<1>1. /\ d \in Controller /\ d.pending = c.pending /\ d.mode = c.mode /\ d.obf = c.obf
      /\ d.mouse_obf = c.mouse_obf /\ d.irq1 = c.irq1 /\ d.irq12 = c.irq12
  BY DEF Announced, Controller
<1> HIDE DEF d
<1> QED
  BY <1>1 DEF Announced, d

\* The controller's own commands.
LEMMA KbControllerStep ==
  ASSUME KbInv,
         \/ \E a \in ControllerArgs : ExpectArgument(a)
         \/ ControllerAnswer \/ (\E disable \in BOOLEAN : SetKbdDisabled(disable))
         \/ ReadData \/ ResetCommand \/ SystemReset
  PROVE  KbInv'
<1>1. /\ kbd \in Keyboards /\ mouse \in Mice /\ kbd.queue \in KbQueues /\ mouse.queue \in KbQueues
      /\ Announced(kbc, kbd.queue, mouse.queue) /\ kbc \in Controller
  BY DEF KbInv, Keyboards, Mice, Announced
<1>2. ASSUME NEW q \in KbQueues
      PROVE  /\ [kbd EXCEPT !.queue = q] \in Keyboards /\ [kbd EXCEPT !.queue = q].queue = q
             /\ [kbd EXCEPT !.queue = q].delay = kbd.delay
             /\ [mouse EXCEPT !.queue = q] \in Mice /\ [mouse EXCEPT !.queue = q].queue = q
  BY <1>1 DEF Keyboards, Mice
<1>3. CASE \E a \in ControllerArgs : ExpectArgument(a)
  <2>1. PICK a \in ControllerArgs : ExpectArgument(a)
    BY <1>3
  <2>2. Announced([kbc EXCEPT !.write_cmd = a], kbd.queue, mouse.queue)
    BY <1>1, <2>1, ExpectAnnounces
  <2>3. kbc' = [kbc EXCEPT !.write_cmd = a] /\ UNCHANGED <<kbd, mouse, keys>>
    BY <2>1 DEF ExpectArgument
  <2> QED
    BY <1>1, <2>2, <2>3, KbPlain
<1>4. CASE ControllerAnswer
  <2>1. /\ Queued(kbd.queue, 1) \in KbQueues /\ Queued(mouse.queue, 1) \in KbQueues
        /\ Announced(Ps2Queue(kbc, "kbd", kbd.queue, 1), Queued(kbd.queue, 1), mouse.queue)
        /\ Announced(Ps2Queue(kbc, "aux", mouse.queue, 1), kbd.queue, Queued(mouse.queue, 1))
    BY <1>1, QueueAnnounces
  <2>2. CASE ToMouse(1) /\ UNCHANGED kbd
    <3>1. /\ kbc' = Ps2Queue(kbc, "aux", mouse.queue, 1) /\ kbd' = kbd /\ keys' = keys
          /\ mouse' = [mouse EXCEPT !.queue = Queued(mouse.queue, 1)]
      BY <1>4, <2>2 DEF ControllerAnswer, ToMouse
    <3> QED
      BY <1>1, <1>2, <2>1, <3>1, KbPlain
  <2>3. CASE ToKbd(1) /\ UNCHANGED mouse
    <3>1. /\ kbc' = Ps2Queue(kbc, "kbd", kbd.queue, 1) /\ mouse' = mouse /\ keys' = keys
          /\ kbd' = [kbd EXCEPT !.queue = Queued(kbd.queue, 1)]
      BY <1>4, <2>3 DEF ControllerAnswer, ToKbd
    <3> QED
      BY <1>1, <1>2, <2>1, <3>1, KbPlain
  <2> QED
    BY <1>4, <2>2, <2>3 DEF ControllerAnswer
<1>5. CASE \E disable \in BOOLEAN : SetKbdDisabled(disable)
  <2>1. PICK mode \in SUBSET Modes : /\ kbc' = KbdUpdateIrq([kbc EXCEPT !.mode = mode])
                                     /\ UNCHANGED <<kbd, mouse, keys>>
    <3>1. kbc.mode \cup {"disable_kbd"} \in SUBSET Modes /\ kbc.mode \ {"disable_kbd"} \in SUBSET Modes
      BY <1>1 DEF Controller, Modes
    <3> QED
      BY <1>5, <3>1 DEF SetKbdDisabled
  <2> DEFINE d == [kbc EXCEPT !.mode = mode]
  <2>2. d \in Controller /\ d.pending = kbc.pending
    BY <1>1, <2>1 DEF Controller
  <2>3. kbc' = KbdUpdateIrq(d)
    BY <2>1
  <2> HIDE DEF d
  <2>4. Announced(kbc', kbd.queue, mouse.queue)
    BY <1>1, <2>2, <2>3, UpdateAnnounces DEF Announced
  <2> QED
    BY <1>1, <2>1, <2>4, KbPlain
<1>6. CASE ReadData
  <2> DEFINE kq == IF kbd.queue = 0 THEN 0 ELSE kbd.queue - 1
             mq == IF mouse.queue = 0 THEN 0 ELSE mouse.queue - 1
  <2>1. /\ kq \in KbQueues /\ mq \in KbQueues
        /\ Announced(Ps2Read(kbc, "kbd", kbd.queue), kq, mouse.queue)
        /\ Announced(Ps2Read(kbc, "aux", mouse.queue), kbd.queue, mq)
    BY <1>1, ReadAnnounces
  <2>2. CASE kbc.pending = {"aux"}
    <3>1. /\ kbc' = Ps2Read(kbc, "aux", mouse.queue) /\ kbd' = kbd /\ keys' = keys
          /\ mouse' = [mouse EXCEPT !.queue = mq]
      BY <1>6, <2>2 DEF ReadData
    <3> HIDE DEF mq
    <3> QED
      BY <1>1, <1>2, <2>1, <3>1, KbPlain
  <2>3. CASE kbc.pending # {"aux"}
    <3>1. /\ kbc' = Ps2Read(kbc, "kbd", kbd.queue) /\ mouse' = mouse /\ keys' = keys
          /\ kbd' = [kbd EXCEPT !.queue = kq]
      BY <1>6, <2>3 DEF ReadData
    <3> HIDE DEF kq
    <3> QED
      BY <1>1, <1>2, <2>1, <3>1, KbPlain
  <2> QED
    BY <2>2, <2>3
<1>7. CASE ResetCommand \/ SystemReset
  <2>1. UNCHANGED <<kbc, kbd, mouse, keys>>
    BY <1>7 DEF ResetCommand, SystemReset
  <2> QED
    BY <2>1 DEF KbInv
<1> QED
  BY <1>3, <1>4, <1>5, <1>6, <1>7

\* Bytes written to the data port for the keyboard or the controller.
LEMMA KbWriteStep ==
  ASSUME KbInv, WriteKeyboard \/ WriteArgument
  PROVE  KbInv'
<1>1. /\ kbd \in Keyboards /\ mouse \in Mice /\ kbd.queue \in KbQueues /\ mouse.queue \in KbQueues
      /\ Announced(kbc, kbd.queue, mouse.queue) /\ kbc \in Controller
  BY DEF KbInv, Keyboards, Mice, Announced
<1>2. ASSUME NEW n \in Nat, NEW arg \in BOOLEAN, kbc' = Ps2Queue(kbc, "kbd", kbd.queue, n),
             kbd' = [kbd EXCEPT !.queue = Queued(kbd.queue, n), !.write_cmd = arg],
             UNCHANGED <<mouse, keys>>
      PROVE  KbInv'
  <2>1. /\ Queued(kbd.queue, n) \in KbQueues
        /\ Announced(Ps2Queue(kbc, "kbd", kbd.queue, n), Queued(kbd.queue, n), mouse.queue)
    BY <1>1, <1>2, QueueAnnounces
  <2>2. kbd' \in Keyboards /\ kbd'.queue = Queued(kbd.queue, n) /\ kbd'.delay = kbd.delay
    BY <1>1, <1>2, <2>1 DEF Keyboards
  <2> QED
    BY <1>1, <1>2, <2>1, <2>2, KbPlain
<1>3. CASE WriteKeyboard
  <2>1. UNCHANGED <<mouse, keys>>
    BY <1>3 DEF WriteKeyboard
  <2>2. CASE kbd.write_cmd
    <3>1. /\ kbc' = Ps2Queue(kbc, "kbd", kbd.queue, 1)
          /\ kbd' = [kbd EXCEPT !.queue = Queued(kbd.queue, 1), !.write_cmd = FALSE]
      BY <1>3, <2>2 DEF WriteKeyboard
    <3>2. FALSE \in BOOLEAN /\ 1 \in Nat
      OBVIOUS
    <3> QED
      BY <1>2, <2>1, <3>1, <3>2
  <2>3. CASE ~kbd.write_cmd
    <3>1. PICK n \in 1 .. 3, arg \in BOOLEAN :
            /\ kbc' = Ps2Queue(kbc, "kbd", kbd.queue, n)
            /\ kbd' = [kbd EXCEPT !.queue = Queued(kbd.queue, n), !.write_cmd = arg]
      BY <1>3, <2>3 DEF WriteKeyboard
    <3>2. n \in Nat
      BY <3>1
    <3> QED
      BY <1>2, <2>1, <3>1, <3>2
  <2> QED
    BY <2>2, <2>3
<1>4. CASE WriteArgument
  <2> DEFINE c == [kbc EXCEPT !.write_cmd = "none"]
  <2>1. Announced(c, kbd.queue, mouse.queue) /\ c \in Controller
    <3>1. Announced(c, kbd.queue, mouse.queue)
      BY <1>1, ExpectAnnounces
    <3> HIDE DEF c
    <3> QED
      BY <3>1 DEF Announced
  <2>2. keys' = keys
    BY <1>4 DEF WriteArgument
  <2>3. ASSUME NEW mode \in SUBSET Modes, kbc' = KbdUpdateIrq([c EXCEPT !.mode = mode]),
               UNCHANGED <<kbd, mouse>>
        PROVE  KbInv'
    <3> DEFINE d == [c EXCEPT !.mode = mode]
    <3> HIDE DEF c
    <3>1. d \in Controller /\ d.pending = c.pending
      BY <2>1, <2>3 DEF Controller
    <3> HIDE DEF d
    <3>2. Announced(KbdUpdateIrq(d), kbd.queue, mouse.queue)
      BY <1>1, <2>1, <3>1, UpdateAnnounces DEF Announced
    <3> QED
      BY <1>1, <2>2, <2>3, <3>2, KbPlain DEF d
  <2>4. ASSUME kbc' = Ps2Queue(c, "kbd", kbd.queue, 1),
               kbd' = [kbd EXCEPT !.queue = Queued(kbd.queue, 1)], UNCHANGED mouse
        PROVE  KbInv'
    <3> HIDE DEF c
    <3>1. /\ Queued(kbd.queue, 1) \in KbQueues
          /\ Announced(Ps2Queue(c, "kbd", kbd.queue, 1), Queued(kbd.queue, 1), mouse.queue)
      BY <1>1, <2>1, QueueAnnounces
    <3>2. kbd' \in Keyboards /\ kbd'.queue = Queued(kbd.queue, 1) /\ kbd'.delay = kbd.delay
      BY <1>1, <2>4, <3>1 DEF Keyboards
    <3> QED
      BY <1>1, <2>2, <2>4, <3>1, <3>2, KbPlain
  <2>5. ASSUME kbc' = Ps2Queue(c, "aux", mouse.queue, 1),
               mouse' = [mouse EXCEPT !.queue = Queued(mouse.queue, 1)], UNCHANGED kbd
        PROVE  KbInv'
    <3> HIDE DEF c
    <3>1. /\ Queued(mouse.queue, 1) \in KbQueues
          /\ Announced(Ps2Queue(c, "aux", mouse.queue, 1), kbd.queue, Queued(mouse.queue, 1))
      BY <1>1, <2>1, QueueAnnounces
    <3>2. mouse' \in Mice /\ mouse'.queue = Queued(mouse.queue, 1)
      BY <1>1, <2>5, <3>1 DEF Mice
    <3> QED
      BY <1>1, <2>2, <2>5, <3>1, <3>2, KbPlain
  <2>6. ASSUME kbc' = c, UNCHANGED <<kbd, mouse>> PROVE KbInv'
    BY <1>1, <2>1, <2>2, <2>6, KbPlain
  <2> QED
    BY <1>4, <2>3, <2>4, <2>5, <2>6 DEF WriteArgument
<1> QED
  BY <1>3, <1>4

Histories == [prefix : BOOLEAN, full : BOOLEAN, torn : BOOLEAN, packet_torn : BOOLEAN]

\* A scan code byte noted: a code after a prefix, anything else after none, tears nothing.
LEMMA NotedWhole ==
  ASSUME NEW h \in Histories, NEW byte, NEW full \in BOOLEAN, ~h.torn, ~h.packet_torn,
         h.prefix <=> byte = "code"
  PROVE  /\ Noted(h, byte, full) \in Histories
         /\ ~Noted(h, byte, full).torn /\ ~Noted(h, byte, full).packet_torn
         /\ Noted(h, byte, full).prefix <=> byte = "prefix"
<1> DEFINE f == h.full \/ full
           p == byte = "prefix"
           t == h.torn \/ (h.prefix # (byte = "code"))
           g == Noted(h, byte, full)
<1>1. f \in BOOLEAN /\ p \in BOOLEAN /\ t \in BOOLEAN /\ h.prefix \in BOOLEAN
  BY DEF Histories
<1>2. ~t
  BY <1>1
<1>3. g = [h EXCEPT !.full = f, !.prefix = p, !.torn = t]
  BY DEF Noted
<1> HIDE DEF f, p, t, g
<1>4. g \in Histories /\ g.torn = t /\ g.packet_torn = h.packet_torn /\ g.prefix = p
  BY <1>1, <1>3 DEF Histories
<1> QED
  BY <1>2, <1>4 DEF g, p

\* A byte of the keyboard is queued.
LEMMA KeyByte ==
  ASSUME NEW k \in Keyboards, NEW mq \in KbQueues, NEW c, Announced(c, k.queue, mq),
         NEW delay \in BOOLEAN, NEW n \in Nat
  PROVE  LET m == [k EXCEPT !.queue = Queued(k.queue, n), !.delay = delay] IN
         /\ m \in Keyboards /\ m.delay = delay /\ m.queue = Queued(k.queue, n)
         /\ Announced(Ps2Queue(c, "kbd", k.queue, n), m.queue, mq)
<1>1. k.queue \in KbQueues
  BY DEF Keyboards
<1>2. /\ Queued(k.queue, n) \in KbQueues
      /\ Announced(Ps2Queue(c, "kbd", k.queue, n), Queued(k.queue, n), mq)
  BY <1>1, QueueAnnounces
<1> DEFINE m == [k EXCEPT !.queue = Queued(k.queue, n), !.delay = delay]
<1>3. m \in Keyboards /\ m.delay = delay /\ m.queue = Queued(k.queue, n)
  BY <1>2 DEF Keyboards
<1> HIDE DEF m
<1>4. Announced(Ps2Queue(c, "kbd", k.queue, n), m.queue, mq)
  BY <1>2, <1>3
<1> QED
  BY <1>3, <1>4 DEF m

\* After the code held back has gone out, no prefix is open.
LEMMA FlushWhole ==
  ASSUME KbInv
  PROVE  LET f == Flush(kbd, kbc, keys) IN
         /\ f = <<f[1], f[2], f[3]>>
         /\ f[1] \in Keyboards /\ ~f[1].delay
         /\ Announced(f[2], f[1].queue, mouse.queue)
         /\ f[3] \in Histories /\ ~f[3].prefix /\ ~f[3].torn /\ ~f[3].packet_torn
<1>1. /\ kbd \in Keyboards /\ mouse.queue \in KbQueues /\ kbd.delay \in BOOLEAN
      /\ Announced(kbc, kbd.queue, mouse.queue)
      /\ keys \in Histories /\ keys.prefix = kbd.delay /\ ~keys.torn /\ ~keys.packet_torn
  BY DEF KbInv, Mice, Histories, Keyboards
<1>2. CASE ~kbd.delay
  <2>1. Flush(kbd, kbc, keys) = <<kbd, kbc, keys>>
    BY <1>2 DEF Flush
  <2> QED
    BY <1>1, <1>2, <2>1
<1>3. CASE kbd.delay
  <2> DEFINE m == [kbd EXCEPT !.queue = Queued(kbd.queue, 1), !.delay = FALSE]
             full == kbd.queue = QueueSize
             h == Noted(keys, "code", full)
  <2>1. /\ m \in Keyboards /\ m.delay = FALSE
        /\ Announced(Ps2Queue(kbc, "kbd", kbd.queue, 1), m.queue, mouse.queue)
    <3>1. FALSE \in BOOLEAN /\ 1 \in Nat
      OBVIOUS
    <3> QED
      BY <1>1, <3>1, KeyByte
  <2>2. full \in BOOLEAN
    OBVIOUS
  <2>3. h \in Histories /\ ~h.torn /\ ~h.packet_torn /\ ~h.prefix
    <3> HIDE DEF full
    <3>1. Noted(keys, "code", full).prefix <=> "code" = "prefix"
      BY <1>1, <1>3, <2>2, NotedWhole
    <3> QED
      BY <1>1, <1>3, <2>2, <3>1, NotedWhole
  <2>4. Flush(kbd, kbc, keys) = << m, Ps2Queue(kbc, "kbd", kbd.queue, 1), h >>
    <3>1. [kbd EXCEPT !.delay = FALSE, !.queue = Queued(kbd.queue, 1)] = m
      BY <1>1 DEF Keyboards
    <3> QED
      BY <1>3, <3>1 DEF Flush
  <2> HIDE DEF m, h
  <2> QED
    BY <2>1, <2>3, <2>4
<1> QED
  BY <1>2, <1>3

\* ps2_put_keycode and kbd_step.
LEMMA KbKeyStep ==
  ASSUME KbInv, KbdStep \/ \E extended \in BOOLEAN : PutKeycode(extended)
  PROVE  KbInv'
<1> DEFINE f == Flush(kbd, kbc, keys)
<1>1. /\ f[1] \in Keyboards /\ ~f[1].delay /\ Announced(f[2], f[1].queue, mouse.queue)
      /\ f[3] \in Histories /\ ~f[3].prefix /\ ~f[3].torn /\ ~f[3].packet_torn
  BY FlushWhole
<1>2. mouse \in Mice /\ mouse.queue \in KbQueues /\ f[1].delay \in BOOLEAN /\ f[3].prefix \in BOOLEAN
  BY <1>1 DEF KbInv, Mice, Keyboards, Histories
<1>3. CASE KbdStep
  <2>1. kbd' = f[1] /\ kbc' = f[2] /\ keys' = f[3] /\ mouse' = mouse
    BY <1>3 DEF KbdStep
  <2> HIDE DEF f
  <2>2. keys'.prefix = kbd'.delay
    BY <1>1, <1>2, <2>1
  <2>3. Announced(kbc', kbd'.queue, mouse'.queue)
    BY <1>1, <2>1
  <2> QED
    BY <1>1, <1>2, <2>1, <2>2, <2>3 DEF KbInv, Histories, Announced, Keyboards, Mice, Controller
<1>4. CASE \E extended \in BOOLEAN : PutKeycode(extended)
  <2>1. PICK extended \in BOOLEAN : PutKeycode(extended)
    BY <1>4
  <2> DEFINE k == f[1]
             byte == IF extended THEN "prefix" ELSE "plain"
             full == k.queue = QueueSize
             h == Noted(f[3], byte, full)
             m == [k EXCEPT !.queue = Queued(k.queue, 1), !.delay = extended]
  <2>2. kbd' = m /\ kbc' = Ps2Queue(f[2], "kbd", k.queue, 1) /\ keys' = h /\ mouse' = mouse
    BY <2>1 DEF PutKeycode
  <2> HIDE DEF f
  <2>3. /\ m \in Keyboards /\ m.delay = extended
        /\ Announced(Ps2Queue(f[2], "kbd", k.queue, 1), m.queue, mouse.queue)
    <3> DEFINE c == f[2]
               mq == mouse.queue
    <3>1. k \in Keyboards /\ Announced(c, k.queue, mq) /\ 1 \in Nat /\ mq \in KbQueues
      BY <1>1, <1>2
    <3> HIDE DEF k, byte, full, h, c, mq
    <3>2. /\ m \in Keyboards /\ m.delay = extended
          /\ Announced(Ps2Queue(c, "kbd", k.queue, 1), m.queue, mq)
      <4>1. k.queue \in KbQueues
        BY <3>1 DEF Keyboards
      <4>2. /\ Queued(k.queue, 1) \in KbQueues
            /\ Announced(Ps2Queue(c, "kbd", k.queue, 1), Queued(k.queue, 1), mq)
        BY <3>1, <4>1, QueueAnnounces
      <4>3. m \in Keyboards /\ m.delay = extended /\ m.queue = Queued(k.queue, 1)
        BY <2>1, <3>1, <4>2 DEF Keyboards
      <4> QED
        BY <4>2, <4>3
    <3> QED
      BY <3>2 DEF c, mq
  <2>4. full \in BOOLEAN /\ byte # "code" /\ (byte = "prefix" <=> extended)
    OBVIOUS
  <2>5. h \in Histories /\ ~h.torn /\ ~h.packet_torn /\ (h.prefix <=> extended)
    <3> HIDE DEF byte, full
    <3>1. f[3].prefix <=> byte = "code"
      BY <1>1, <2>4
    <3>2. h \in Histories /\ ~h.torn /\ ~h.packet_torn /\ (h.prefix <=> byte = "prefix")
      BY <1>1, <2>4, <3>1, NotedWhole
    <3> QED
      BY <2>4, <3>2
  <2> HIDE DEF h, m, k
  <2>6. h.prefix = m.delay
    BY <2>1, <2>3, <2>5 DEF Histories
  <2>7. keys' \in Histories /\ kbd' \in Keyboards /\ mouse' \in Mice /\ keys'.prefix = kbd'.delay
        /\ ~keys'.torn /\ ~keys'.packet_torn
    BY <1>2, <2>2, <2>3, <2>5, <2>6
  <2>8. Announced(kbc', kbd'.queue, mouse'.queue)
    BY <2>2, <2>3
  <2> QED
    BY <2>7, <2>8 DEF KbInv, Histories, Announced, Keyboards, Mice, Controller
<1> QED
  BY <1>3, <1>4

\* A state of the mouse that leaves its queue as it was.
QueueKept(n, m) == n \in Mice /\ n.queue = m.queue
Answer(r, m) == QueueKept(r[1], m) /\ r[2] \in Nat

\* An answer of two parts.
LEMMA PairAnswers ==
  ASSUME NEW m, NEW n, NEW k \in Nat, QueueKept(n, m)
  PROVE  Answer(<<n, k>>, m)
BY DEF Answer

\* What a byte written to the mouse may make of it, and the bytes it answers.
LEMMA MouseAnswers ==
  ASSUME NEW m \in Mice
  PROVE  /\ \A r \in MouseCommands(m) \cup {MouseReset(m)} : Answer(r, m)
         /\ \A r \in {<<MouseSample(m, rate), 1>> : rate \in {80, 100, 200}} : Answer(r, m)
         /\ \A r \in {<<[m EXCEPT !.write_cmd = "none"], 1>>} : Answer(r, m)
         /\ \A r \in {<<[m EXCEPT !.wrap = FALSE], 1>>, <<m, 1>>, MouseReset(m)} : Answer(r, m)
<1>1. PacketSize(m) \in Nat
  BY DEF PacketSize
<1>2. /\ QueueKept([m EXCEPT !.remote = FALSE], m) /\ QueueKept([m EXCEPT !.remote = TRUE], m)
      /\ QueueKept([m EXCEPT !.wrap = FALSE], m) /\ QueueKept([m EXCEPT !.wrap = TRUE], m)
      /\ QueueKept([m EXCEPT !.enabled = FALSE], m) /\ QueueKept([m EXCEPT !.enabled = TRUE], m)
      /\ QueueKept(m, m)
  BY DEF Mice, QueueKept
<1>3. /\ QueueKept([m EXCEPT !.write_cmd = "none"], m) /\ QueueKept([m EXCEPT !.write_cmd = "set_res"], m)
      /\ QueueKept([m EXCEPT !.write_cmd = "set_sample"], m)
      /\ QueueKept([m EXCEPT !.remote = FALSE, !.enabled = FALSE], m)
  BY DEF Mice, QueueKept
<1>4. QueueKept([m EXCEPT !.delta = IF m.delta = 0 THEN 0 ELSE m.delta - 1], m)
  <2>1. (IF m.delta = 0 THEN 0 ELSE m.delta - 1) \in 0 .. MaxDelta
    BY KbAssumption DEF Mice
  <2> QED
    BY <2>1 DEF Mice, QueueKept
<1>5. Answer(MouseReset(m), m)
  BY DEF MouseReset, Mice, QueueKept, Answer
<1>6. \A r \in MouseCommands(m) : Answer(r, m)
  <2>1. 0 \in Nat /\ 1 \in Nat /\ 2 \in Nat /\ 4 \in Nat /\ 1 + PacketSize(m) \in Nat
    BY <1>1
  <2>2. /\ Answer(<<[m EXCEPT !.remote = FALSE], 1>>, m)
        /\ Answer(<<[m EXCEPT !.remote = TRUE], 1>>, m)
        /\ Answer(<<[m EXCEPT !.wrap = TRUE], 1>>, m)
        /\ Answer(<<[m EXCEPT !.write_cmd = "set_res"], 1>>, m)
        /\ Answer(<<[m EXCEPT !.write_cmd = "set_sample"], 1>>, m)
        /\ Answer(<<[m EXCEPT !.enabled = TRUE], 1>>, m)
        /\ Answer(<<[m EXCEPT !.enabled = FALSE], 1>>, m)
        /\ Answer(<<[m EXCEPT !.remote = FALSE, !.enabled = FALSE], 1>>, m)
        /\ Answer(<<m, 2>>, m) /\ Answer(<<m, 4>>, m) /\ Answer(<<m, 0>>, m)
        /\ Answer(<<[m EXCEPT !.delta = IF @ = 0 THEN 0 ELSE @ - 1], 1 + PacketSize(m)>>, m)
    BY <1>2, <1>3, <1>4, <2>1, PairAnswers, Zenon
  <2> QED
    BY <2>2, Zenon DEF MouseCommands
<1>7. ASSUME NEW rate \in {80, 100, 200}
      PROVE  QueueKept(MouseSample(m, rate), m)
  <2> DEFINE n == [m EXCEPT !.write_cmd = "none"]
  <2>1. n \in Mice /\ n.queue = m.queue
    BY <1>3 DEF QueueKept
  <2> HIDE DEF n
  <2>2. n.type \in {0, 3, 4} /\ m.detect_state \in 0 .. 3
    BY <2>1 DEF Mice
  <2>3. CASE m.detect_state = 1
    <3> DEFINE d == CASE rate = 100 -> 2 [] rate = 200 -> 3 [] OTHER -> 0
    <3>1. MouseSample(m, rate) = [n EXCEPT !.detect_state = d]
      BY <2>3 DEF MouseSample, n
    <3>2. d \in 0 .. 3
      OBVIOUS
    <3> HIDE DEF d
    <3> QED
      BY <2>1, <3>1, <3>2 DEF Mice, QueueKept
  <2>4. CASE m.detect_state = 2
    <3> DEFINE t == IF rate = 80 THEN 3 ELSE n.type
               n1 == [n EXCEPT !.detect_state = 0]
    <3>1. MouseSample(m, rate) = [n1 EXCEPT !.type = t]
      BY <2>4 DEF MouseSample, n
    <3>2. t \in {0, 3, 4} /\ 0 \in 0 .. 3
      BY <2>2
    <3>3. n1 \in Mice /\ n1.queue = n.queue
      BY <2>1, <3>2 DEF Mice
    <3> HIDE DEF t, n1
    <3> QED
      BY <2>1, <3>1, <3>2, <3>3 DEF Mice, QueueKept
  <2>5. CASE m.detect_state = 3
    <3> DEFINE t == IF rate = 80 THEN 4 ELSE n.type
               n1 == [n EXCEPT !.detect_state = 0]
    <3>1. MouseSample(m, rate) = [n1 EXCEPT !.type = t]
      BY <2>5 DEF MouseSample, n
    <3>2. t \in {0, 3, 4} /\ 0 \in 0 .. 3
      BY <2>2
    <3>3. n1 \in Mice /\ n1.queue = n.queue
      BY <2>1, <3>2 DEF Mice
    <3> HIDE DEF t, n1
    <3> QED
      BY <2>1, <3>1, <3>2, <3>3 DEF Mice, QueueKept
  <2>6. CASE m.detect_state = 0
    <3> DEFINE d == IF rate = 200 THEN 1 ELSE 0
    <3>1. MouseSample(m, rate) = [n EXCEPT !.detect_state = d]
      BY <2>6 DEF MouseSample, n
    <3>2. d \in 0 .. 3
      OBVIOUS
    <3> HIDE DEF d
    <3> QED
      BY <2>1, <3>1, <3>2 DEF Mice, QueueKept
  <2> QED
    BY <2>2, <2>3, <2>4, <2>5, <2>6
<1>8. 1 \in Nat
  OBVIOUS
<1>9. /\ Answer(<<[m EXCEPT !.write_cmd = "none"], 1>>, m)
      /\ Answer(<<[m EXCEPT !.wrap = FALSE], 1>>, m) /\ Answer(<<m, 1>>, m)
  BY <1>2, <1>3, <1>8, PairAnswers, Zenon
<1> DEFINE Rates == {80, 100, 200}
<1>10. \A rate \in Rates : QueueKept(MouseSample(m, rate), m)
  BY <1>7
<1> HIDE DEF Rates
<1>11. \A rate \in Rates : Answer(<<MouseSample(m, rate), 1>>, m)
  BY <1>8, <1>10, PairAnswers, Zenon
<1>12. \A r \in {<<MouseSample(m, rate), 1>> : rate \in Rates} : Answer(r, m)
  BY <1>11, Zenon
<1>13. \A r \in MouseCommands(m) \cup {MouseReset(m)} : Answer(r, m)
  BY <1>5, <1>6, Zenon
<1>14. \A r \in {<<[m EXCEPT !.wrap = FALSE], 1>>, <<m, 1>>, MouseReset(m)} : Answer(r, m)
  BY <1>5, <1>9, Zenon
<1>15. \A r \in {<<[m EXCEPT !.write_cmd = "none"], 1>>} : Answer(r, m)
  BY <1>9, Zenon
<1> QED
  BY <1>12, <1>13, <1>14, <1>15, Zenon DEF Rates

\* The mouse: commands and movement.
LEMMA KbMouseStep ==
  ASSUME KbInv, WriteMouse \/ MouseEvent
  PROVE  KbInv'
<1>1. /\ kbd \in Keyboards /\ mouse \in Mice /\ kbd.queue \in KbQueues /\ mouse.queue \in KbQueues
      /\ Announced(kbc, kbd.queue, mouse.queue) /\ kbc \in Controller
  BY DEF KbInv, Keyboards, Mice, Announced
<1>2. CASE WriteMouse
  <2> DEFINE c == [kbc EXCEPT !.write_cmd = "none"]
  <2>1. PICK r : /\ r[1] \in Mice /\ r[1].queue = mouse.queue /\ r[2] \in Nat
                 /\ mouse' = [r[1] EXCEPT !.queue = Queued(r[1].queue, r[2])]
                 /\ kbc' = Ps2Queue(c, "aux", mouse.queue, r[2])
    <3>1. mouse.write_cmd \in {"none", "set_res", "set_sample"} /\ mouse.wrap \in BOOLEAN
      BY <1>1 DEF Mice
    <3> DEFINE Sampled == {<<MouseSample(mouse, rate), 1>> : rate \in {80, 100, 200}}
               Done == {<<[mouse EXCEPT !.write_cmd = "none"], 1>>}
               Wrapping == {<<[mouse EXCEPT !.wrap = FALSE], 1>>, <<mouse, 1>>, MouseReset(mouse)}
               Plain == MouseCommands(mouse) \cup {MouseReset(mouse)}
               Answers == CASE mouse.write_cmd = "set_sample" -> Sampled
                            [] mouse.write_cmd = "set_res" -> Done
                            [] mouse.write_cmd = "none" /\ mouse.wrap -> Wrapping
                            [] OTHER -> Plain
    <3>2. PICK r \in Answers :
               /\ mouse' = [r[1] EXCEPT !.queue = Queued(@, r[2])]
               /\ kbc' = Ps2Queue(c, "aux", mouse.queue, r[2])
      BY <1>2 DEF WriteMouse
    <3>3. Answers \in {Sampled, Done, Wrapping, Plain}
      <4> HIDE DEF Sampled, Done, Wrapping, Plain
      <4> QED
        BY <3>1
    <3>4. \A x \in Sampled \cup Done \cup Wrapping \cup Plain : Answer(x, mouse)
      <4>1. /\ \A x \in Plain : Answer(x, mouse)
            /\ \A x \in Sampled : Answer(x, mouse)
            /\ \A x \in Done : Answer(x, mouse)
            /\ \A x \in Wrapping : Answer(x, mouse)
        <5>1. mouse \in Mice
          BY <1>1
        <5> QED
          BY <5>1, MouseAnswers
      <4> HIDE DEF Sampled, Done, Wrapping, Plain
      <4> QED
        BY <4>1, Zenon
    <3>5. Answer(r, mouse)
      <4> HIDE DEF Sampled, Done, Wrapping, Plain, Answers
      <4> QED
        BY <3>2, <3>3, <3>4
    <3> QED
      BY <3>2, <3>5 DEF Answer, QueueKept
  <2>2. Announced(c, kbd.queue, mouse.queue)
    BY <1>1, ExpectAnnounces
  <2> HIDE DEF c
  <2>3. /\ Queued(mouse.queue, r[2]) \in KbQueues
        /\ Announced(Ps2Queue(c, "aux", mouse.queue, r[2]), kbd.queue, Queued(mouse.queue, r[2]))
    BY <1>1, <2>1, <2>2, QueueAnnounces
  <2>4. mouse' \in Mice /\ mouse'.queue = Queued(mouse.queue, r[2])
    BY <2>1, <2>3 DEF Mice
  <2>5. kbd' = kbd /\ keys' = keys
    BY <1>2 DEF WriteMouse
  <2> QED
    BY <1>1, <2>1, <2>3, <2>4, <2>5, KbPlain
<1>3. CASE MouseEvent
  <2>1. PICK delta \in 0 .. MaxDelta :
          LET sent  == ~mouse.remote /\ mouse.queue < QueueSize - Reserve
              bytes == (IF delta = 0 THEN 1 ELSE delta) * PacketSize(mouse)
          IN  IF sent
              THEN /\ mouse' = [mouse EXCEPT !.delta = 0, !.queue = Queued(@, bytes)]
                   /\ kbc' = Ps2Queue(kbc, "aux", mouse.queue, bytes)
                   /\ keys' = [keys EXCEPT !.packet_torn =
                                  @ \/ (bytes <= Reserve /\ mouse.queue + bytes > QueueSize)]
              ELSE /\ mouse' = [mouse EXCEPT !.delta = delta]
                   /\ UNCHANGED <<kbc, keys>>
    BY <1>3 DEF MouseEvent
  <2> DEFINE bytes == (IF delta = 0 THEN 1 ELSE delta) * PacketSize(mouse)
  <2>2. bytes \in Nat
    <3>1. PacketSize(mouse) \in {3, 4}
      BY DEF PacketSize
    <3>2. (IF delta = 0 THEN 1 ELSE delta) \in Nat
      BY <2>1, KbAssumption
    <3> QED
      BY <3>1, <3>2
  <2>3. kbd' = kbd
    BY <1>3 DEF MouseEvent
  <2>4. CASE ~mouse.remote /\ mouse.queue < QueueSize - Reserve
    <3> DEFINE torn == keys.packet_torn \/ (bytes <= Reserve /\ mouse.queue + bytes > QueueSize)
    <3>1. /\ mouse' = [mouse EXCEPT !.delta = 0, !.queue = Queued(mouse.queue, bytes)]
          /\ kbc' = Ps2Queue(kbc, "aux", mouse.queue, bytes)
          /\ keys' = [keys EXCEPT !.packet_torn = torn]
      BY <2>1, <2>4
    <3> HIDE DEF bytes
    <3>2. torn \in BOOLEAN /\ ~torn
      <4>1. mouse.queue \in Nat /\ QueueSize \in Nat /\ Reserve \in Nat
        BY <1>1, KbAssumption DEF KbQueues
      <4>2. ~(bytes <= Reserve /\ mouse.queue + bytes > QueueSize)
        BY <2>2, <2>4, <4>1
      <4> QED
        BY <4>2 DEF KbInv
    <3> HIDE DEF torn
    <3>3. keys' = keys
      <4>1. keys \in Histories /\ keys.packet_torn = torn
        BY <3>2 DEF KbInv, Histories
      <4> QED
        BY <3>1, <4>1 DEF Histories
    <3>4. /\ Queued(mouse.queue, bytes) \in KbQueues
          /\ Announced(Ps2Queue(kbc, "aux", mouse.queue, bytes), kbd.queue, Queued(mouse.queue, bytes))
      BY <1>1, <2>2, QueueAnnounces
    <3>5. mouse' \in Mice /\ mouse'.queue = Queued(mouse.queue, bytes)
      <4>1. 0 \in 0 .. MaxDelta
        BY KbAssumption
      <4> QED
        BY <1>1, <3>1, <3>4, <4>1 DEF Mice
    <3> QED
      BY <1>1, <2>3, <3>1, <3>3, <3>4, <3>5, KbPlain
  <2>5. CASE ~(~mouse.remote /\ mouse.queue < QueueSize - Reserve)
    <3>1. mouse' = [mouse EXCEPT !.delta = delta] /\ kbc' = kbc /\ keys' = keys
      BY <2>1, <2>5
    <3>2. mouse' \in Mice /\ mouse'.queue = mouse.queue
      BY <1>1, <2>1, <3>1 DEF Mice
    <3> QED
      BY <1>1, <2>3, <3>1, <3>2, KbPlain
  <2> QED
    BY <2>4, <2>5
<1> QED
  BY <1>2, <1>3

\* The invariant of the keyboard controller.
LEMMA KbInvariant == KbSpec => []KbInv
<1>1. KbInit => KbInv
  <2> SUFFICES ASSUME KbInit PROVE KbInv
    OBVIOUS
  <2>1. kbd \in Keyboards /\ mouse \in Mice /\ kbd.queue = 0 /\ mouse.queue = 0
    BY KbAssumption DEF KbInit, Keyboards, Mice, KbQueues
  <2>2. Announced(kbc, 0, 0)
    <3>1. kbc \in Controller /\ kbc.pending = {} /\ ~kbc.obf /\ ~kbc.mouse_obf /\ ~kbc.irq1 /\ ~kbc.irq12
      BY DEF KbInit, Controller, Modes
    <3> QED
      BY <3>1 DEF Announced
  <2>3. keys \in Histories /\ keys.prefix = kbd.delay /\ ~keys.torn /\ ~keys.packet_torn
    BY DEF KbInit, Histories
  <2> QED
    BY <2>1, <2>2, <2>3 DEF KbInv, Histories
<1>2. KbInv /\ [KeyboardNext \/ MouseNext]_kbVars => KbInv'
  <2> SUFFICES ASSUME KbInv, [KeyboardNext \/ MouseNext]_kbVars PROVE KbInv'
    OBVIOUS
  <2>1. CASE UNCHANGED kbVars
    BY <2>1 DEF kbVars, KbInv
  <2>2. CASE KeyboardNext
    BY <2>2, KbControllerStep, KbWriteStep, KbKeyStep DEF KeyboardNext
  <2>3. CASE MouseNext
    <3>1. "write_mouse" \in ControllerArgs /\ FALSE \in BOOLEAN
      BY DEF ControllerArgs
    <3> QED
      BY <2>3, <3>1, KbControllerStep, KbMouseStep, KbKeyStep DEF MouseNext
  <2> QED
    BY <2>1, <2>2, <2>3
<1> QED
  BY <1>1, <1>2, PTL DEF KbSpec

\* The status register and the lines announce exactly what the two queues hold, for every guest,
\* every sequence of keys and movements and every size of the queues.
THEOREM KeyboardDataIsAnnounced == KbSpec => []DataAnnounced
BY KbInvariant, KbInvSuffices, PTL

\* No scan code is separated from its prefix, and no packet of the mouse is cut off that fits
\* the reserve, for every size of the queues.
THEOREM StreamsStayWhole == KbSpec => []StreamsWhole
BY KbInvariant, KbInvSuffices, PTL

-----------------------------------------------------------------------------
(***************************************************************************)
(* The VGA's window on the PCI bus.                                        *)
(***************************************************************************)
\* The configuration space of a device.
Configs == [PciRegs -> {0, 1}]

\* What the VGA's configuration space always is: its base address aligned, its identity and
\* interrupt pin as they were made.
VgaConfig(c) ==
  /\ c \in Configs
  /\ Dword(c, Bar0) % BarSize = 0
  /\ c[LinePin + 1] = 0 /\ \A a \in 0 .. 3 : c[a] = 1

\* The window is where the configuration space says.
Mapped(c, on, addr) ==
  /\ on <=> c[PciCommand] = 1
  /\ addr = IF c[PciCommand] = 1 THEN Dword(c, Bar0) ELSE Nowhere

PciInv ==
  /\ configReg.reg \in PciRegs
  /\ config \in [PciDevices -> Configs]
  /\ VgaConfig(config["vga"]) /\ region \in BOOLEAN
  /\ Mapped(config["vga"], region, vgaAddr)

\* A bit is 0 or 1, and a number of four bits is the sum of its own.
LEMMA BitType == ASSUME NEW v \in Nat, NEW i \in 0 .. 3 PROVE Bit(v, i) \in {0, 1}
<1>1. CASE i = 0
  BY <1>1 DEF Bit
<1>2. CASE i = 1
  BY <1>2 DEF Bit
<1>3. CASE i = 2
  BY <1>3 DEF Bit
<1>4. CASE i = 3
  BY <1>4 DEF Bit
<1> QED
  BY <1>1, <1>2, <1>3, <1>4

\* The bits of a base register, weighed, are its value.
LEMMA BitsSum ==
  ASSUME NEW v \in 0 .. 15
  PROVE  Bit(v, 0) + 2 * Bit(v, 1) + 4 * Bit(v, 2) + 8 * Bit(v, 3) = v
<1>1. /\ Bit(v, 0) = (v \div 1) % 2 /\ Bit(v, 1) = (v \div 2) % 2
      /\ Bit(v, 2) = (v \div 4) % 2 /\ Bit(v, 3) = (v \div 8) % 2
  BY DEF Bit
<1>2. ((v \div 1) % 2) + 2 * ((v \div 2) % 2) + 4 * ((v \div 4) % 2) + 8 * ((v \div 8) % 2) = v
  <2>1. v \in {0, 1, 2, 3, 4, 5, 6, 7, 8, 9, 10, 11, 12, 13, 14, 15}
    OBVIOUS
  <2>2. v \div 1 = v /\ v \div 8 \in {0, 1} /\ v \div 4 = 2 * (v \div 8) + ((v \div 4) % 2)
    BY <2>1
  <2>3. v \div 2 = 2 * (v \div 4) + ((v \div 2) % 2) /\ v = 2 * (v \div 2) + (v % 2)
    BY <2>1
  <2> QED
    BY <2>2, <2>3
<1> QED
  BY <1>1, <1>2

\* A base address as it is stored.
LEMMA AlignedBar ==
  ASSUME NEW v \in 0 .. 15
  PROVE  Aligned(v, BarSize) \in 0 .. 15 /\ Aligned(v, BarSize) % BarSize = 0
<1>1. CASE BarSize = 1
  BY <1>1 DEF Aligned
<1>2. CASE BarSize = 2
  BY <1>2 DEF Aligned
<1>3. CASE BarSize = 4
  BY <1>3 DEF Aligned
<1>4. CASE BarSize = 8
  BY <1>4 DEF Aligned
<1>5. CASE BarSize = 16
  BY <1>5 DEF Aligned
<1> QED
  BY <1>1, <1>2, <1>3, <1>4, <1>5, PciAssumption

\* An address that is aligned needs no aligning.
LEMMA AlignedStays ==
  ASSUME NEW d \in Nat, d % BarSize = 0 PROVE Aligned(d, BarSize) = d
BY PciAssumption DEF Aligned

\* The registers as numbers.
LEMMA PciNumbers ==
  /\ PciCommand = 4 /\ Bar0 = 8 /\ LinePin = 12 /\ PciCommand \in PciRegs
  /\ ReadOnly = {0, 1, 2, 3, 8, 9, 10, 11, 13} /\ Status = {6, 7}
  /\ \A x : x \in PciRegs <=> x \in 0 .. 15
BY DEF PciCommand, Bar0, LinePin, PciRegs, ReadOnly, Status

\* The two windows of aligned video memory do not get in each other's way.
LEMMA WindowsAgree ==
  ASSUME PciInv
  PROVE  BarAgrees
<1> DEFINE c == config["vga"]
           D == Dword(c, Bar0)
<1>1. c \in Configs /\ D % BarSize = 0 /\ vgaAddr = (IF c[PciCommand] = 1 THEN D ELSE Nowhere)
  BY DEF PciInv, VgaConfig, Mapped
<1>2. D \in 0 .. 15
  BY <1>1, PciNumbers DEF Configs, Dword
<1>3. c[LinePin + 1] = 0 /\ \A a \in 0 .. 3 : c[a] = 1
  BY DEF PciInv, VgaConfig
<1> HIDE DEF D, c
<1>4. ASSUME NEW x \in 0 .. VgaMem - 1
      PROVE  /\ LfbOffset(LfbAlias + x) = x
             /\ c[PciCommand] = 1 => LfbOffset(D + x) = x
  <2>1. /\ VgaMem \in Nat /\ VgaMem <= BarSize /\ LfbAlias \in Nat /\ LfbAlias % BarSize = 0
        /\ BarSize \in {1, 2, 4, 8, 16} /\ x \in Nat /\ x < VgaMem
    BY <1>4, PciAssumption
  <2>2. LfbAlias - D < BarSize /\ D - LfbAlias < BarSize => LfbAlias = D
    BY <1>1, <1>2, <2>1
  <2>3. D # -1 /\ (LfbAlias + x) - LfbAlias = x /\ (D + x) - D = x
    BY <1>2, <2>1
  <2>4. CASE c[PciCommand] = 1
    <3>1. vgaAddr = D
      BY <1>1, <2>4
    <3>2. LfbOffset(D + x) = x
      BY <1>2, <1>4, <2>1, <2>3, <3>1 DEF LfbOffset, Nowhere
    <3>3. LfbOffset(LfbAlias + x) = x
      <4>1. CASE LfbAlias = D
        BY <3>2, <4>1
      <4>2. CASE LfbAlias # D
        <5>1. (LfbAlias + x) - D \notin 0 .. VgaMem - 1
          BY <1>2, <2>1, <2>2, <4>2
        <5>2. (LfbAlias + x) - LfbAlias \in 0 .. VgaMem - 1
          BY <1>4, <2>3
        <5> QED
          BY <2>3, <3>1, <5>1, <5>2 DEF LfbOffset
      <4> QED
        BY <4>1, <4>2
    <3> QED
      BY <3>2, <3>3
  <2>5. CASE c[PciCommand] # 1
    <3>1. (LfbAlias + x) - LfbAlias \in 0 .. VgaMem - 1
      BY <1>4, <2>3
    <3> QED
      BY <1>1, <2>3, <2>5, <3>1 DEF LfbOffset
  <2> QED
    BY <2>4, <2>5
<1> QED
  BY <1>1, <1>3, <1>4 DEF BarAgrees, D, c

\* Bytes are written one by one, and not to what is read-only.
LEMMA WriteBytesKeeps ==
  ASSUME NEW c \in Configs, NEW a \in Int, NEW v \in Nat, NEW size \in {1, 2, 4}
  PROVE  /\ WriteBytes(c, a, v, size) \in Configs
         /\ \A x \in PciRegs : x \in ReadOnly \/ x \notin a .. a + size - 1 =>
              WriteBytes(c, a, v, size)[x] = c[x]
<1> DEFINE W == WriteBytes(c, a, v, size)
<1>1. ASSUME NEW x \in PciRegs, NEW bit \in {0, 1}
      PROVE  Write8(c, x, bit)[x] \in {0, 1} /\ (x \in ReadOnly => Write8(c, x, bit)[x] = c[x])
  BY PciNumbers DEF Write8, Configs
<1>2. ASSUME NEW x \in PciRegs, x \in a .. a + size - 1 PROVE Bit(v, x - a) \in {0, 1}
  <2>1. x - a \in 0 .. 3
    BY <1>2 DEF PciRegs
  <2> QED
    BY <2>1, BitType
<1>3. ASSUME NEW x \in PciRegs
      PROVE  /\ W[x] \in {0, 1}
             /\ x \in ReadOnly \/ x \notin a .. a + size - 1 => W[x] = c[x]
  <2>1. CASE x \in a .. a + size - 1
    <3>1. W[x] = Write8(c, x, Bit(v, x - a))[x]
      BY <2>1 DEF WriteBytes
    <3> QED
      BY <1>1, <1>2, <2>1, <3>1
  <2>2. CASE x \notin a .. a + size - 1
    <3>1. W[x] = c[x]
      BY <2>2 DEF WriteBytes
    <3> QED
      BY <3>1 DEF Configs
  <2> QED
    BY <2>1, <2>2
<1>4. W = [x \in PciRegs |-> W[x]]
  BY DEF WriteBytes
<1> HIDE DEF W
<1>5. W \in Configs
  BY <1>3, <1>4 DEF Configs
<1> QED
  BY <1>3, <1>5 DEF W

\* pci_update_mappings puts the window where the configuration space says.
LEMMA UpdateMaps ==
  ASSUME NEW b, NEW c, Mapped(b, region, vgaAddr), VgaConfig(c), UpdateMappings("vga", c)
  PROVE  region' \in BOOLEAN /\ Mapped(c, region', vgaAddr')
<1>1. c \in Configs /\ Dword(c, Bar0) % BarSize = 0
  BY DEF VgaConfig
<1>2. Dword(c, Bar0) \in Nat
  BY <1>1, PciNumbers DEF Configs, Dword
<1>3. CASE c[PciCommand] = 1
  <2>1. region' = TRUE /\ vgaAddr' = Aligned(Dword(c, Bar0), BarSize)
    BY <1>3 DEF UpdateMappings
  <2> QED
    BY <1>1, <1>2, <1>3, <2>1, AlignedStays DEF Mapped
<1>4. CASE c[PciCommand] # 1
  <2>1. region' = FALSE /\ vgaAddr' = IF region THEN Nowhere ELSE vgaAddr
    BY <1>4 DEF UpdateMappings
  <2>2. vgaAddr' = Nowhere
    BY <2>1 DEF Mapped
  <2> QED
    BY <1>4, <2>1, <2>2 DEF Mapped
<1> QED
  BY <1>3, <1>4

\* pci_device_config_write.
LEMMA ConfigWriteStep ==
  ASSUME PciInv, NEW d \in PciDevices, NEW a \in Int, NEW v \in 0 .. 15, NEW size \in {1, 2, 4},
         ConfigWrite(d, a, v, size)
  PROVE  /\ config' \in [PciDevices -> Configs] /\ VgaConfig(config["vga"])'
         /\ region' \in BOOLEAN /\ Mapped(config["vga"], region, vgaAddr)'
<1> DEFINE o == config["vga"]
<1>1. /\ config \in [PciDevices -> Configs] /\ VgaConfig(o) /\ o \in Configs
      /\ Mapped(o, region, vgaAddr) /\ "vga" \in PciDevices /\ region \in BOOLEAN /\ v \in Nat
  BY PciAssumption DEF PciInv, VgaConfig
<1>2. CASE size = 4 /\ a = Bar0 /\ d = "vga"
  <2> DEFINE w == Aligned(v, BarSize)
             c == [x \in PciRegs |-> IF x \in a .. a + 3 THEN Bit(w, x - a) ELSE config[d][x]]
  <2>1. config' = [config EXCEPT ![d] = c] /\ UpdateMappings(d, c)
    BY <1>2 DEF ConfigWrite, WriteBar
  <2>2. w \in 0 .. 15 /\ w % BarSize = 0
    BY AlignedBar
  <2> HIDE DEF w
  <2>3. \A x \in PciRegs : x \in a .. a + 3 => Bit(w, x - a) \in {0, 1}
    <3> SUFFICES ASSUME NEW x \in PciRegs, x \in a .. a + 3 PROVE Bit(w, x - a) \in {0, 1}
      OBVIOUS
    <3>1. x - a \in 0 .. 3 /\ w \in Nat
      BY <2>2 DEF PciRegs
    <3> QED
      BY <3>1, BitType
  <2>4. c \in Configs
    BY <1>1, <1>2, <2>3 DEF Configs
  <2>5. /\ c[8] = Bit(w, 0) /\ c[9] = Bit(w, 1) /\ c[10] = Bit(w, 2) /\ c[11] = Bit(w, 3)
        /\ c[13] = o[13] /\ \A x \in 0 .. 3 : c[x] = o[x]
    BY <1>2, PciNumbers
  <2> HIDE DEF c
  <2>6. Dword(c, Bar0) = w
    <3>1. Dword(c, Bar0) = Bit(w, 0) + 2 * Bit(w, 1) + 4 * Bit(w, 2) + 8 * Bit(w, 3)
      BY <2>5, PciNumbers DEF Dword
    <3> QED
      BY <2>2, <3>1, BitsSum
  <2>7. VgaConfig(c)
    BY <1>1, <2>2, <2>4, <2>5, <2>6, PciNumbers DEF VgaConfig
  <2>8. region' \in BOOLEAN /\ Mapped(c, region', vgaAddr')
    BY <1>1, <1>2, <2>1, <2>7, UpdateMaps
  <2>9. config'["vga"] = c /\ config' \in [PciDevices -> Configs]
    BY <1>1, <1>2, <2>1, <2>4
  <2> QED
    BY <2>7, <2>8, <2>9
<1>3. CASE ~(size = 4 /\ a = Bar0 /\ d = "vga")
  <2> DEFINE c == WriteBytes(config[d], a, v, size)
  <2>1. /\ config' = [config EXCEPT ![d] = c]
        /\ IF PciCommand \in a .. a + size - 1 THEN UpdateMappings(d, c)
           ELSE UNCHANGED <<region, vgaAddr>>
    BY <1>3 DEF ConfigWrite
  <2>2. /\ c \in Configs
        /\ \A x \in PciRegs : x \in ReadOnly \/ x \notin a .. a + size - 1 => c[x] = config[d][x]
    BY <1>1, WriteBytesKeeps
  <2> HIDE DEF c
  <2>3. config' \in [PciDevices -> Configs] /\ config'["vga"] = IF d = "vga" THEN c ELSE o
    BY <1>1, <2>1, <2>2
  <2>4. CASE d # "vga"
    <3>1. UNCHANGED <<region, vgaAddr>>
      BY <2>1, <2>4 DEF UpdateMappings
    <3> QED
      BY <1>1, <2>3, <2>4, <3>1
  <2>5. CASE d = "vga"
    <3>1. /\ c[8] = o[8] /\ c[9] = o[9] /\ c[10] = o[10] /\ c[11] = o[11] /\ c[13] = o[13]
          /\ \A x \in 0 .. 3 : c[x] = o[x]
      BY <2>2, <2>5, PciNumbers
    <3>2. Dword(c, Bar0) = Dword(o, Bar0)
      BY <3>1, PciNumbers DEF Dword
    <3>3. VgaConfig(c)
      BY <1>1, <2>2, <3>1, <3>2, PciNumbers DEF VgaConfig
    <3>4. region' \in BOOLEAN /\ Mapped(c, region', vgaAddr')
      <4>1. CASE PciCommand \in a .. a + size - 1
        BY <1>1, <2>1, <2>5, <3>3, <4>1, UpdateMaps
      <4>2. CASE PciCommand \notin a .. a + size - 1
        <5>1. c[PciCommand] = o[PciCommand]
          BY <2>2, <2>5, <4>2, PciNumbers
        <5>2. region' = region /\ vgaAddr' = vgaAddr
          BY <2>1, <4>2
        <5> QED
          BY <1>1, <3>2, <5>1, <5>2 DEF Mapped
      <4> QED
        BY <4>1, <4>2
    <3> QED
      BY <2>3, <2>5, <3>3, <3>4
  <2> QED
    BY <2>4, <2>5
<1> QED
  BY <1>2, <1>3

\* The invariant of the bus.
LEMMA PciInvariant == PciSpec => []PciInv
<1>1. PciInit => PciInv
  <2> SUFFICES ASSUME PciInit PROVE PciInv
    OBVIOUS
  <2> DEFINE new == [a \in PciRegs |-> IF a < 4 \/ a = 6 THEN 1 ELSE 0]
  <2>1. new \in Configs
    BY DEF Configs
  <2>2. /\ new[8] = 0 /\ new[9] = 0 /\ new[10] = 0 /\ new[11] = 0 /\ new[13] = 0 /\ new[4] = 0
        /\ \A a \in 0 .. 3 : new[a] = 1
    BY PciNumbers
  <2>3. config = [d \in PciDevices |-> new] /\ region = FALSE /\ vgaAddr = Nowhere /\ configReg.reg = 0
    BY DEF PciInit
  <2> HIDE DEF new
  <2>4. config["vga"] = new
    BY <2>3, PciAssumption
  <2>5. Dword(new, Bar0) = 0 /\ 0 % BarSize = 0
    BY <2>2, PciNumbers, PciAssumption DEF Dword
  <2>6. VgaConfig(new)
    BY <2>1, <2>2, <2>5, PciNumbers DEF VgaConfig
  <2>7. region \in BOOLEAN /\ Mapped(new, region, vgaAddr)
    <3>1. new[PciCommand] # 1
      BY <2>2, PciNumbers
    <3>2. ~region /\ region \in BOOLEAN
      BY <2>3
    <3> QED
      BY <2>3, <3>1, <3>2 DEF Mapped
  <2>8. configReg.reg \in PciRegs /\ config \in [PciDevices -> Configs]
    BY <2>1, <2>3, PciNumbers
  <2> QED
    BY <2>4, <2>6, <2>7, <2>8 DEF PciInv
<1>2. PciInv /\ [PciNext]_pciVars => PciInv'
  <2> SUFFICES ASSUME PciInv, [PciNext]_pciVars PROVE PciInv'
    OBVIOUS
  <2>1. CASE UNCHANGED pciVars
    BY <2>1 DEF pciVars, PciInv
  <2>2. ASSUME NEW r, WriteAddr(r), r.reg \in PciRegs PROVE PciInv'
    BY <2>2 DEF WriteAddr, PciInv
  <2>3. ASSUME NEW d \in PciDevices \cup {"none"}, NEW reg \in {PciCommand, Bar0, Bar0 + 1, 3},
               WriteAddr([on |-> TRUE, dev |-> d, reg |-> reg])
        PROVE  PciInv'
    BY <2>2, <2>3, PciNumbers
  <2>4. CASE WriteAddr([configReg EXCEPT !.on = FALSE])
    <3>1. [configReg EXCEPT !.on = FALSE].reg = configReg.reg
      OBVIOUS
    <3> QED
      BY <2>2, <2>4, <3>1 DEF PciInv
  <2>5. ASSUME NEW size \in {1, 2, 4}, NEW off \in 0 .. 3, NEW v \in {0, 1, 9, 15}, WriteData(off, v, size)
        PROVE  PciInv'
    <3> DEFINE a == IF size = 4 THEN Aligned(configReg.reg, 4) ELSE Or4(configReg.reg, off)
    <3>1. a \in Int
      <4>1. configReg.reg \in Nat
        BY DEF PciInv, PciRegs
      <4>2. Bit(configReg.reg, 0) \in {0, 1} /\ Bit(configReg.reg, 1) \in {0, 1}
        BY <4>1, BitType
      <4> QED
        BY <4>1, <4>2 DEF Aligned, Or4
    <3>2. /\ IF configReg.on /\ configReg.dev \in PciDevices THEN ConfigWrite(configReg.dev, a, v, size)
             ELSE UNCHANGED <<config, region, vgaAddr>>
          /\ configReg' = configReg
      BY <2>5 DEF WriteData
    <3> HIDE DEF a
    <3>3. CASE configReg.on /\ configReg.dev \in PciDevices
      <4>1. v \in 0 .. 15
        BY <2>5
      <4>2. /\ config' \in [PciDevices -> Configs] /\ VgaConfig(config["vga"])'
            /\ region' \in BOOLEAN /\ Mapped(config["vga"], region, vgaAddr)'
        BY <2>5, <3>1, <3>2, <3>3, <4>1, ConfigWriteStep
      <4> QED
        BY <3>2, <4>2 DEF PciInv
    <3>4. CASE ~(configReg.on /\ configReg.dev \in PciDevices)
      BY <3>2, <3>4 DEF PciInv
    <3> QED
      BY <3>3, <3>4
  <2> QED
    BY <2>1, <2>3, <2>4, <2>5 DEF PciNext
<1> QED
  BY <1>1, <1>2, PTL DEF PciSpec

\* The video memory is where the guest's last words to the configuration space say, for every
\* size of the window and of the memory and every place of the fixed alias.
THEOREM WindowFollowsBar == PciSpec => []BarAgrees
BY PciInvariant, WindowsAgree, PTL

-----------------------------------------------------------------------------
(***************************************************************************)
(* The clock and the floppy link.                                          *)
(***************************************************************************)
Clocks == [reg_a : Nat, pie : BOOLEAN, period : Nat, timeout : Nat, now : Nat, lap : BOOLEAN]

\* While the periodic interrupt is on, the period is the one register A shows.
ClockInv ==
  /\ rtc \in Clocks
  /\ rtc.pie /\ rtc.reg_a # 0 => rtc.period = rtc.reg_a
  /\ RtcPrompt

\* The next multiple of the period after now is at most a period away.
LEMMA NextTimeoutSoon ==
  ASSUME NEW now \in Nat, NEW period \in Nat
  PROVE  /\ NextTimeout(now, period) \in Nat
         /\ period # 0 => now < NextTimeout(now, period) /\ NextTimeout(now, period) <= now + period
<1>1. CASE period = 0
  BY <1>1 DEF NextTimeout
<1>2. CASE period # 0
  <2> DEFINE q == (now + period) \div period
             r == (now + period) % period
  <2>1. q \in Nat /\ r \in Nat /\ r < period /\ now + period = period * q + r
    BY <1>2
  <2>2. NextTimeout(now, period) = q * period
    BY <1>2 DEF NextTimeout
  <2> HIDE DEF q, r
  <2>3. q * period = period * q /\ period * q \in Nat
    BY <2>1
  <2> QED
    BY <2>1, <2>2, <2>3
<1> QED
  BY <1>1, <1>2

\* Steps of the clock.
LEMMA ClockStep == ASSUME ClockInv, ClockNext PROVE ClockInv'
<1>1. /\ rtc \in Clocks /\ rtc.now \in Nat /\ rtc.timeout \in Nat /\ rtc.period \in Nat /\ rtc.reg_a \in Nat
      /\ rtc.pie \in BOOLEAN /\ rtc.lap \in BOOLEAN
      /\ rtc.pie /\ rtc.reg_a # 0 => rtc.period = rtc.reg_a
      /\ rtc.pie /\ rtc.reg_a # 0 /\ ~rtc.lap =>
           rtc.now < rtc.timeout /\ rtc.timeout <= rtc.now + rtc.reg_a
  BY DEF ClockInv, Clocks, RtcPrompt
<1>2. CASE CmosWrite
  <2>1. PICK a \in RtcPeriods, pie \in BOOLEAN :
          rtc' = IF pie /\ a # 0
                 THEN [rtc EXCEPT !.reg_a = a, !.pie = pie, !.period = a, !.lap = FALSE,
                                  !.timeout = NextTimeout(rtc.now, a)]
                 ELSE [rtc EXCEPT !.reg_a = a, !.pie = pie]
    BY <1>2 DEF CmosWrite
  <2>2. a \in Nat
    BY <2>1, MiscAssumption
  <2>3. CASE pie /\ a # 0
    <3>1. NextTimeout(rtc.now, a) \in Nat /\ rtc.now < NextTimeout(rtc.now, a) /\ NextTimeout(rtc.now, a) <= rtc.now + a
      BY <1>1, <2>2, <2>3, NextTimeoutSoon
    <3> DEFINE t == NextTimeout(rtc.now, a)
    <3>2. rtc' = [rtc EXCEPT !.reg_a = a, !.pie = pie, !.period = a, !.lap = FALSE, !.timeout = t]
      BY <2>1, <2>3
    <3> HIDE DEF t
    <3>3. /\ rtc' \in Clocks /\ rtc'.reg_a = a /\ rtc'.period = a /\ rtc'.timeout = t /\ rtc'.now = rtc.now
      BY <1>1, <2>1, <2>2, <3>1, <3>2 DEF Clocks, t
    <3> QED
      BY <3>1, <3>3 DEF ClockInv, RtcPrompt, t
  <2>4. CASE ~(pie /\ a # 0)
    <3>1. rtc' = [rtc EXCEPT !.reg_a = a, !.pie = pie]
      BY <2>1, <2>4
    <3>2. rtc' \in Clocks /\ rtc'.reg_a = a /\ rtc'.pie = pie
      BY <1>1, <2>1, <2>2, <3>1 DEF Clocks
    <3> QED
      BY <2>4, <3>2 DEF ClockInv, RtcPrompt
  <2> QED
    BY <2>3, <2>4
<1>3. CASE CmosUpdateIrq
  <2>1. PICK gap \in 0 .. RtcGap :
          LET now   == (rtc.now + gap) % RtcWrap
              lap   == rtc.lap \/ rtc.now + gap >= RtcWrap
              fires == rtc.pie /\ now >= rtc.timeout
          IN  rtc' = [rtc EXCEPT !.now = now, !.lap = lap,
                                 !.timeout = IF fires THEN NextTimeout(now, rtc.period) ELSE @]
    BY <1>3 DEF CmosUpdateIrq
  <2> DEFINE now   == (rtc.now + gap) % RtcWrap
             lap   == rtc.lap \/ rtc.now + gap >= RtcWrap
             fires == rtc.pie /\ now >= rtc.timeout
             t     == IF fires THEN NextTimeout(now, rtc.period) ELSE rtc.timeout
  <2>2. rtc' = [rtc EXCEPT !.now = now, !.lap = lap, !.timeout = t]
    BY <2>1
  <2>3. gap \in Nat /\ RtcWrap \in Nat \ {0}
    BY <2>1, MiscAssumption
  <2>4. now \in Nat /\ lap \in BOOLEAN /\ (~lap => ~rtc.lap /\ now = rtc.now + gap)
    BY <1>1, <2>3
  <2> HIDE DEF now
  <2>5. /\ NextTimeout(now, rtc.period) \in Nat
        /\ rtc.period # 0 => /\ now < NextTimeout(now, rtc.period)
                             /\ NextTimeout(now, rtc.period) <= now + rtc.period
    BY <1>1, <2>4, NextTimeoutSoon
  <2>6. t \in Nat
    BY <1>1, <2>5
  <2>7. rtc.pie /\ rtc.reg_a # 0 /\ ~lap => now < t /\ t <= now + rtc.reg_a
    <3> SUFFICES ASSUME rtc.pie, rtc.reg_a # 0, ~lap PROVE now < t /\ t <= now + rtc.reg_a
      OBVIOUS
    <3>1. rtc.period = rtc.reg_a /\ rtc.now < rtc.timeout /\ rtc.timeout <= rtc.now + rtc.reg_a /\ now = rtc.now + gap
      BY <1>1, <2>4
    <3>2. CASE fires
      BY <2>5, <3>1, <3>2
    <3>3. CASE ~fires
      <4>1. t = rtc.timeout /\ now < rtc.timeout
        BY <1>1, <2>4, <3>3
      <4> QED
        BY <1>1, <2>3, <3>1, <4>1
    <3> QED
      BY <3>2, <3>3
  <2> HIDE DEF lap, fires, t
  <2>8. /\ rtc' \in Clocks /\ rtc'.now = now /\ rtc'.lap = lap /\ rtc'.timeout = t
        /\ rtc'.pie = rtc.pie /\ rtc'.reg_a = rtc.reg_a /\ rtc'.period = rtc.period
    BY <1>1, <2>2, <2>4, <2>6 DEF Clocks
  <2>9. RtcPrompt'
    BY <2>7, <2>8 DEF RtcPrompt
  <2> QED
    BY <1>1, <2>8, <2>9 DEF ClockInv
<1> QED
  BY <1>2, <1>3 DEF ClockNext

FloppyDrives == [open : BOOLEAN, size : Nat, pos : Nat]
Links == [cmd : {"none", "read", "write"}, argi : 0 .. 4, drive : Drives, lba : Int, count : Nat,
          left : Nat, status : {0, -1}, swapped : BOOLEAN]

\* A transfer under way stands where its sectors counted from the first say.
Standing(e, fs) ==
  e.cmd # "none" /\ e.argi = 3 /\ ~e.swapped =>
    e.left <= e.count /\ fs[e.drive].pos = e.lba + (e.count - e.left)

FloppyInv ==
  /\ floppy \in [Drives -> FloppyDrives] /\ link \in Links
  /\ Standing(link, floppy)

\* It is the property.
LEMMA FloppyInvSuffices == FloppyInv => FloppyInPlace
BY DEF FloppyInv, FloppyInPlace, Standing, Links

\* exec_cmd of a transfer.
LEMMA SeekStep ==
  ASSUME FloppyInv, NEW e \in Links, e.argi = 3, Seek(e)
  PROVE  FloppyInv'
<1>1. floppy \in [Drives -> FloppyDrives] /\ e.drive \in Drives /\ floppy[e.drive] \in FloppyDrives
  BY DEF FloppyInv, Links
<1>2. CASE ~floppy[e.drive].open \/ e.lba < 0
  <2>1. link' = [e EXCEPT !.status = -1, !.cmd = "none"] /\ floppy' = floppy
    BY <1>2 DEF Seek
  <2>2. link' \in Links /\ link'.cmd = "none"
    BY <2>1 DEF Links
  <2> QED
    BY <1>1, <2>1, <2>2 DEF FloppyInv, Standing
<1>3. CASE ~(~floppy[e.drive].open \/ e.lba < 0)
  <2>1. /\ link' = [e EXCEPT !.status = 0, !.left = e.count, !.swapped = FALSE]
        /\ floppy' = [floppy EXCEPT ![e.drive].pos = e.lba]
    BY <1>3 DEF Seek
  <2>2. e.lba \in Nat /\ e.count \in Nat /\ e.lba \in Int
    BY <1>3 DEF Links
  <2>3. /\ link' \in Links /\ link'.left = e.count /\ link'.count = e.count /\ link'.lba = e.lba
        /\ link'.drive = e.drive
    BY <2>1, <2>2 DEF Links
  <2> DEFINE g == [floppy[e.drive] EXCEPT !.pos = e.lba]
  <2>4. g \in FloppyDrives /\ g.pos = e.lba
    BY <1>1, <2>2 DEF FloppyDrives
  <2>5. floppy' = [floppy EXCEPT ![e.drive] = g]
    BY <2>1
  <2> HIDE DEF g
  <2>6. floppy' \in [Drives -> FloppyDrives] /\ floppy'[e.drive].pos = e.lba
    BY <1>1, <2>4, <2>5
  <2>7. Standing(link', floppy')
    BY <2>2, <2>3, <2>6 DEF Standing
  <2> QED
    BY <2>3, <2>6, <2>7 DEF FloppyInv, Standing
<1> QED
  BY <1>2, <1>3

\* Commands, arguments and changes of image.
LEMMA LinkStep ==
  ASSUME FloppyInv, AttachFloppy \/ LinkCommand \/ LinkAtOnce \/ LinkArgument
  PROVE  FloppyInv'
<1>1. /\ floppy \in [Drives -> FloppyDrives] /\ link \in Links /\ Standing(link, floppy)
      /\ link.drive \in Drives
  BY DEF FloppyInv, Links
<1>2. CASE AttachFloppy
  <2>1. PICK i \in Drives, f \in {[open |-> FALSE, size |-> 0, pos |-> 0],
                                  [open |-> TRUE, size |-> 1, pos |-> 1]} :
          /\ floppy' = [floppy EXCEPT ![i] = f]
          /\ link' = [link EXCEPT !.swapped = @ \/ i = link.drive]
    BY <1>2 DEF AttachFloppy
  <2>a. [open |-> FALSE, size |-> 0, pos |-> 0] \in FloppyDrives
    BY DEF FloppyDrives
  <2>b. [open |-> TRUE, size |-> 1, pos |-> 1] \in FloppyDrives
    BY DEF FloppyDrives
  <2>2. f \in FloppyDrives
    BY <2>a, <2>b, Zenon
  <2> DEFINE w == link.swapped \/ i = link.drive
  <2>3. link' = [link EXCEPT !.swapped = w] /\ w \in BOOLEAN
    BY <2>1
  <2>4. ~w => ~link.swapped /\ i # link.drive
    OBVIOUS
  <2> HIDE DEF w
  <2>5. /\ link' \in Links /\ link'.swapped = w /\ link'.cmd = link.cmd /\ link'.argi = link.argi
        /\ link'.left = link.left /\ link'.count = link.count /\ link'.lba = link.lba
        /\ link'.drive = link.drive
    BY <1>1, <2>3 DEF Links
  <2>6. floppy' \in [Drives -> FloppyDrives] /\ (~w => floppy'[link.drive] = floppy[link.drive])
    BY <1>1, <2>1, <2>2, <2>4
  <2>7. Standing(link', floppy')
    BY <1>1, <2>4, <2>5, <2>6 DEF Standing
  <2> QED
    BY <2>5, <2>6, <2>7 DEF FloppyInv, Standing
<1>3. CASE LinkCommand
  <2>1. PICK cmd \in {"read", "write"} : link' = [link EXCEPT !.cmd = cmd, !.argi = 0] /\ floppy' = floppy
    BY <1>3 DEF LinkCommand
  <2> DEFINE t == [link EXCEPT !.cmd = cmd]
  <2>a. t \in Links
    BY <1>1 DEF Links
  <2>b. link' = [t EXCEPT !.argi = 0] /\ 0 \in 0 .. 4
    BY <2>1
  <2> HIDE DEF t
  <2>2. link' \in Links /\ link'.argi = 0
    BY <2>a, <2>b DEF Links
  <2> QED
    BY <1>1, <2>1, <2>2 DEF FloppyInv, Standing
<1>4. CASE LinkAtOnce
  <2>1. link' = [link EXCEPT !.cmd = "none", !.argi = 0, !.status = 0] /\ floppy' = floppy
    BY <1>4 DEF LinkAtOnce
  <2> DEFINE t == [link EXCEPT !.cmd = "none"]
  <2> DEFINE u == [t EXCEPT !.argi = 0]
  <2>a. t \in Links
    BY <1>1 DEF Links
  <2>b. link' = [u EXCEPT !.status = 0] /\ 0 \in 0 .. 4
    BY <2>1
  <2> HIDE DEF t
  <2>c. u \in Links /\ u.argi = 0
    BY <2>a DEF Links
  <2> HIDE DEF u
  <2>2. link' \in Links /\ link'.argi = 0
    BY <2>b, <2>c DEF Links
  <2> QED
    BY <1>1, <2>1, <2>2 DEF FloppyInv, Standing
<1>5. CASE LinkArgument
  <2> DEFINE e == [link EXCEPT !.argi = @ + 1]
  <2>1. link.argi < 4 /\ link.argi \in 0 .. 4
    BY <1>1, <1>5 DEF LinkArgument, Links
  <2>2. e \in Links /\ e.argi = link.argi + 1 /\ e.cmd = link.cmd
    BY <1>1, <2>1 DEF Links
  <2>3. \/ link.argi = 0 /\ (\E i \in Drives : link' = [e EXCEPT !.drive = i]) /\ floppy' = floppy
        \/ link.argi = 1 /\ (\E lba \in -1 .. FdSectors - 1 : link' = [e EXCEPT !.lba = lba]) /\ floppy' = floppy
        \/ /\ link.argi = 2
           /\ \E n \in FdCounts :
                IF link.cmd = "none" THEN link' = [e EXCEPT !.count = n] /\ floppy' = floppy
                                     ELSE Seek([e EXCEPT !.count = n])
        \/ link.argi = 3 /\ link' = e /\ floppy' = floppy
    BY <1>5 DEF LinkArgument
  <2> HIDE DEF e
  <2>4. ASSUME link' \in Links, link'.argi # 3 \/ link'.cmd = "none", floppy' = floppy
        PROVE  FloppyInv'
    BY <1>1, <2>4 DEF FloppyInv, Standing
  <2>5. CASE link.argi = 0 /\ (\E i \in Drives : link' = [e EXCEPT !.drive = i]) /\ floppy' = floppy
    <3>1. link' \in Links /\ link'.argi = e.argi
      BY <2>2, <2>5 DEF Links
    <3> QED
      BY <2>2, <2>4, <2>5, <3>1
  <2>6. CASE link.argi = 1 /\ (\E lba \in -1 .. FdSectors - 1 : link' = [e EXCEPT !.lba = lba]) /\ floppy' = floppy
    <3>1. PICK lba \in -1 .. FdSectors - 1 : link' = [e EXCEPT !.lba = lba]
      BY <2>6
    <3>2. lba \in Int
      BY <3>1
    <3>3. link' \in Links /\ link'.argi = e.argi
      BY <2>2, <3>1, <3>2 DEF Links
    <3> QED
      BY <2>2, <2>4, <2>6, <3>3
  <2>7. CASE /\ link.argi = 2
             /\ \E n \in FdCounts :
                  IF link.cmd = "none" THEN link' = [e EXCEPT !.count = n] /\ floppy' = floppy
                                       ELSE Seek([e EXCEPT !.count = n])
    <3>1. PICK n \in FdCounts : IF link.cmd = "none" THEN link' = [e EXCEPT !.count = n] /\ floppy' = floppy
                                ELSE Seek([e EXCEPT !.count = n])
      BY <2>7
    <3> DEFINE d == [e EXCEPT !.count = n]
    <3>2. n \in Nat
      BY <3>1, MiscAssumption
    <3>3. d \in Links /\ d.argi = 3 /\ d.cmd = link.cmd
      BY <2>2, <2>7, <3>2 DEF Links
    <3>4. CASE link.cmd = "none"
      <4>1. link' = d /\ floppy' = floppy
        BY <3>1, <3>4
      <4> HIDE DEF d
      <4> QED
        BY <2>4, <3>3, <3>4, <4>1
    <3>5. CASE link.cmd # "none"
      <4>1. Seek(d)
        BY <3>1, <3>5
      <4> HIDE DEF d
      <4> QED
        BY <3>3, <4>1, SeekStep
    <3> QED
      BY <3>4, <3>5
  <2>8. CASE link.argi = 3 /\ link' = e /\ floppy' = floppy
    BY <2>2, <2>4, <2>8
  <2> QED
    BY <2>3, <2>5, <2>6, <2>7, <2>8
<1> QED
  BY <1>2, <1>3, <1>4, <1>5

\* What a string moved or refused leaves of the link.
LEMMA MovedLink ==
  ASSUME NEW e \in Links, NEW n \in Nat
  PROVE  /\ Refuse(e) \in Links /\ Refuse(e).cmd = "none"
         /\ n <= e.left => /\ Moved(e, n) \in Links /\ Moved(e, n).left = e.left - n
                           /\ Moved(e, n).cmd \in {e.cmd, "none"}
                           /\ Moved(e, n).argi = e.argi /\ Moved(e, n).drive = e.drive
                           /\ Moved(e, n).lba = e.lba /\ Moved(e, n).count = e.count
                           /\ Moved(e, n).swapped = e.swapped
<1>1. Refuse(e) \in Links /\ Refuse(e).cmd = "none"
  BY DEF Refuse, Links
<1>2. ASSUME n <= e.left
      PROVE  /\ Moved(e, n) \in Links /\ Moved(e, n).left = e.left - n
             /\ Moved(e, n).cmd \in {e.cmd, "none"}
             /\ Moved(e, n).argi = e.argi /\ Moved(e, n).drive = e.drive
             /\ Moved(e, n).lba = e.lba /\ Moved(e, n).count = e.count
             /\ Moved(e, n).swapped = e.swapped
  <2> DEFINE c == IF e.left = n THEN "none" ELSE e.cmd
             l == e.left - n
  <2>1. l \in Nat /\ c \in {"none", "read", "write"} /\ c \in {e.cmd, "none"}
    BY <1>2 DEF Links
  <2>2. Moved(e, n) = [e EXCEPT !.left = l, !.cmd = c]
    BY DEF Moved
  <2> HIDE DEF c, l
  <2>3. /\ Moved(e, n) \in Links /\ Moved(e, n).left = l /\ Moved(e, n).cmd = c
        /\ Moved(e, n).argi = e.argi /\ Moved(e, n).drive = e.drive
        /\ Moved(e, n).lba = e.lba /\ Moved(e, n).count = e.count
        /\ Moved(e, n).swapped = e.swapped
    BY <2>1, <2>2 DEF Links
  <2> QED
    BY <2>1, <2>3 DEF l
<1> QED
  BY <1>1, <1>2

\* Strings read and written.
LEMMA StringStep ==
  ASSUME FloppyInv, NEW n \in FdCounts, ReadString(n) \/ WriteString(n)
  PROVE  FloppyInv'
<1> DEFINE f == floppy[link.drive]
           e == Moved(link, n)
<1>1. /\ floppy \in [Drives -> FloppyDrives] /\ link \in Links /\ Standing(link, floppy)
      /\ link.drive \in Drives /\ n \in Nat /\ link.left \in Nat /\ link.count \in Nat /\ link.lba \in Int
  BY MiscAssumption DEF FloppyInv, Links
<1>2. f \in FloppyDrives /\ f.pos \in Nat /\ f.size \in Nat
  BY <1>1 DEF FloppyDrives
<1> HIDE DEF f
<1>3. Refuse(link) \in Links /\ Refuse(link).cmd = "none"
  BY <1>1, MovedLink
<1>4. n <= link.left => /\ e \in Links /\ e.left = link.left - n /\ e.cmd \in {link.cmd, "none"}
                        /\ e.argi = link.argi /\ e.drive = link.drive /\ e.lba = link.lba
                        /\ e.count = link.count /\ e.swapped = link.swapped
  BY <1>1, MovedLink
<1> HIDE DEF e
\* The image afterwards, and the link moved with it or not.
<1>5. ASSUME NEW g \in FloppyDrives, floppy' = [floppy EXCEPT ![link.drive] = g],
             \/ link' = Refuse(link)
             \/ link' = e /\ n <= link.left /\ g.pos = f.pos + n
      PROVE  FloppyInv'
  <2>1. floppy' \in [Drives -> FloppyDrives] /\ floppy'[link.drive] = g
    BY <1>1, <1>5
  <2>2. CASE link' = Refuse(link)
    BY <1>3, <2>1, <2>2 DEF FloppyInv, Standing
  <2>3. CASE link' = e /\ n <= link.left /\ g.pos = f.pos + n
    <3>1. Standing(link', floppy')
      <4> SUFFICES ASSUME e.cmd # "none", e.argi = 3, ~e.swapped
                   PROVE  e.left <= e.count /\ floppy'[e.drive].pos = e.lba + (e.count - e.left)
        BY <2>3 DEF Standing
      <4>1. link.left <= link.count /\ f.pos = link.lba + (link.count - link.left)
        BY <1>1, <1>4, <2>3 DEF Standing, f
      <4>2. floppy'[e.drive].pos = f.pos + n
        BY <1>4, <2>1, <2>3
      <4> QED
        BY <1>1, <1>2, <1>4, <2>3, <4>1, <4>2
    <3> QED
      BY <1>4, <2>1, <2>3, <3>1 DEF FloppyInv, Standing
  <2> QED
    BY <1>5, <2>2, <2>3
<1>6. floppy = [floppy EXCEPT ![link.drive] = f]
  BY <1>1 DEF f
<1>7. CASE ReadString(n)
  <2> DEFINE ok == link.cmd = "read" /\ f.open /\ link.argi = 3 /\ n <= link.left
             p == IF f.pos + n < f.size THEN f.pos + n ELSE f.size
             g == [f EXCEPT !.pos = p]
  <2>1. /\ link' = IF ok /\ f.pos + n <= f.size THEN e ELSE Refuse(link)
        /\ floppy' = IF ok /\ f.pos < f.size THEN [floppy EXCEPT ![link.drive] = g] ELSE floppy
    BY <1>7 DEF ReadString, f, e
  <2>2. p \in Nat /\ (f.pos + n <= f.size => p = f.pos + n)
    BY <1>1, <1>2
  <2>3. g \in FloppyDrives /\ g.pos = p
    <3> HIDE DEF p
    <3> QED
      BY <1>2, <2>2 DEF FloppyDrives
  <2> HIDE DEF g, p
  <2>4. CASE ok /\ f.pos < f.size
    BY <1>5, <2>1, <2>2, <2>3, <2>4
  <2>5. CASE ~(ok /\ f.pos < f.size)
    <3>1. ok /\ f.pos + n <= f.size => f.pos = f.pos + n
      BY <1>1, <1>2, <2>5
    <3>2. floppy' = [floppy EXCEPT ![link.drive] = f]
      BY <1>6, <2>1, <2>5
    <3> QED
      BY <1>2, <1>5, <2>1, <3>1, <3>2
  <2> QED
    BY <2>4, <2>5
<1>8. CASE WriteString(n)
  <2> DEFINE ok == link.cmd = "write" /\ f.open /\ link.argi = 3 /\ n <= link.left
             z == IF f.pos + n > f.size THEN f.pos + n ELSE f.size
             g == [f EXCEPT !.pos = f.pos + n, !.size = z]
  <2>1. /\ link' = IF ok THEN e ELSE Refuse(link)
        /\ floppy' = IF ok THEN [floppy EXCEPT ![link.drive].pos = @ + n,
                                               ![link.drive].size = IF f.pos + n > @ THEN f.pos + n ELSE @]
                           ELSE floppy
    BY <1>8 DEF WriteString, f, e
  <2>2. z \in Nat /\ f.pos + n \in Nat
    BY <1>1, <1>2
  <2>3. g \in FloppyDrives /\ g.pos = f.pos + n
    <3> HIDE DEF z
    <3> QED
      BY <1>2, <2>2 DEF FloppyDrives
  <2>4. CASE ok
    <3>1. floppy' = [floppy EXCEPT ![link.drive] = g]
      BY <1>1, <1>2, <2>1, <2>4 DEF f, FloppyDrives
    <3> HIDE DEF g
    <3> QED
      BY <1>5, <2>1, <2>3, <2>4, <3>1
  <2>5. CASE ~ok
    BY <1>2, <1>5, <1>6, <2>1, <2>5
  <2> QED
    BY <2>4, <2>5
<1> QED
  BY <1>7, <1>8

\* The invariant of the small devices.
LEMMA MiscInvariant == MiscSpec => [](ClockInv /\ FloppyInv)
<1>1. MiscInit => ClockInv /\ FloppyInv
  <2> SUFFICES ASSUME MiscInit PROVE ClockInv /\ FloppyInv
    OBVIOUS
  <2>1. rtc \in Clocks /\ ~rtc.pie
    BY DEF MiscInit, Clocks
  <2>2. link \in Links /\ link.cmd = "none"
    BY DEF MiscInit, Links, Drives
  <2>3. floppy \in [Drives -> FloppyDrives]
    BY DEF MiscInit, FloppyDrives
  <2> QED
    BY <2>1, <2>2, <2>3 DEF ClockInv, RtcPrompt, FloppyInv, Standing
<1>2. ClockInv /\ FloppyInv /\ [SerialNext \/ ClockNext \/ FloppyNext]_miscVars => (ClockInv /\ FloppyInv)'
  <2> SUFFICES ASSUME ClockInv, FloppyInv, [SerialNext \/ ClockNext \/ FloppyNext]_miscVars
               PROVE  ClockInv' /\ FloppyInv'
    OBVIOUS
  <2>1. UNCHANGED rtc => ClockInv'
    BY DEF ClockInv, RtcPrompt
  <2>2. UNCHANGED <<link, floppy>> => FloppyInv'
    BY DEF FloppyInv, Standing
  <2>3. CASE SerialNext \/ UNCHANGED miscVars
    <3>1. UNCHANGED <<rtc, link, floppy>>
      BY <2>3, Zenon DEF SerialNext, UartRead, UartWrite, HostType, UartUpdate, miscVars
    <3> QED
      BY <2>1, <2>2, <3>1
  <2>4. CASE ClockNext
    <3>1. UNCHANGED <<link, floppy>>
      BY <2>4, Zenon DEF ClockNext, CmosWrite, CmosUpdateIrq
    <3>2. FloppyInv'
      BY <2>2, <3>1, Zenon
    <3>3. ClockInv'
      BY <2>4, ClockStep, Zenon
    <3> QED
      BY <3>2, <3>3, Zenon
  <2>5. CASE FloppyNext
    <3>1. UNCHANGED rtc
      BY <2>5, Zenon DEF FloppyNext, AttachFloppy, LinkCommand, LinkAtOnce, LinkArgument, ReadString, WriteString
    <3>2. ClockInv'
      BY <2>1, <3>1, Zenon
    <3>3. FloppyInv'
      BY <2>5, LinkStep, StringStep, Zenon DEF FloppyNext
    <3> QED
      BY <3>2, <3>3, Zenon
  <2> QED
    BY <2>3, <2>4, <2>5
<1> QED
  BY <1>1, <1>2, PTL DEF MiscSpec

\* Until the clock wraps, the next periodic interrupt is at most a period away, for every rate,
\* every gap between the calls and every moment at which the rate is changed.
THEOREM PeriodicInterruptIsPrompt == MiscSpec => []RtcPrompt
<1>1. ClockInv => RtcPrompt
  BY DEF ClockInv
<1> QED
  BY <1>1, MiscInvariant, PTL

\* Every string of a floppy transfer continues where the last one ended, for images and
\* transfers of every size.
THEOREM FloppyStaysInPlace == MiscSpec => []FloppyInPlace
BY MiscInvariant, FloppyInvSuffices, PTL

-----------------------------------------------------------------------------
(***************************************************************************)
(* The network card.  Places in the ring are compared by how far they come *)
(* after the page the driver reads next: the unread frames follow one      *)
(* another from there to the current page, and the boundary, one page      *)
(* before it, is never passed.                                             *)
(***************************************************************************)
NicPage  == [id : Nat, part : Nat, next : Nat]
NicFrame == [id : Nat \ {0}, at : Ring0, pages : Nat \ {0}]
NicRegs  == [stop : BOOLEAN, boundary : Ring0, curpag : Ring0, rsar : Ring0, rcnt : Nat,
             isr : SUBSET {"rx", "tx", "rdc"}, imr : SUBSET {"rx", "tx", "rdc"},
             rxcr : SUBSET {"broadcast", "multicast", "promiscuous"}, line : BOOLEAN, stale : BOOLEAN]
NicDriver == [pc : {"idle", "header", "body", "release"}, next : Ring0, page : Nat, left : Nat,
              id : Nat \ {0}, torn : BOOLEAN, over : BOOLEAN]

\* The frames u lie one behind the other from page next on, up to page cur.
Lined(u, next, cur) ==
  /\ u \in Seq(NicFrame) /\ next \in Ring0 /\ cur \in Ring0
  /\ \A i \in 1 .. Len(u) : Offset(u[i].at, next) + u[i].pages <= Offset(cur, next)
  /\ \A i, j \in 1 .. Len(u) : i < j => Offset(u[i].at, next) + u[i].pages <= Offset(u[j].at, next)
  /\ \A i \in 1 .. Len(u) - 1 : Offset(u[i].at, next) + u[i].pages = Offset(u[i + 1].at, next)
  /\ u = << >> => cur = next
  /\ u # << >> => /\ u[1].at = next
                  /\ Offset(u[Len(u)].at, next) + u[Len(u)].pages = Offset(cur, next)

\* The page p holds its part of frame f.
Holds(f, p, page) ==
  page.id = f.id /\ page.part = Offset(p, f.at) /\ page.next = Wrapped(f.at + f.pages)

\* The memory holds the frames u.
Stored(u, mem) ==
  /\ mem \in [Ring0 -> NicPage]
  /\ \A i \in 1 .. Len(u) : \A p \in Ring0 :
       Offset(p, u[i].at) < u[i].pages => Holds(u[i], p, mem[p])

\* The driver is at its place in the first of the frames.
Reading(d, rsar, u) ==
  /\ d.pc # "idle" => u # << >>
  /\ d.pc = "header" => rsar = d.next
  /\ d.pc \in {"body", "release"} => d.page = Wrapped(u[1].at + u[1].pages)
  /\ d.pc = "body" => /\ d.left \in 1 .. u[1].pages - 1
                      /\ rsar = Wrapped(d.next + (u[1].pages - d.left))

\* The driver goes to a page of the ring next, and has read nothing of a frame but its own.
Placed(d) ==
  /\ d.pc \in {"body", "release"} => d.page \in Ring0
  /\ d.pc = "body" => d.left # 0
  /\ ~d.torn

\* The line is up for an enabled cause, until a reset.
LineTrue(n) == ~n.stale => n.line = (n.isr \cap n.imr # {})

NicInv ==
  /\ nic \in NicRegs /\ drv \in NicDriver /\ Placed(drv)
  /\ nic.boundary = Before(drv.next)
  /\ IF drv.over
     THEN nicmem = [p \in Ring0 |-> NicEmpty]
     ELSE /\ Lined(unread, drv.next, nic.curpag)
          /\ Stored(unread, nicmem)
          /\ Reading(drv, nic.rsar, unread)
  /\ LineTrue(nic)

\* How far a page comes after another is less than once round.
LEMMA OffsetType ==
  ASSUME NEW p \in Ring0, NEW a \in Ring0
  PROVE  Offset(p, a) \in 0 .. (NicStop - NicStart) - 1
BY NicAssumption DEF Offset, Ring0

\* Distances between two pages follow from their distances to a third.
LEMMA OffsetShift ==
  ASSUME NEW base \in Ring0, NEW p \in Ring0, NEW a \in Ring0
  PROVE  Offset(p, a) = IF Offset(p, base) >= Offset(a, base)
                        THEN Offset(p, base) - Offset(a, base)
                        ELSE Offset(p, base) - Offset(a, base) + (NicStop - NicStart)
BY NicAssumption DEF Offset, Ring0

\* Going on by n pages adds n to the distance, short of once round.
LEMMA OffsetWrap ==
  ASSUME NEW base \in Ring0, NEW a \in Ring0, NEW n \in Nat, Offset(a, base) + n < NicStop - NicStart
  PROVE  Wrapped(a + n) \in Ring0 /\ Offset(Wrapped(a + n), base) = Offset(a, base) + n
BY NicAssumption DEF Offset, Ring0, Wrapped

\* A page is known by its distance.
LEMMA OffsetSame ==
  ASSUME NEW base \in Ring0, NEW p \in Ring0, NEW a \in Ring0, Offset(p, base) = Offset(a, base)
  PROVE  p = a
BY NicAssumption DEF Offset, Ring0

\* A page starts at distance 0 of itself, and the one before comes last.
LEMMA OffsetEnds ==
  ASSUME NEW a \in Ring0
  PROVE  /\ Offset(a, a) = 0
         /\ Before(a) \in Ring0 /\ Offset(Before(a), a) = (NicStop - NicStart) - 1
BY NicAssumption DEF Offset, Ring0, Before

\* The pages of a frame that ends before the ring has come round are those between its ends.
LEMMA InFrame ==
  ASSUME NEW base \in Ring0, NEW p \in Ring0, NEW a \in Ring0, NEW n \in Nat,
         Offset(a, base) + n <= NicStop - NicStart
  PROVE  Offset(p, a) < n <=> /\ Offset(a, base) <= Offset(p, base)
                              /\ Offset(p, base) < Offset(a, base) + n
<1>1. /\ Offset(p, base) \in 0 .. (NicStop - NicStart) - 1
      /\ Offset(a, base) \in 0 .. (NicStop - NicStart) - 1
  BY OffsetType
<1>2. Offset(p, a) = IF Offset(p, base) >= Offset(a, base)
                     THEN Offset(p, base) - Offset(a, base)
                     ELSE Offset(p, base) - Offset(a, base) + (NicStop - NicStart)
  BY OffsetShift
<1> QED
  BY <1>1, <1>2, NicAssumption

\* A frame put behind the others.
LEMMA AppendLined ==
  ASSUME NEW u, NEW next, NEW cur, Lined(u, next, cur), NEW id \in Nat \ {0}, NEW n \in Nat \ {0},
         Offset(cur, next) + n < NicStop - NicStart
  PROVE  Lined(Append(u, [id |-> id, at |-> cur, pages |-> n]), next, Wrapped(cur + n))
<1> DEFINE f == [id |-> id, at |-> cur, pages |-> n]
           w == Append(u, f)
           L == Len(u)
<1>1. u \in Seq(NicFrame) /\ next \in Ring0 /\ cur \in Ring0
  BY DEF Lined
<1>2. Wrapped(cur + n) \in Ring0 /\ Offset(Wrapped(cur + n), next) = Offset(cur, next) + n
  BY <1>1, OffsetWrap
<1>3. f \in NicFrame /\ f.at = cur /\ f.pages = n
  BY <1>1 DEF NicFrame
<1> HIDE DEF f
<1>4. /\ w \in Seq(NicFrame) /\ Len(w) = L + 1 /\ L \in Nat /\ w # << >>
      /\ w[L + 1] = f /\ \A i \in 1 .. L : w[i] = u[i]
  BY <1>1, <1>3
<1>5. \A i \in 1 .. L : /\ u[i].at \in Ring0 /\ u[i].pages \in Nat \ {0}
                        /\ Offset(u[i].at, next) \in Nat
  <2> TAKE i \in 1 .. L
  <2>1. u[i] \in NicFrame
    BY <1>1
  <2>2. u[i].at \in Ring0 /\ u[i].pages \in Nat \ {0}
    BY <2>1 DEF NicFrame
  <2>3. Offset(u[i].at, next) \in 0 .. (NicStop - NicStart) - 1
    BY <1>1, <2>2, OffsetType
  <2> QED
    BY <2>2, <2>3
<1>6. Offset(cur, next) \in Nat
  BY <1>1, OffsetType
<1> HIDE DEF w, L
<1>7. \A i \in 1 .. L : Offset(u[i].at, next) + u[i].pages <= Offset(cur, next)
  BY DEF Lined, L
<1>8. \A i \in 1 .. Len(w) : Offset(w[i].at, next) + w[i].pages <= Offset(Wrapped(cur + n), next)
  <2> TAKE i \in 1 .. Len(w)
  <2>1. CASE i = L + 1
    BY <1>2, <1>3, <1>4, <1>6, <2>1
  <2>2. CASE i \in 1 .. L
    <3>1. w[i] = u[i] /\ Offset(u[i].at, next) \in Nat /\ u[i].pages \in Nat
      BY <1>4, <1>5, <2>2
    <3>2. Offset(u[i].at, next) + u[i].pages <= Offset(cur, next)
      BY <1>7, <2>2
    <3> QED
      BY <1>2, <1>6, <3>1, <3>2
  <2> QED
    BY <1>4, <2>1, <2>2
<1>9. \A i, j \in 1 .. Len(w) : i < j => Offset(w[i].at, next) + w[i].pages <= Offset(w[j].at, next)
  <2> SUFFICES ASSUME NEW i \in 1 .. Len(w), NEW j \in 1 .. Len(w), i < j
               PROVE  Offset(w[i].at, next) + w[i].pages <= Offset(w[j].at, next)
    OBVIOUS
  <2>1. i \in 1 .. L /\ w[i] = u[i]
    BY <1>4
  <2>2. CASE j = L + 1
    BY <1>3, <1>4, <1>7, <2>1, <2>2
  <2>3. CASE j \in 1 .. L
    BY <1>4, <2>1, <2>3 DEF Lined, L
  <2> QED
    BY <1>4, <2>2, <2>3
<1>10. \A i \in 1 .. Len(w) - 1 : Offset(w[i].at, next) + w[i].pages = Offset(w[i + 1].at, next)
  <2> TAKE i \in 1 .. Len(w) - 1
  <2>1. i \in 1 .. L /\ w[i] = u[i]
    BY <1>4
  <2>2. CASE i = L
    <3>1. u # << >>
      BY <1>1, <2>1 DEF L
    <3>2. Offset(u[L].at, next) + u[L].pages = Offset(cur, next)
      BY <3>1 DEF Lined, L
    <3> QED
      BY <1>3, <1>4, <2>1, <2>2, <3>2
  <2>3. CASE i \in 1 .. L - 1
    <3>1. w[i + 1] = u[i + 1]
      BY <1>4, <2>3
    <3> QED
      BY <2>1, <2>3, <3>1 DEF Lined, L
  <2> QED
    BY <1>4, <2>1, <2>2, <2>3
<1>11. w[1].at = next
  <2>1. CASE u = << >>
    BY <1>1, <1>3, <1>4, <2>1 DEF Lined, L
  <2>2. CASE u # << >>
    <3>1. 1 \in 1 .. L
      BY <1>1, <1>4, <2>2 DEF L
    <3> QED
      BY <1>4, <2>2, <3>1 DEF Lined
  <2> QED
    BY <2>1, <2>2
<1>12. Offset(w[Len(w)].at, next) + w[Len(w)].pages = Offset(Wrapped(cur + n), next)
  BY <1>2, <1>3, <1>4
<1>13. Lined(w, next, Wrapped(cur + n))
  BY <1>1, <1>2, <1>4, <1>8, <1>9, <1>10, <1>11, <1>12 DEF Lined
<1> QED
  BY <1>13 DEF w, f

\* The driver goes on to the next frame.
LEMMA TailLined ==
  ASSUME NEW u, NEW next, NEW cur, Lined(u, next, cur), u # << >>
  PROVE  Lined(Tail(u), Wrapped(u[1].at + u[1].pages), cur)
<1> DEFINE t == Tail(u)
           to == Wrapped(u[1].at + u[1].pages)
           L == Len(u)
           k == u[1].pages
<1>1. u \in Seq(NicFrame) /\ next \in Ring0 /\ cur \in Ring0 /\ u[1].at = next
  BY DEF Lined
<1>2. /\ t \in Seq(NicFrame) /\ Len(t) = L - 1 /\ L \in Nat \ {0}
      /\ \A i \in 1 .. L - 1 : t[i] = u[i + 1]
  BY <1>1
<1>3. \A i \in 1 .. L : u[i] \in NicFrame
  BY <1>1
<1>4. k \in Nat \ {0} /\ Offset(next, next) = 0
  BY <1>1, <1>2, <1>3, OffsetEnds DEF NicFrame
<1>5. \A i \in 1 .. L : /\ u[i].at \in Ring0 /\ u[i].pages \in Nat \ {0}
                        /\ Offset(u[i].at, next) \in 0 .. (NicStop - NicStart) - 1
  BY <1>1, <1>3, OffsetType DEF NicFrame
<1>6. Offset(cur, next) \in 0 .. (NicStop - NicStart) - 1 /\ k <= Offset(cur, next)
  BY <1>1, <1>2, <1>4, OffsetType DEF Lined
<1>7. to \in Ring0 /\ Offset(to, next) = k
  BY <1>1, <1>4, <1>6, OffsetWrap, NicAssumption
<1>8. \A i \in 2 .. L : k <= Offset(u[i].at, next)
  BY <1>1, <1>2, <1>4 DEF Lined
<1> HIDE DEF to, t, L, k
<1>9. \A p \in Ring0 : k <= Offset(p, next) => Offset(p, to) = Offset(p, next) - k
  <2> SUFFICES ASSUME NEW p \in Ring0, k <= Offset(p, next) PROVE Offset(p, to) = Offset(p, next) - k
    OBVIOUS
  <2>1. Offset(p, next) \in 0 .. (NicStop - NicStart) - 1
    BY <1>1, OffsetType
  <2> QED
    BY <1>1, <1>4, <1>7, <2>1, OffsetShift
<1>10. \A i \in 1 .. L - 1 : /\ t[i] = u[i + 1] /\ i + 1 \in 2 .. L /\ i + 1 \in 1 .. L
                             /\ Offset(t[i].at, to) = Offset(u[i + 1].at, next) - k
  <2> TAKE i \in 1 .. L - 1
  <2>1. t[i] = u[i + 1] /\ i + 1 \in 2 .. L /\ i + 1 \in 1 .. L
    BY <1>2
  <2> QED
    BY <1>5, <1>8, <1>9, <2>1
<1>11. Offset(cur, to) = Offset(cur, next) - k
  BY <1>1, <1>6, <1>9
<1>12. \A i \in 1 .. L : Offset(u[i].at, next) + u[i].pages <= Offset(cur, next)
  BY DEF Lined, L
<1>13. \A i, j \in 1 .. L : i < j => Offset(u[i].at, next) + u[i].pages <= Offset(u[j].at, next)
  BY DEF Lined, L
<1>14. \A i \in 1 .. L - 1 : Offset(u[i].at, next) + u[i].pages = Offset(u[i + 1].at, next)
  BY DEF Lined, L
<1>15. Offset(u[L].at, next) + u[L].pages = Offset(cur, next)
  BY DEF Lined, L
<1>16. \A i \in 1 .. Len(t) : Offset(t[i].at, to) + t[i].pages <= Offset(cur, to)
  <2> TAKE i \in 1 .. Len(t)
  <2>1. i \in 1 .. L - 1
    BY <1>2
  <2>2. t[i] = u[i + 1] /\ i + 1 \in 1 .. L /\ Offset(t[i].at, to) = Offset(u[i + 1].at, next) - k
    BY <1>10, <2>1
  <2>3. /\ Offset(u[i + 1].at, next) + u[i + 1].pages <= Offset(cur, next)
        /\ Offset(u[i + 1].at, next) \in Int /\ u[i + 1].pages \in Int
    BY <1>5, <1>12, <2>2
  <2> QED
    BY <1>4, <1>6, <1>11, <2>2, <2>3
<1>17. \A i, j \in 1 .. Len(t) : i < j => Offset(t[i].at, to) + t[i].pages <= Offset(t[j].at, to)
  <2> SUFFICES ASSUME NEW i \in 1 .. Len(t), NEW j \in 1 .. Len(t), i < j
               PROVE  Offset(t[i].at, to) + t[i].pages <= Offset(t[j].at, to)
    OBVIOUS
  <2>1. i \in 1 .. L - 1 /\ j \in 1 .. L - 1
    BY <1>2
  <2>2. /\ t[i] = u[i + 1] /\ i + 1 \in 1 .. L /\ Offset(t[i].at, to) = Offset(u[i + 1].at, next) - k
        /\ t[j] = u[j + 1] /\ j + 1 \in 1 .. L /\ Offset(t[j].at, to) = Offset(u[j + 1].at, next) - k
    BY <1>10, <2>1
  <2>3. i + 1 < j + 1
    BY <2>1
  <2>4. Offset(u[i + 1].at, next) + u[i + 1].pages <= Offset(u[j + 1].at, next)
    BY <1>13, <2>2, <2>3
  <2>5. /\ Offset(u[i + 1].at, next) \in Int /\ u[i + 1].pages \in Int
        /\ Offset(u[j + 1].at, next) \in Int
    BY <1>5, <2>2
  <2> QED
    BY <1>4, <2>2, <2>4, <2>5
<1>18. \A i \in 1 .. Len(t) - 1 : Offset(t[i].at, to) + t[i].pages = Offset(t[i + 1].at, to)
  <2> TAKE i \in 1 .. Len(t) - 1
  <2>1. i \in 1 .. L - 1 /\ i + 1 \in 1 .. L - 1
    BY <1>2
  <2>2. /\ t[i] = u[i + 1] /\ Offset(t[i].at, to) = Offset(u[i + 1].at, next) - k
        /\ Offset(t[i + 1].at, to) = Offset(u[(i + 1) + 1].at, next) - k
        /\ i + 1 \in 1 .. L /\ (i + 1) + 1 \in 1 .. L
    BY <1>10, <2>1
  <2>3. Offset(u[i + 1].at, next) + u[i + 1].pages = Offset(u[(i + 1) + 1].at, next)
    BY <1>14, <2>1
  <2>4. /\ Offset(u[i + 1].at, next) \in Int /\ u[i + 1].pages \in Int
        /\ Offset(u[(i + 1) + 1].at, next) \in Int
    BY <1>5, <2>2
  <2> QED
    BY <1>4, <2>2, <2>3, <2>4
<1>19. t = << >> => cur = to
  <2> SUFFICES ASSUME t = << >> PROVE cur = to
    OBVIOUS
  <2>1. L = 1
    BY <1>2
  <2>2. Offset(cur, next) = k
    BY <1>1, <1>4, <1>15, <2>1 DEF k
  <2> QED
    BY <1>1, <1>7, <2>2, OffsetSame
<1>20. t # << >> => t[1].at = to
  <2> SUFFICES ASSUME t # << >> PROVE t[1].at = to
    OBVIOUS
  <2>1. 1 \in 1 .. L - 1
    BY <1>2
  <2>2. Offset(u[2].at, next) = k /\ t[1] = u[2] /\ u[2].at \in Ring0
    BY <1>1, <1>2, <1>4, <1>5, <1>14, <2>1, SMTT(30) DEF k
  <2> QED
    BY <1>1, <1>7, <2>2, OffsetSame
<1>21. t # << >> => Offset(t[Len(t)].at, to) + t[Len(t)].pages = Offset(cur, to)
  <2> SUFFICES ASSUME t # << >> PROVE Offset(t[Len(t)].at, to) + t[Len(t)].pages = Offset(cur, to)
    OBVIOUS
  <2>1. Len(t) \in 1 .. L - 1 /\ Len(t) + 1 = L
    BY <1>2
  <2>2. t[Len(t)] = u[L] /\ Offset(t[Len(t)].at, to) = Offset(u[L].at, next) - k
    BY <1>10, <2>1
  <2>3. u[L].pages \in Nat /\ Offset(u[L].at, next) \in Nat
    BY <1>2, <1>5
  <2> QED
    BY <1>4, <1>6, <1>11, <1>15, <2>2, <2>3
<1>22. Lined(t, to, cur)
  BY <1>1, <1>2, <1>7, <1>16, <1>17, <1>18, <1>19, <1>20, <1>21 DEF Lined
<1> QED
  BY <1>22 DEF t, to

\* A frame written behind the others touches none of them.
LEMMA AppendStored ==
  ASSUME NEW u, NEW next, NEW cur, Lined(u, next, cur), NEW mem, Stored(u, mem),
         NEW id \in Nat \ {0}, NEW n \in Nat \ {0}, Offset(cur, next) + n < NicStop - NicStart
  PROVE  Stored(Append(u, [id |-> id, at |-> cur, pages |-> n]),
                [p \in Ring0 |-> IF Offset(p, cur) < n
                                 THEN [id |-> id, part |-> Offset(p, cur), next |-> Wrapped(cur + n)]
                                 ELSE mem[p]])
<1> DEFINE f == [id |-> id, at |-> cur, pages |-> n]
           w == Append(u, f)
           m == [p \in Ring0 |-> IF Offset(p, cur) < n
                                 THEN [id |-> id, part |-> Offset(p, cur), next |-> Wrapped(cur + n)]
                                 ELSE mem[p]]
           L == Len(u)
<1>1. u \in Seq(NicFrame) /\ next \in Ring0 /\ cur \in Ring0
  BY DEF Lined
<1>2. f \in NicFrame /\ f.at = cur /\ f.pages = n /\ f.id = id
  BY <1>1 DEF NicFrame
<1>3. Wrapped(cur + n) \in Nat
  <2>1. Wrapped(cur + n) \in Ring0
    BY <1>1, OffsetWrap
  <2> QED
    BY <2>1, NicAssumption DEF Ring0
<1>4. m \in [Ring0 -> NicPage]
  <2>1. \A p \in Ring0 : Offset(p, cur) \in Nat
    BY <1>1, OffsetType
  <2>2. \A p \in Ring0 : [id |-> id, part |-> Offset(p, cur), next |-> Wrapped(cur + n)] \in NicPage
    BY <1>3, <2>1 DEF NicPage
  <2>3. \A p \in Ring0 : mem[p] \in NicPage
    BY DEF Stored
  <2> QED
    BY <2>2, <2>3
<1>5. \A p \in Ring0 : /\ Offset(p, cur) < n => /\ m[p].id = id /\ m[p].part = Offset(p, cur)
                                                /\ m[p].next = Wrapped(cur + n)
                       /\ ~(Offset(p, cur) < n) => m[p] = mem[p]
  OBVIOUS
<1> HIDE DEF f, m
<1>6. /\ w \in Seq(NicFrame) /\ Len(w) = L + 1 /\ L \in Nat
      /\ w[L + 1] = f /\ \A i \in 1 .. L : w[i] = u[i]
  BY <1>1, <1>2
<1> HIDE DEF w, L
<1>7. \A i \in 1 .. Len(w) : \A p \in Ring0 : Offset(p, w[i].at) < w[i].pages => Holds(w[i], p, m[p])
  <2> SUFFICES ASSUME NEW i \in 1 .. Len(w), NEW p \in Ring0, Offset(p, w[i].at) < w[i].pages
               PROVE  Holds(w[i], p, m[p])
    OBVIOUS
  <2>1. CASE i = L + 1
    BY <1>2, <1>5, <1>6, <2>1 DEF Holds
  <2>2. CASE i \in 1 .. L
    <3>1. w[i] = u[i] /\ u[i] \in NicFrame
      BY <1>1, <1>6, <2>2 DEF L
    <3>2. u[i].at \in Ring0 /\ u[i].pages \in Nat
      BY <3>1 DEF NicFrame
    <3>3. Offset(u[i].at, next) + u[i].pages <= Offset(cur, next)
      BY <2>2 DEF Lined, L
    <3>4. /\ Offset(u[i].at, next) \in 0 .. (NicStop - NicStart) - 1
          /\ Offset(cur, next) \in 0 .. (NicStop - NicStart) - 1
          /\ Offset(p, next) \in 0 .. (NicStop - NicStart) - 1
      BY <1>1, <3>2, OffsetType
    <3>5. Offset(p, next) < Offset(u[i].at, next) + u[i].pages
      <4>1. Offset(u[i].at, next) + u[i].pages <= NicStop - NicStart
        BY <3>2, <3>3, <3>4, NicAssumption
      <4> QED
        BY <1>1, <3>1, <3>2, <4>1, InFrame
    <3>6. ~(Offset(p, cur) < n)
      <4>1. Offset(cur, next) + n <= NicStop - NicStart
        BY <3>4, NicAssumption
      <4>2. Offset(p, cur) < n => Offset(cur, next) <= Offset(p, next)
        BY <1>1, <4>1, InFrame
      <4> QED
        BY <3>2, <3>3, <3>4, <3>5, <4>2
    <3> QED
      BY <1>5, <2>2, <3>1, <3>6 DEF Stored, L
  <2> QED
    BY <1>6, <2>1, <2>2
<1>8. Stored(w, m)
  BY <1>4, <1>7 DEF Stored
<1> QED
  BY <1>8 DEF w, m, f

\* Giving the first frame's pages back touches none of the others.
LEMMA TailStored ==
  ASSUME NEW u, NEW next, NEW cur, Lined(u, next, cur), u # << >>, NEW mem, Stored(u, mem)
  PROVE  Stored(Tail(u), [p \in Ring0 |-> IF Offset(p, u[1].at) < u[1].pages THEN NicEmpty ELSE mem[p]])
<1> DEFINE t == Tail(u)
           m == [p \in Ring0 |-> IF Offset(p, u[1].at) < u[1].pages THEN NicEmpty ELSE mem[p]]
           L == Len(u)
<1>1. u \in Seq(NicFrame) /\ next \in Ring0 /\ cur \in Ring0 /\ u[1].at = next
  BY DEF Lined
<1>2. /\ Len(t) = L - 1 /\ L \in Nat \ {0}
      /\ \A i \in 1 .. L - 1 : t[i] = u[i + 1]
  BY <1>1
<1>3. m \in [Ring0 -> NicPage]
  <2>1. NicEmpty \in NicPage
    BY DEF NicEmpty, NicPage
  <2>2. \A p \in Ring0 : mem[p] \in NicPage
    BY DEF Stored
  <2> QED
    BY <2>1, <2>2
<1>4. \A p \in Ring0 : ~(Offset(p, next) < u[1].pages) => m[p] = mem[p]
  BY <1>1
<1> HIDE DEF t, m, L
<1>5. \A i \in 1 .. Len(t) : \A p \in Ring0 : Offset(p, t[i].at) < t[i].pages => Holds(t[i], p, m[p])
  <2> SUFFICES ASSUME NEW i \in 1 .. Len(t), NEW p \in Ring0, Offset(p, t[i].at) < t[i].pages
               PROVE  Holds(t[i], p, m[p])
    OBVIOUS
  <2>1. t[i] = u[i + 1] /\ i + 1 \in 2 .. L /\ i + 1 \in 1 .. L /\ 1 \in 1 .. L /\ 1 < i + 1
    BY <1>2
  <2>2. u[i + 1] \in NicFrame /\ u[1] \in NicFrame
    BY <1>1, <2>1 DEF L
  <2>3. u[i + 1].at \in Ring0 /\ u[i + 1].pages \in Nat /\ u[1].pages \in Nat
    BY <2>2 DEF NicFrame
  <2>4. /\ Offset(u[1].at, next) + u[1].pages <= Offset(u[i + 1].at, next)
        /\ Offset(u[i + 1].at, next) + u[i + 1].pages <= Offset(cur, next)
    BY <2>1 DEF Lined, L
  <2>5. /\ Offset(u[i + 1].at, next) \in 0 .. (NicStop - NicStart) - 1
        /\ Offset(cur, next) \in 0 .. (NicStop - NicStart) - 1
        /\ Offset(p, next) \in 0 .. (NicStop - NicStart) - 1
        /\ Offset(next, next) = 0
    BY <1>1, <2>3, OffsetType, OffsetEnds
  <2>6. Offset(u[i + 1].at, next) + u[i + 1].pages <= NicStop - NicStart
    BY <2>3, <2>4, <2>5, NicAssumption
  <2>7. Offset(u[i + 1].at, next) <= Offset(p, next)
    BY <1>1, <2>1, <2>3, <2>6, InFrame
  <2>8. ~(Offset(p, next) < u[1].pages)
    BY <1>1, <2>3, <2>4, <2>5, <2>7
  <2> QED
    BY <1>4, <2>1, <2>8 DEF Stored, L
<1>6. Stored(t, m)
  BY <1>3, <1>5 DEF Stored
<1> QED
  BY <1>6 DEF t, m

\* ne2000_buffer_full: when it says no, the largest frame ends before the boundary, or at it.
LEMMA RoomLeft ==
  ASSUME NEW n \in NicRegs, NEW next \in Ring0, n.boundary = Before(next), n.curpag # n.boundary,
         ~BufferFull(n)
  PROVE  Offset(n.curpag, next) + NicMaxPages < NicStop - NicStart
<1>1. n.curpag \in Ring0
  BY DEF NicRegs
<1> DEFINE c == n.curpag
           b == n.boundary
<1>2. c \in Ring0 /\ b = Before(next) /\ c # b
  BY <1>1
<1>3. ~((IF c < b THEN b - c ELSE (NicStop - NicStart) - (c - b)) < NicMaxPages)
  BY DEF BufferFull
<1> HIDE DEF c, b
<1>4. Offset(c, next) + NicMaxPages < NicStop - NicStart
  BY <1>2, <1>3, NicAssumption DEF Offset, Before, Ring0
<1> QED
  BY <1>4 DEF c

\* ne2000_buffer_full: when it says no, no frame is longer than the ring.
LEMMA RoundRing ==
  ASSUME NEW n \in NicRegs, ~BufferFull(n), NEW pages \in 1 .. NicMaxPages
  PROVE  Wrapped(n.curpag + pages) \in Ring0
<1> DEFINE c == n.curpag
           b == n.boundary
<1>1. c \in Ring0 /\ b \in Ring0
  BY DEF NicRegs
<1>2. ~((IF c < b THEN b - c ELSE (NicStop - NicStart) - (c - b)) < NicMaxPages)
  BY DEF BufferFull
<1> HIDE DEF c, b
<1>3. Wrapped(c + pages) \in Ring0
  BY <1>1, <1>2, NicAssumption DEF Wrapped, Ring0
<1> QED
  BY <1>3 DEF c

\* ne2000_update_irq touches nothing but the line, and makes it true.
LEMMA NicUpdateTrue ==
  ASSUME NEW n \in NicRegs
  PROVE  /\ NicUpdateIrq(n) \in NicRegs /\ LineTrue(NicUpdateIrq(n))
         /\ NicUpdateIrq(n).curpag = n.curpag /\ NicUpdateIrq(n).boundary = n.boundary
         /\ NicUpdateIrq(n).rsar = n.rsar
<1>1. (n.isr \cap n.imr # {}) \in BOOLEAN
  OBVIOUS
<1> QED
  BY <1>1 DEF NicUpdateIrq, NicRegs, LineTrue

\* The chip just set up has an empty ring.
LEMMA NicInitInv == NicInit => NicInv
<1> SUFFICES ASSUME NicInit PROVE NicInv
  OBVIOUS
<1>1. NicStart \in Ring0 /\ Before(NicStart) \in Ring0 /\ NicStart # Before(NicStart)
  BY NicAssumption DEF Ring0, Before
<1>2. nic \in NicRegs /\ drv \in NicDriver
  BY <1>1 DEF NicInit, NicRegs, NicDriver
<1>3. /\ nic.curpag = NicStart /\ nic.boundary = Before(NicStart) /\ drv.next = NicStart
      /\ drv.pc = "idle" /\ ~drv.torn /\ ~drv.over /\ unread = << >>
      /\ nic.isr = {} /\ nic.line = FALSE
  BY DEF NicInit
<1>4. Lined(<< >>, NicStart, NicStart)
  BY <1>1 DEF Lined
<1>5. Stored(<< >>, nicmem)
  BY DEF NicInit, Stored, NicPage, NicEmpty
<1>6. Reading(drv, nic.rsar, unread) /\ Placed(drv)
  BY <1>3 DEF Reading, Placed
<1>7. LineTrue(nic)
  BY <1>3 DEF LineTrue
<1> QED
  BY <1>1, <1>2, <1>3, <1>4, <1>5, <1>6, <1>7 DEF NicInv

\* A step that leaves the ring, the driver and the remote address alone.
LEMMA NicQuiet ==
  ASSUME NicInv, nic' \in NicRegs, LineTrue(nic'), UNCHANGED <<nicmem, drv, unread>>,
         nic'.curpag = nic.curpag, nic'.boundary = nic.boundary, nic'.rsar = nic.rsar
  PROVE  NicInv'
<1>1. drv' = drv /\ unread' = unread /\ nicmem' = nicmem
  OBVIOUS
<1>2. nic \in NicRegs /\ drv \in NicDriver /\ Placed(drv) /\ nic.boundary = Before(drv.next)
  BY DEF NicInv
<1>3. CASE drv.over
  BY <1>1, <1>2, <1>3 DEF NicInv
<1>4. CASE ~drv.over
  <2>1. Lined(unread, drv.next, nic.curpag) /\ Stored(unread, nicmem) /\ Reading(drv, nic.rsar, unread)
    BY <1>4 DEF NicInv
  <2>2. /\ Lined(unread', drv'.next, nic'.curpag) /\ Stored(unread', nicmem')
        /\ Reading(drv', nic'.rsar, unread')
    BY <1>1, <2>1
  <2> QED
    BY <1>1, <1>2, <1>4, <2>2 DEF NicInv
<1> QED
  BY <1>3, <1>4

\* A frame laid over a ring that is full to the boundary, or was overrun before.
LEMMA OverrunKeeps ==
  ASSUME NicInv, drv.over \/ nic.curpag = nic.boundary, NEW n \in 1 .. NicMaxPages, Deposit(n),
         Wrapped(nic.curpag + n) \in Ring0
  PROVE  NicInv'
<1> DEFINE to == Wrapped(nic.curpag + n)
           regs == [nic EXCEPT !.curpag = to, !.isr = @ \cup {"rx"}]
<1>1. nic \in NicRegs /\ drv \in NicDriver /\ Placed(drv) /\ nic.boundary = Before(drv.next)
  BY DEF NicInv
<1>2. /\ nicmem' = [p \in Ring0 |-> NicEmpty] /\ nic' = NicUpdateIrq(regs)
      /\ drv' = [drv EXCEPT !.id = 1, !.over = TRUE]
  BY DEF Deposit
<1>3. regs \in NicRegs /\ regs.boundary = nic.boundary
  BY <1>1 DEF NicRegs
<1>4. nic' \in NicRegs /\ LineTrue(nic') /\ nic'.boundary = nic.boundary
  <2> HIDE DEF regs
  <2> QED
    BY <1>2, <1>3, NicUpdateTrue
<1>5. /\ drv' \in NicDriver /\ drv'.next = drv.next /\ drv'.pc = drv.pc /\ drv'.page = drv.page
      /\ drv'.left = drv.left /\ drv'.torn = drv.torn /\ drv'.over = TRUE
  <2>1. 1 \in Nat \ {0}
    OBVIOUS
  <2> QED
    BY <1>1, <1>2, <2>1 DEF NicDriver
<1>6. Placed(drv')
  BY <1>1, <1>5 DEF Placed
<1> QED
  BY <1>1, <1>2, <1>4, <1>5, <1>6 DEF NicInv

\* A frame that arrives in time keeps it.
LEMMA DepositKeeps ==
  ASSUME NicInv, ~drv.over, nic.curpag # nic.boundary, ~BufferFull(nic),
         NEW n \in 1 .. NicMaxPages, Deposit(n)
  PROVE  NicInv'
<1> DEFINE to == Wrapped(nic.curpag + n)
           regs == [nic EXCEPT !.curpag = to, !.isr = @ \cup {"rx"}]
           f == [id |-> drv.id, at |-> nic.curpag, pages |-> n]
<1>1. n \in Nat \ {0} /\ n <= NicMaxPages
  BY NicAssumption
<1>2. /\ nic \in NicRegs /\ drv \in NicDriver /\ drv.next \in Ring0 /\ nic.curpag \in Ring0
      /\ drv.id \in Nat \ {0} /\ nic.boundary \in Ring0 /\ Placed(drv)
  BY DEF NicInv, NicRegs, NicDriver
<1>3. Offset(nic.curpag, drv.next) + n < NicStop - NicStart
  <2>1. Offset(nic.curpag, drv.next) + NicMaxPages < NicStop - NicStart
    BY <1>2, RoomLeft DEF NicInv
  <2>2. Offset(nic.curpag, drv.next) \in Nat
    BY <1>2, OffsetType
  <2> QED
    BY <1>1, <2>1, <2>2, NicAssumption
<1>4. to \in Ring0
  BY <1>1, <1>2, <1>3, OffsetWrap
<1>5. /\ nicmem' = [p \in Ring0 |-> IF Offset(p, nic.curpag) < n
                     THEN [id |-> drv.id, part |-> Offset(p, nic.curpag), next |-> to] ELSE nicmem[p]]
      /\ nic' = NicUpdateIrq(regs) /\ unread' = Append(unread, f)
      /\ drv' = [drv EXCEPT !.id = (drv.id % NicIds) + 1, !.over = FALSE]
  BY DEF Deposit
<1>6. regs \in NicRegs /\ regs.curpag = to /\ regs.boundary = nic.boundary /\ regs.rsar = nic.rsar
  BY <1>2, <1>4 DEF NicRegs
<1>7. /\ nic' \in NicRegs /\ LineTrue(nic')
      /\ nic'.curpag = to /\ nic'.boundary = nic.boundary /\ nic'.rsar = nic.rsar
  <2> HIDE DEF regs
  <2> QED
    BY <1>5, <1>6, NicUpdateTrue
<1>8. /\ drv' \in NicDriver /\ drv'.next = drv.next /\ drv'.pc = drv.pc /\ drv'.page = drv.page
      /\ drv'.left = drv.left /\ drv'.torn = drv.torn /\ ~drv'.over
  <2>1. (drv.id % NicIds) + 1 \in Nat \ {0}
    BY <1>2, NicAssumption
  <2> QED
    BY <1>2, <1>5, <2>1 DEF NicDriver
<1>9. Lined(unread', drv'.next, nic'.curpag)
  <2>1. Lined(Append(unread, f), drv.next, to)
    BY <1>1, <1>2, <1>3, AppendLined DEF NicInv
  <2> QED
    BY <1>5, <1>7, <1>8, <2>1
<1>10. Stored(unread', nicmem')
  <2>1. Lined(unread, drv.next, nic.curpag) /\ Stored(unread, nicmem)
    BY DEF NicInv
  <2> QED
    BY <1>1, <1>2, <1>3, <1>5, <2>1, AppendStored
<1>11. Reading(drv', nic'.rsar, unread')
  <2>1. unread \in Seq(NicFrame) /\ f \in NicFrame
    BY <1>1, <1>2 DEF NicInv, Lined, NicFrame
  <2>2. unread' # << >> /\ (unread # << >> => unread'[1] = unread[1])
    BY <1>5, <2>1
  <2> QED
    BY <1>7, <1>8, <2>2 DEF NicInv, Reading
<1>12. Placed(drv')
  BY <1>2, <1>8 DEF Placed
<1> QED
  BY <1>7, <1>8, <1>9, <1>10, <1>11, <1>12 DEF NicInv

\* Setting the ring up again empties it.
LEMMA StartKeeps == ASSUME NicInv, StartChip PROVE NicInv'
<1>1. NicStart \in Ring0 /\ Before(NicStart) \in Ring0 /\ NicStart # Before(NicStart)
  BY NicAssumption DEF Ring0, Before
<1>2. nic \in NicRegs /\ drv \in NicDriver
  BY DEF NicInv
<1>3. PICK rxcr \in {{}, {"broadcast"}, {"multicast"}, {"promiscuous"}} :
        nic' = NicUpdateIrq([nic EXCEPT !.stop = FALSE, !.boundary = Before(NicStart), !.rxcr = rxcr,
                                        !.curpag = NicStart, !.imr = {"rx", "tx", "rdc"}])
  BY DEF StartChip
<1> DEFINE r1 == [nic EXCEPT !.stop = FALSE, !.boundary = Before(NicStart), !.rxcr = rxcr,
                             !.curpag = NicStart, !.imr = {"rx", "tx", "rdc"}]
<1>4. r1 \in NicRegs /\ r1.curpag = NicStart /\ r1.boundary = Before(NicStart)
  BY <1>1, <1>2, <1>3 DEF NicRegs
<1>5. nic' \in NicRegs /\ LineTrue(nic') /\ nic'.curpag = NicStart /\ nic'.boundary = Before(NicStart)
  <2>1. nic' = NicUpdateIrq(r1)
    BY <1>3
  <2> HIDE DEF r1
  <2> QED
    BY <1>4, <2>1, NicUpdateTrue
<1>6. drv' \in NicDriver /\ drv'.next = NicStart /\ drv'.pc = "idle" /\ drv'.torn = drv.torn
      /\ ~drv'.over
  BY <1>1, <1>2 DEF StartChip, NicDriver
<1>7. unread' = << >> /\ nicmem' = [p \in Ring0 |-> NicEmpty]
  BY DEF StartChip
<1>8. Lined(<< >>, NicStart, NicStart)
  BY <1>1 DEF Lined
<1>9. Stored(<< >>, nicmem')
  BY <1>7 DEF Stored, NicPage, NicEmpty
<1>10. Reading(drv', nic'.rsar, unread') /\ Placed(drv')
  BY <1>6 DEF Reading, Placed, NicInv
<1> QED
  BY <1>1, <1>5, <1>6, <1>7, <1>8, <1>9, <1>10 DEF NicInv

\* ne2000_dma_update moves the remote address on by a page, round the ring.
LEMMA DmaUpdateTrue ==
  ASSUME NEW n \in NicRegs, LineTrue(n)
  PROVE  /\ DmaUpdate(n) \in NicRegs /\ LineTrue(DmaUpdate(n))
         /\ DmaUpdate(n).curpag = n.curpag /\ DmaUpdate(n).boundary = n.boundary
         /\ DmaUpdate(n).rsar = Wrapped(n.rsar + 1)
<1> DEFINE to == IF n.rsar + 1 = NicStop THEN NicStart ELSE n.rsar + 1
           last == [n EXCEPT !.rsar = to, !.rcnt = 0, !.isr = @ \cup {"rdc"}]
           more == [n EXCEPT !.rsar = to, !.rcnt = @ - 1]
<1>1. n.rsar \in Ring0 /\ n.rcnt \in Nat
  BY DEF NicRegs
<1>2. to \in Ring0 /\ to = Wrapped(n.rsar + 1)
  BY <1>1, NicAssumption DEF Ring0, Wrapped
<1>3. DmaUpdate(n) = IF n.rcnt <= 1 THEN NicUpdateIrq(last) ELSE more
  BY DEF DmaUpdate
<1> HIDE DEF to
<1>4. CASE n.rcnt <= 1
  <2>1. last \in NicRegs /\ last.curpag = n.curpag /\ last.boundary = n.boundary /\ last.rsar = to
    BY <1>2 DEF NicRegs
  <2> HIDE DEF last
  <2> QED
    BY <1>2, <1>3, <1>4, <2>1, NicUpdateTrue
<1>5. CASE ~(n.rcnt <= 1)
  <2>1. n.rcnt - 1 \in Nat
    BY <1>1, <1>5
  <2>2. /\ more \in NicRegs /\ more.curpag = n.curpag /\ more.boundary = n.boundary /\ more.rsar = to
        /\ LineTrue(more)
    BY <1>2, <2>1 DEF NicRegs, LineTrue
  <2> QED
    BY <1>2, <1>3, <1>5, <2>2
<1> QED
  BY <1>4, <1>5

\* The first frame, where the driver reads it: page k of it is where it says.
LEMMA FirstFrame ==
  ASSUME NicInv, ~drv.over, unread # << >>
  PROVE  /\ unread[1] = Head(unread) /\ unread[1].at = drv.next /\ drv.next \in Ring0
         /\ unread[1].pages \in 1 .. (NicStop - NicStart) - 1
         /\ \A k \in 0 .. unread[1].pages - 1 :
              /\ Wrapped(drv.next + k) \in Ring0
              /\ nicmem[Wrapped(drv.next + k)].id = unread[1].id
              /\ nicmem[Wrapped(drv.next + k)].next = Wrapped(drv.next + unread[1].pages)
         /\ unread[1].id # 0
<1>1. Lined(unread, drv.next, nic.curpag) /\ Stored(unread, nicmem)
  BY DEF NicInv
<1>2. /\ unread \in Seq(NicFrame) /\ unread[1].at = drv.next /\ drv.next \in Ring0
      /\ nic.curpag \in Ring0 /\ 1 \in 1 .. Len(unread) /\ unread[1] = Head(unread)
  BY <1>1 DEF Lined
<1>3. unread[1] \in NicFrame /\ unread[1].pages \in Nat \ {0} /\ unread[1].id # 0
  <2>1. unread[1] \in NicFrame
    BY <1>2
  <2> QED
    BY <2>1 DEF NicFrame
<1>4. /\ Offset(drv.next, drv.next) = 0 /\ Offset(nic.curpag, drv.next) \in 0 .. (NicStop - NicStart) - 1
      /\ Offset(drv.next, drv.next) + unread[1].pages <= Offset(nic.curpag, drv.next)
  BY <1>1, <1>2, OffsetType, OffsetEnds DEF Lined
<1>5. unread[1].pages \in 1 .. (NicStop - NicStart) - 1
  BY <1>3, <1>4, NicAssumption
<1>6. ASSUME NEW k \in 0 .. unread[1].pages - 1
      PROVE  /\ Wrapped(drv.next + k) \in Ring0
             /\ nicmem[Wrapped(drv.next + k)].id = unread[1].id
             /\ nicmem[Wrapped(drv.next + k)].next = Wrapped(drv.next + unread[1].pages)
  <2>1. k \in Nat /\ k < unread[1].pages /\ Offset(drv.next, drv.next) + k < NicStop - NicStart
    BY <1>3, <1>4, <1>5, NicAssumption
  <2>2. Wrapped(drv.next + k) \in Ring0 /\ Offset(Wrapped(drv.next + k), drv.next) = k
    BY <1>2, <1>4, <2>1, OffsetWrap
  <2>3. Holds(unread[1], Wrapped(drv.next + k), nicmem[Wrapped(drv.next + k)])
    BY <1>1, <1>2, <2>1, <2>2 DEF Stored
  <2> QED
    BY <1>2, <2>2, <2>3 DEF Holds
<1> QED
  BY <1>2, <1>3, <1>5, <1>6

\* Looking for a frame and reading its header.
LEMMA PollKeeps == ASSUME NicInv, DrvPoll PROVE NicInv'
<1>1. /\ nic \in NicRegs /\ drv \in NicDriver /\ drv.next \in Ring0 /\ LineTrue(nic) /\ Placed(drv)
      /\ nic.boundary = Before(drv.next)
  BY DEF NicInv, NicDriver
<1>3. /\ nic' \in NicRegs /\ nic'.rsar = drv.next /\ nic'.curpag = nic.curpag
      /\ nic'.boundary = nic.boundary /\ LineTrue(nic')
  BY <1>1 DEF DrvPoll, NicRegs, LineTrue
<1>4. /\ drv' \in NicDriver /\ drv'.pc = "header" /\ drv'.next = drv.next /\ drv'.torn = drv.torn
      /\ drv'.over = drv.over
  BY <1>1 DEF DrvPoll, NicDriver
<1>5. unread' = unread /\ nicmem' = nicmem
  BY DEF DrvPoll
<1>6. Placed(drv')
  BY <1>1, <1>4 DEF Placed
<1>7. CASE drv.over
  BY <1>1, <1>3, <1>4, <1>5, <1>6, <1>7 DEF NicInv
<1>8. CASE ~drv.over
  <2>1. Lined(unread, drv.next, nic.curpag) /\ Stored(unread, nicmem)
    BY <1>8 DEF NicInv
  <2>2. unread # << >>
    BY <2>1 DEF Lined, DrvPoll
  <2>3. Reading(drv', nic'.rsar, unread')
    BY <1>3, <1>4, <1>5, <2>2 DEF Reading
  <2> QED
    BY <1>1, <1>3, <1>4, <1>5, <1>6, <1>8, <2>1, <2>3 DEF NicInv
<1> QED
  BY <1>7, <1>8

\* The driver's length of the frame is its length.
LEMMA HeaderKeeps == ASSUME NicInv, ~drv.over, DrvHeader PROVE NicInv'
<1>1. nic \in NicRegs /\ drv \in NicDriver /\ LineTrue(nic) /\ ~drv.torn
  BY DEF NicInv, Placed
<1>2. unread # << >> /\ nic.rsar = drv.next
  BY DEF NicInv, Reading, DrvHeader
<1> DEFINE P == unread[1].pages
           h == nicmem[drv.next]
           to == Wrapped(drv.next + P)
           pages == IF to > drv.next THEN to - drv.next ELSE to - drv.next + (NicStop - NicStart)
<1>3. /\ unread[1] = Head(unread) /\ unread[1].at = drv.next /\ drv.next \in Ring0
      /\ P \in 1 .. (NicStop - NicStart) - 1
      /\ \A k \in 0 .. P - 1 :
           /\ Wrapped(drv.next + k) \in Ring0
           /\ nicmem[Wrapped(drv.next + k)].id = unread[1].id
           /\ nicmem[Wrapped(drv.next + k)].next = to
      /\ unread[1].id # 0
  BY <1>2, FirstFrame
<1>4. Wrapped(drv.next + 0) = drv.next /\ to \in Nat /\ to \in Ring0
  BY <1>3, NicAssumption DEF Wrapped, Ring0
<1>5. h.id = Head(unread).id /\ h.next = to /\ NextPages(h) = {to}
  <2>1. h.id = Head(unread).id /\ h.next = to /\ h.id # 0
    BY <1>3, <1>4, NicAssumption
  <2> QED
    BY <2>1 DEF NextPages
<1>6. /\ nic' = DmaUpdate(nic)
      /\ drv' = [drv EXCEPT !.pc = IF pages = 1 THEN "release" ELSE "body", !.page = to,
                            !.left = pages - 1,
                            !.torn = @ \/ (~drv.over /\ h.id # Head(unread).id)]
      /\ unread' = unread /\ nicmem' = nicmem
  <2> HIDE DEF to
  <2> QED
    BY <1>2, <1>5 DEF DrvHeader
<1>7. pages = P
  <2> HIDE DEF P
  <2> QED
    BY <1>3, NicAssumption DEF Wrapped, Ring0
<1>8. /\ nic' \in NicRegs /\ LineTrue(nic') /\ nic'.curpag = nic.curpag /\ nic'.boundary = nic.boundary
      /\ nic'.rsar = Wrapped(drv.next + 1)
  BY <1>1, <1>2, <1>6, DmaUpdateTrue
<1>9. /\ drv' \in NicDriver /\ drv'.next = drv.next /\ drv'.over = drv.over /\ drv'.torn = FALSE
      /\ drv'.pc = (IF P = 1 THEN "release" ELSE "body") /\ drv'.page = to /\ drv'.left = P - 1
  <2> DEFINE l == P - 1
             q == IF P = 1 THEN "release" ELSE "body"
  <2>1. l \in Nat /\ q \in {"idle", "header", "body", "release"}
    BY <1>3
  <2>2. drv' = [drv EXCEPT !.pc = q, !.page = to, !.left = l, !.torn = FALSE]
    <3> HIDE DEF pages
    <3> QED
      BY <1>1, <1>5, <1>6, <1>7
  <2> HIDE DEF l, q, to
  <2>3. /\ drv' \in NicDriver /\ drv'.next = drv.next /\ drv'.over = drv.over /\ drv'.torn = FALSE
        /\ drv'.pc = q /\ drv'.page = to /\ drv'.left = l
    BY <1>1, <1>4, <2>1, <2>2 DEF NicDriver
  <2> QED
    BY <2>3 DEF l, q
<1>10. Reading(drv', nic'.rsar, unread') /\ Placed(drv')
  <2>1. P # 1 => P - 1 \in 1 .. P - 1 /\ P - (P - 1) = 1 /\ P - 1 # 0
    BY <1>3
  <2> QED
    BY <1>2, <1>3, <1>4, <1>6, <1>8, <1>9, <2>1 DEF Reading, Placed
<1>11. Lined(unread', drv'.next, nic'.curpag) /\ Stored(unread', nicmem')
  BY <1>6, <1>8, <1>9 DEF NicInv
<1> QED
  BY <1>8, <1>9, <1>10, <1>11 DEF NicInv

\* After an overrun it may be any length, but the driver goes on to a page of the ring.
LEMMA HeaderOver == ASSUME NicInv, drv.over, DrvHeader PROVE NicInv'
<1>1. /\ nic \in NicRegs /\ drv \in NicDriver /\ LineTrue(nic) /\ ~drv.torn
      /\ nic.boundary = Before(drv.next) /\ nicmem = [p \in Ring0 |-> NicEmpty]
  BY DEF NicInv, Placed
<1>2. nic.rsar \in Ring0 /\ drv.next \in Ring0
  BY <1>1 DEF NicRegs, NicDriver
<1>3. NextPages(nicmem[nic.rsar]) = Ring0
  BY <1>1, <1>2 DEF NextPages, NicEmpty
<1> DEFINE pages(to) == IF to > drv.next THEN to - drv.next ELSE to - drv.next + (NicStop - NicStart)
<1>4. PICK to \in Ring0 :
        drv' = [drv EXCEPT !.pc = IF pages(to) = 1 THEN "release" ELSE "body", !.page = to,
                           !.left = pages(to) - 1,
                           !.torn = @ \/ (~drv.over /\ nicmem[nic.rsar].id # Head(unread).id)]
  BY <1>3 DEF DrvHeader
<1>5. /\ nic' \in NicRegs /\ LineTrue(nic') /\ nic'.boundary = nic.boundary
      /\ nicmem' = nicmem
  BY <1>1, DmaUpdateTrue DEF DrvHeader
<1> DEFINE l == pages(to) - 1
           q == IF l = 0 THEN "release" ELSE "body"
<1>6. /\ l \in Nat /\ q \in {"idle", "header", "body", "release"} /\ (q = "body" => l # 0)
      /\ to \in Nat
  BY <1>2, NicAssumption DEF Ring0
<1>7. drv' = [drv EXCEPT !.pc = q, !.page = to, !.left = l, !.torn = FALSE]
  <2>1. (pages(to) = 1) <=> (l = 0)
    BY <1>2, NicAssumption DEF Ring0
  <2> HIDE DEF pages
  <2> QED
    BY <1>1, <1>4, <2>1
<1> HIDE DEF l, q
<1>8. /\ drv' \in NicDriver /\ drv'.next = drv.next /\ drv'.over /\ drv'.torn = FALSE
      /\ drv'.pc = q /\ drv'.page = to /\ drv'.left = l
  BY <1>1, <1>6, <1>7 DEF NicDriver
<1>9. Placed(drv')
  BY <1>6, <1>8 DEF Placed
<1> QED
  BY <1>1, <1>5, <1>8, <1>9 DEF NicInv

\* The driver reads the rest of the frame page by page, round the end of the ring.
LEMMA BodyKeeps == ASSUME NicInv, ~drv.over, DrvBody PROVE NicInv'
<1> DEFINE P == unread[1].pages
           to == Wrapped(drv.next + P)
           k == P - drv.left
<1>1. nic \in NicRegs /\ drv \in NicDriver /\ LineTrue(nic) /\ ~drv.torn /\ drv.left \in Nat
  BY DEF NicInv, Placed, NicDriver
<1>2. unread # << >> /\ drv.left \in 1 .. P - 1 /\ nic.rsar = Wrapped(drv.next + k)
      /\ drv.page = Wrapped(unread[1].at + P) /\ drv.page \in Ring0
  BY DEF NicInv, Reading, Placed, DrvBody
<1>3. /\ unread[1] = Head(unread) /\ unread[1].at = drv.next /\ drv.next \in Ring0
      /\ P \in 1 .. (NicStop - NicStart) - 1
      /\ \A j \in 0 .. P - 1 :
           /\ Wrapped(drv.next + j) \in Ring0
           /\ nicmem[Wrapped(drv.next + j)].id = unread[1].id
           /\ nicmem[Wrapped(drv.next + j)].next = to
  BY <1>2, FirstFrame
<1>4. k \in 0 .. P - 1 /\ k \in Nat
  BY <1>2, <1>3
<1>5. nicmem[nic.rsar].id = Head(unread).id
  <2> HIDE DEF k, P
  <2> QED
    BY <1>2, <1>3, <1>4
<1>6. /\ nic' = DmaUpdate(nic)
      /\ drv' = [drv EXCEPT !.left = @ - 1, !.pc = IF drv.left = 1 THEN "release" ELSE "body",
                            !.torn = @ \/ (~drv.over /\ nicmem[nic.rsar].id # Head(unread).id)]
      /\ unread' = unread /\ nicmem' = nicmem
  BY DEF DrvBody
<1>7. /\ nic' \in NicRegs /\ LineTrue(nic') /\ nic'.curpag = nic.curpag /\ nic'.boundary = nic.boundary
      /\ nic'.rsar = Wrapped(Wrapped(drv.next + k) + 1)
  BY <1>1, <1>2, <1>6, DmaUpdateTrue
<1>8. Wrapped(Wrapped(drv.next + k) + 1) = Wrapped(drv.next + (k + 1))
  <2> HIDE DEF k, P
  <2> QED
    BY <1>3, <1>4, NicAssumption DEF Wrapped, Ring0
<1>9. /\ drv' \in NicDriver /\ drv'.next = drv.next /\ drv'.over = drv.over /\ drv'.torn = FALSE
      /\ drv'.pc = (IF drv.left = 1 THEN "release" ELSE "body") /\ drv'.page = drv.page
      /\ drv'.left = drv.left - 1
  <2> DEFINE l == drv.left - 1
             q == IF drv.left = 1 THEN "release" ELSE "body"
  <2>1. l \in Nat /\ q \in {"idle", "header", "body", "release"}
    BY <1>2
  <2>2. drv' = [drv EXCEPT !.left = l, !.pc = q, !.torn = FALSE]
    BY <1>1, <1>5, <1>6
  <2> HIDE DEF l, q
  <2>3. /\ drv' \in NicDriver /\ drv'.next = drv.next /\ drv'.over = drv.over /\ drv'.torn = FALSE
        /\ drv'.pc = q /\ drv'.page = drv.page /\ drv'.left = l
    BY <1>1, <2>1, <2>2 DEF NicDriver
  <2> QED
    BY <2>3 DEF l, q
<1>10. Reading(drv', nic'.rsar, unread') /\ Placed(drv')
  <2>1. drv.left # 1 => drv.left - 1 \in 1 .. P - 1 /\ P - (drv.left - 1) = k + 1 /\ drv.left - 1 # 0
    BY <1>2, <1>3
  <2> QED
    BY <1>2, <1>3, <1>6, <1>7, <1>8, <1>9, <2>1 DEF Reading, Placed
<1>11. Lined(unread', drv'.next, nic'.curpag) /\ Stored(unread', nicmem')
  BY <1>6, <1>7, <1>9 DEF NicInv
<1> QED
  BY <1>7, <1>9, <1>10, <1>11 DEF NicInv

\* After an overrun it reads whatever is there.
LEMMA BodyOver == ASSUME NicInv, drv.over, DrvBody PROVE NicInv'
<1>1. /\ nic \in NicRegs /\ drv \in NicDriver /\ LineTrue(nic) /\ ~drv.torn /\ drv.page \in Ring0
      /\ nic.boundary = Before(drv.next) /\ nicmem = [p \in Ring0 |-> NicEmpty] /\ drv.left # 0
  BY DEF NicInv, Placed, DrvBody
<1>2. /\ nic' \in NicRegs /\ LineTrue(nic') /\ nic'.boundary = nic.boundary
      /\ nicmem' = nicmem
  BY <1>1, DmaUpdateTrue DEF DrvBody
<1> DEFINE l == drv.left - 1
           q == IF drv.left = 1 THEN "release" ELSE "body"
<1>3. l \in Nat /\ q \in {"idle", "header", "body", "release"} /\ (q = "body" => l # 0)
  BY <1>1 DEF NicDriver
<1>4. drv' = [drv EXCEPT !.left = l, !.pc = q, !.torn = FALSE]
  BY <1>1 DEF DrvBody
<1> HIDE DEF l, q
<1>5. /\ drv' \in NicDriver /\ drv'.next = drv.next /\ drv'.over /\ drv'.torn = FALSE
      /\ drv'.pc = q /\ drv'.page = drv.page /\ drv'.left = l
  BY <1>1, <1>3, <1>4 DEF NicDriver
<1>6. Placed(drv')
  BY <1>1, <1>3, <1>5 DEF Placed
<1> QED
  BY <1>1, <1>2, <1>5, <1>6 DEF NicInv

\* The driver gives the frame's pages back.
LEMMA ReleaseKeeps == ASSUME NicInv, ~drv.over, DrvRelease PROVE NicInv'
<1> DEFINE to == Wrapped(unread[1].at + unread[1].pages)
<1>1. nic \in NicRegs /\ drv \in NicDriver /\ LineTrue(nic) /\ ~drv.torn
  BY DEF NicInv, Placed
<1>2. unread # << >> /\ drv.page = to
  BY DEF NicInv, Reading, DrvRelease
<1>3. Lined(unread, drv.next, nic.curpag) /\ Stored(unread, nicmem) /\ unread[1] = Head(unread)
  BY <1>2, FirstFrame DEF NicInv
<1>4. Lined(Tail(unread), to, nic.curpag)
  BY <1>2, <1>3, TailLined
<1>5. to \in Ring0 /\ to \in Nat /\ nic.curpag \in Ring0
  BY <1>4, NicAssumption DEF Lined, Ring0
<1>6. Before(to) \in Ring0
  BY <1>5, OffsetEnds
<1>7. /\ nic' = [nic EXCEPT !.boundary = Before(to)]
      /\ drv' = [drv EXCEPT !.pc = "idle", !.next = to, !.page = 0]
      /\ unread' = Tail(unread)
      /\ nicmem' = [p \in Ring0 |-> IF Offset(p, unread[1].at) < unread[1].pages
                                    THEN NicEmpty ELSE nicmem[p]]
  BY <1>2, <1>3 DEF DrvRelease
<1> HIDE DEF to
<1>8. /\ nic' \in NicRegs /\ LineTrue(nic') /\ nic'.curpag = nic.curpag /\ nic'.boundary = Before(to)
  BY <1>1, <1>6, <1>7 DEF NicRegs, LineTrue
<1>9. /\ drv' \in NicDriver /\ drv'.next = to /\ drv'.pc = "idle" /\ drv'.torn = drv.torn
      /\ ~drv'.over
  BY <1>1, <1>5, <1>7 DEF NicDriver
<1>10. Lined(unread', drv'.next, nic'.curpag)
  BY <1>4, <1>7, <1>8, <1>9
<1>11. Stored(unread', nicmem')
  BY <1>2, <1>3, <1>7, TailStored
<1>12. Reading(drv', nic'.rsar, unread') /\ Placed(drv')
  BY <1>1, <1>9 DEF Reading, Placed
<1> QED
  BY <1>8, <1>9, <1>10, <1>11, <1>12 DEF NicInv

\* After an overrun it goes on to whatever page it read.
LEMMA ReleaseOver == ASSUME NicInv, drv.over, DrvRelease PROVE NicInv'
<1>1. /\ nic \in NicRegs /\ drv \in NicDriver /\ LineTrue(nic) /\ ~drv.torn /\ drv.page \in Ring0
      /\ nicmem = [p \in Ring0 |-> NicEmpty]
  BY DEF NicInv, Placed, DrvRelease
<1>2. Before(drv.page) \in Ring0
  BY <1>1, OffsetEnds
<1>3. nic' \in NicRegs /\ LineTrue(nic') /\ nic'.boundary = Before(drv.page) /\ nicmem' = nicmem
  BY <1>1, <1>2 DEF DrvRelease, NicRegs, LineTrue
<1>4. /\ drv' \in NicDriver /\ drv'.next = drv.page /\ drv'.pc = "idle" /\ drv'.torn = drv.torn
      /\ drv'.over
  BY <1>1 DEF DrvRelease, NicDriver
<1>5. Placed(drv')
  BY <1>1, <1>4 DEF Placed
<1> QED
  BY <1>1, <1>3, <1>4, <1>5 DEF NicInv

\* Every step of the card and of the driver keeps the ring.
LEMMA NicStepInv == NicInv /\ [NetNext]_nicVars => NicInv'
<1> SUFFICES ASSUME NicInv, [NetNext]_nicVars PROVE NicInv'
  OBVIOUS
<1>1. nic \in NicRegs /\ LineTrue(nic)
  BY DEF NicInv
<1>2. CASE UNCHANGED nicVars
  BY <1>1, <1>2, NicQuiet DEF nicVars
<1>3. ASSUME NEW kind \in {"mine", "broadcast", "multicast", "other"}, NEW pages \in 1 .. NicMaxPages,
             Receive(kind, pages)
      PROVE  NicInv'
  <2>1. CASE UNCHANGED <<nic, nicmem, drv, unread>>
    BY <1>1, <2>1, NicQuiet
  <2>2. CASE ~BufferFull(nic) /\ Deposit(pages)
    <3>1. CASE ~drv.over /\ nic.curpag # nic.boundary
      BY <2>2, <3>1, DepositKeeps
    <3>2. CASE drv.over \/ nic.curpag = nic.boundary
      BY <1>1, <2>2, <3>2, OverrunKeeps, RoundRing
    <3> QED
      BY <3>1, <3>2
  <2> QED
    BY <1>3, <2>1, <2>2 DEF Receive
<1>4. CASE StopChip
  <2>1. /\ nic' \in NicRegs /\ LineTrue(nic') /\ nic'.curpag = nic.curpag
        /\ nic'.boundary = nic.boundary /\ nic'.rsar = nic.rsar
    BY <1>1, <1>4 DEF StopChip, NicRegs, LineTrue
  <2> QED
    BY <1>4, <2>1, NicQuiet DEF StopChip
<1>5. CASE Transmit
  <2> DEFINE r1 == [nic EXCEPT !.isr = @ \cup {"tx"}]
  <2>1. r1 \in NicRegs /\ r1.curpag = nic.curpag /\ r1.boundary = nic.boundary /\ r1.rsar = nic.rsar
    BY <1>1 DEF NicRegs
  <2>2. nic' = NicUpdateIrq(r1) /\ UNCHANGED <<nicmem, drv, unread>>
    BY <1>5 DEF Transmit
  <2> HIDE DEF r1
  <2> QED
    BY <2>1, <2>2, NicUpdateTrue, NicQuiet
<1>6. ASSUME NEW bit \in {"rx", "tx", "rdc"}, AckIsr(bit) PROVE NicInv'
  <2> DEFINE r1 == [nic EXCEPT !.isr = @ \ {bit}]
  <2>1. r1 \in NicRegs /\ r1.curpag = nic.curpag /\ r1.boundary = nic.boundary /\ r1.rsar = nic.rsar
    BY <1>1 DEF NicRegs
  <2>2. nic' = NicUpdateIrq(r1) /\ UNCHANGED <<nicmem, drv, unread>>
    BY <1>6 DEF AckIsr
  <2> HIDE DEF r1
  <2> QED
    BY <2>1, <2>2, NicUpdateTrue, NicQuiet
<1>7. CASE ResetPort
  <2>1. /\ nic' \in NicRegs /\ nic'.curpag = nic.curpag /\ nic'.boundary = nic.boundary
        /\ nic'.rsar = nic.rsar /\ nic'.isr = {} /\ nic'.line = nic.line /\ nic'.stale = nic.line
    BY <1>1, <1>7 DEF ResetPort, NicRegs
  <2>2. LineTrue(nic')
    BY <1>1, <2>1 DEF LineTrue, NicRegs
  <2> QED
    BY <1>7, <2>1, <2>2, NicQuiet DEF ResetPort
<1> QED
  BY <1>2, <1>3, <1>4, <1>5, <1>6, <1>7, StartKeeps, PollKeeps, HeaderKeeps, HeaderOver, BodyKeeps,
     BodyOver, ReleaseKeeps, ReleaseOver
  DEF NetNext

\* What the property says follows from where the frames lie.
LEMMA NicInvSuffices == NicInv => RingIntact
<1> SUFFICES ASSUME NicInv, ~drv.over
             PROVE  RingIntact
  BY DEF NicInv, Placed, LineTrue, RingIntact
<1>1. Lined(unread, drv.next, nic.curpag) /\ Stored(unread, nicmem)
  BY DEF NicInv
<1>2. unread \in Seq(NicFrame) /\ drv.next \in Ring0 /\ nic.curpag \in Ring0
  BY <1>1 DEF Lined
<1>3. Len(unread) \in Nat /\ DOMAIN unread = 1 .. Len(unread)
  BY <1>2
<1>4. ASSUME NEW i \in 1 .. Len(unread)
      PROVE  /\ \A j \in 0 .. unread[i].pages - 1 :
                   /\ nicmem[Wrapped(unread[i].at + j)].id = unread[i].id
                   /\ nicmem[Wrapped(unread[i].at + j)].part = j
             /\ Wrapped(unread[i].at + unread[i].pages) =
                  IF i < Len(unread) THEN unread[i + 1].at ELSE nic.curpag
  <2> DEFINE a == unread[i].at
             n == unread[i].pages
  <2>1. unread[i] \in NicFrame
    BY <1>2
  <2>2. a \in Ring0 /\ n \in Nat \ {0}
    BY <2>1 DEF NicFrame
  <2>3. /\ Offset(a, drv.next) \in 0 .. (NicStop - NicStart) - 1
        /\ Offset(nic.curpag, drv.next) \in 0 .. (NicStop - NicStart) - 1
        /\ Offset(a, drv.next) + n <= Offset(nic.curpag, drv.next)
        /\ Offset(a, a) = 0
    BY <1>1, <1>2, <2>2, OffsetType, OffsetEnds DEF Lined
  <2>4. n < NicStop - NicStart /\ Offset(a, drv.next) + n < NicStop - NicStart
    BY <2>2, <2>3, NicAssumption
  <2>5. ASSUME NEW j \in 0 .. n - 1
        PROVE  nicmem[Wrapped(a + j)].id = unread[i].id /\ nicmem[Wrapped(a + j)].part = j
    <3>1. j \in Nat /\ j < n /\ Offset(a, a) + j < NicStop - NicStart
      BY <2>2, <2>3, <2>4, NicAssumption
    <3>2. Wrapped(a + j) \in Ring0 /\ Offset(Wrapped(a + j), a) = j
      BY <2>2, <2>3, <3>1, OffsetWrap
    <3>3. Holds(unread[i], Wrapped(a + j), nicmem[Wrapped(a + j)])
      BY <1>1, <3>1, <3>2 DEF Stored
    <3> QED
      BY <3>2, <3>3 DEF Holds
  <2>6. Wrapped(a + n) \in Ring0 /\ Offset(Wrapped(a + n), drv.next) = Offset(a, drv.next) + n
    BY <1>2, <2>2, <2>4, OffsetWrap
  <2>7. CASE i < Len(unread)
    <3>1. i \in 1 .. Len(unread) - 1 /\ i + 1 \in 1 .. Len(unread)
      BY <1>3, <2>7
    <3>2. unread[i + 1] \in NicFrame
      BY <1>2, <3>1
    <3>3. unread[i + 1].at \in Ring0
      BY <3>2 DEF NicFrame
    <3>4. Offset(a, drv.next) + n = Offset(unread[i + 1].at, drv.next)
      BY <1>1, <3>1 DEF Lined
    <3>5. Wrapped(a + n) = unread[i + 1].at
      BY <1>2, <2>6, <3>3, <3>4, OffsetSame
    <3> QED
      BY <2>5, <2>7, <3>5
  <2>8. CASE ~(i < Len(unread))
    <3>0. i = Len(unread) /\ i > 0
      <4>1. \A l \in Nat : \A x \in 1 .. l : ~(x < l) => x = l /\ x > 0
        OBVIOUS
      <4> QED
        BY <1>3, <2>8, <4>1, Zenon
    <3>1. i = Len(unread) /\ unread # << >>
      <4>1. Len(<< >>) = 0
        OBVIOUS
      <4> QED
        BY <3>0, <4>1
    <3>2. Offset(a, drv.next) + n = Offset(nic.curpag, drv.next)
      BY <1>1, <3>1 DEF Lined
    <3>3. Wrapped(a + n) = nic.curpag
      BY <1>2, <2>6, <3>2, OffsetSame
    <3> QED
      BY <2>5, <2>8, <3>3
  <2> QED
    BY <2>7, <2>8
<1>5. ~drv.torn /\ LineTrue(nic)
  BY DEF NicInv, Placed
<1> QED
  BY <1>3, <1>4, <1>5 DEF RingIntact, LineTrue

\* ne2000_receive, ne2000_buffer_full, ne2000_dma_update: whatever arrives while the driver is
\* busy, for every ring of two pages and more and every size of frames, the frames it has not
\* released lie whole and in order round the ring, and the line has a cause; until a frame is
\* accepted into a ring full to the very page of the boundary, which the code counts as empty.
THEOREM FramesStayWhole == NicSpec => []RingIntact
BY NicInitInv, NicStepInv, NicInvSuffices, PTL DEF NicSpec

-----------------------------------------------------------------------------
(***************************************************************************)
(* Quotients and remainders, for the timer and the sound card.             *)
(***************************************************************************)
\* Quotient and remainder.
LEMMA DivMod ==
  ASSUME NEW a \in Int, NEW b \in Nat \ {0}
  PROVE  a \div b \in Int /\ a % b \in 0 .. b - 1 /\ a = b * (a \div b) + (a % b)
BY SMT

\* They are the only such pair.
LEMMA DivUnique ==
  ASSUME NEW b \in Nat \ {0}, NEW q \in Int, NEW r \in 0 .. b - 1, NEW a \in Int, a = b * q + r
  PROVE  a \div b = q /\ a % b = r
<1> DEFINE p == a \div b
<1>1. p \in Int /\ a % b \in 0 .. b - 1 /\ a = b * p + (a % b)
  BY DivMod
<1> HIDE DEF p
<1>2. ASSUME p < q PROVE FALSE
  <2>1. p + 1 <= q /\ b * (p + 1) = b * p + b
    BY <1>1, <1>2, SMT
  <2>2. b * (p + 1) <= b * q
    BY <1>1, <2>1, SMT
  <2> QED
    BY <1>1, <2>1, <2>2, SMT
<1>3. ASSUME q < p PROVE FALSE
  <2>1. q + 1 <= p /\ b * (q + 1) = b * q + b
    BY <1>1, <1>3, SMT
  <2>2. b * (q + 1) <= b * p
    BY <1>1, <2>1, SMT
  <2> QED
    BY <1>1, <2>1, <2>2, SMT
<1>4. p = q
  BY <1>1, <1>2, <1>3
<1> QED
  BY <1>1, <1>4, SMT DEF p

\* The quotient of what is at most k divisors.
LEMMA QuotientBound ==
  ASSUME NEW n \in Nat \ {0}, NEW k \in Nat, NEW a \in 0 .. k * n
  PROVE  a \div n \in 0 .. k
<1> DEFINE q == a \div n
           r == a % n
<1>1. q \in Int /\ r \in 0 .. n - 1 /\ a = n * q + r /\ a \in Int
  BY DivMod
<1> HIDE DEF q, r
<1>2. ASSUME q < 0 PROVE FALSE
  <2>1. n * q <= n * (-1)
    BY <1>1, <1>2, SMT
  <2> QED
    BY <1>1, <2>1, SMT
<1>3. ASSUME q > k PROVE FALSE
  <2>1. n * q >= n * (k + 1) /\ n * (k + 1) = k * n + n
    BY <1>1, <1>3, SMT
  <2> QED
    BY <1>1, <2>1, SMT
<1>4. q \in 0 .. k
  BY <1>1, <1>2, <1>3
<1> QED
  BY <1>4 DEF q

\* A multiple of the modulus makes no difference.
LEMMA ModShift ==
  ASSUME NEW b \in Nat \ {0}, NEW k \in Int, NEW a \in Int
  PROVE  (a + b * k) % b = a % b
<1> DEFINE p == a \div b
           r == a % b
           e == a + b * k
<1>1. p \in Int /\ r \in 0 .. b - 1 /\ a = b * p + r
  BY DivMod
<1> HIDE DEF p, r
<1>2. e \in Int /\ p + k \in Int
  BY <1>1
<1>3. b * (p + k) = b * p + b * k
  BY <1>1, SMT
<1>4. e = b * (p + k) + r
  BY <1>1, <1>3, SMT
<1> HIDE DEF e
<1>5. e % b = r
  BY <1>1, <1>2, <1>4, DivUnique
<1> QED
  BY <1>5 DEF e, r

\* A remainder may be taken before adding.
LEMMA ModAdd ==
  ASSUME NEW b \in Nat \ {0}, NEW a \in Int, NEW n \in Int
  PROVE  ((a % b) + n) % b = (a + n) % b
<1> DEFINE p == a \div b
           r == a % b
<1>1. p \in Int /\ r \in Int /\ a = b * p + r
  BY DivMod
<1> HIDE DEF p, r
<1>2. ((r + n) + b * p) % b = (r + n) % b
  <2>1. r + n \in Int
    BY <1>1
  <2> QED
    BY <1>1, <2>1, ModShift
<1>3. (r + n) + b * p = a + n
  BY <1>1, SMT
<1> QED
  BY <1>2, <1>3 DEF r

\* Of the remainder by a common multiple.
LEMMA ModMul ==
  ASSUME NEW b \in Nat \ {0}, NEW l \in Nat \ {0}, NEW a \in Int
  PROVE  /\ (a % (b * l)) % b = a % b
         /\ (a % (b * l)) % l = a % l
<1> DEFINE m == b * l
<1>1. m \in Nat \ {0}
  OBVIOUS
<1> DEFINE p == a \div m
           r == a % m
<1>2. p \in Int /\ r \in Int /\ a = m * p + r
  <2> HIDE DEF m
  <2> QED
    BY <1>1, DivMod
<1> HIDE DEF p, r
<1>3. m * p = b * (l * p) /\ m * p = l * (b * p) /\ l * p \in Int /\ b * p \in Int
  BY <1>2, SMT
<1>4. (r + b * (l * p)) % b = r % b
  BY <1>2, <1>3, ModShift
<1>5. (r + l * (b * p)) % l = r % l
  BY <1>2, <1>3, ModShift
<1>6. a = r + b * (l * p) /\ a = r + l * (b * p)
  <2> HIDE DEF m
  <2> QED
    BY <1>2, <1>3
<1> QED
  BY <1>4, <1>5, <1>6 DEF r, m

\* What becomes of a number that is reduced.
LEMMA ModType ==
  ASSUME NEW a \in Int, NEW b \in Nat \ {0}
  PROVE  a % b \in Nat /\ a % b < b
BY DivMod

\* A product of numbers that grow.
LEMMA ProductMonotone ==
  ASSUME NEW a \in Int, NEW b \in Int, NEW k \in Nat, a <= b
  PROVE  a * k <= b * k
BY SMT

\* A quotient and what it is the quotient of.
LEMMA QuotientLess ==
  ASSUME NEW n \in Nat \ {0}, NEW a \in Nat, NEW k \in Int
  PROVE  /\ a \div n \in Nat /\ (a \div n) * n <= a /\ a < ((a \div n) + 1) * n
         /\ a < k * n <=> a \div n < k
<1> DEFINE q == a \div n
           r == a % n
<1>1. q \in Int /\ r \in 0 .. n - 1 /\ a = n * q + r
  BY DivMod
<1>2. a \in 0 .. a * n
  BY SMT
<1>3. q \in 0 .. a
  BY <1>2, QuotientBound
<1> HIDE DEF q, r
<1>4. q \in Nat /\ n * q = q * n /\ (q + 1) * n = q * n + n
  BY <1>1, <1>3, SMT
<1>5. q * n <= a /\ a < (q + 1) * n
  BY <1>1, <1>4
<1>6. ASSUME a < k * n, k <= q PROVE FALSE
  <2>1. k * n <= q * n
    BY <1>4, <1>6, ProductMonotone
  <2>2. k * n \in Int /\ q * n \in Int
    BY <1>4
  <2> QED
    BY <1>5, <1>6, <2>1, <2>2
<1>7. ASSUME q < k, k * n <= a PROVE FALSE
  <2>1. q + 1 <= k /\ q + 1 \in Int
    BY <1>4, <1>7
  <2>2. (q + 1) * n <= k * n
    BY <2>1, ProductMonotone
  <2>3. k * n \in Int /\ (q + 1) * n \in Int
    BY <1>4
  <2> QED
    BY <1>5, <1>7, <2>2, <2>3
<1>8. a < k * n <=> q < k
  BY <1>4, <1>6, <1>7
<1> QED
  BY <1>4, <1>5, <1>8 DEF q

-----------------------------------------------------------------------------
(***************************************************************************)
(* The interval timer and the speaker, whatever the guest programs and     *)
(* whenever channel 0 is polled.                                           *)
(***************************************************************************)
\* A channel.
PitChan ==
  [count : 1 .. MaxCount, age : Nat, last : Nat, mode : 0 .. 5, gate : BOOLEAN,
   rw_mode : Nat, read_state : Nat, write_state : Nat, write_latch : 0 .. Byte - 1,
   latched_count : Nat, count_latched : Nat, status_latched : BOOLEAN,
   status : BOOLEAN, clean : BOOLEAN]

\* Counts since the load: what the code computes is never ahead of the real ones, and is
\* equal to them until they wrap.
LEMMA ElapsedFacts ==
  ASSUME NEW s, s.age \in Nat
  PROVE  /\ Elapsed(s) \in Nat /\ TrueElapsed(s) \in Nat /\ Elapsed(s) <= TrueElapsed(s)
         /\ s.age * FreqNum < Wrap * FreqDen => Elapsed(s) = TrueElapsed(s) /\ s.age % Wrap = s.age
<1> DEFINE g == s.age
           h == g % Wrap
           x == h * FreqNum
           y == g * FreqNum
           p == x \div FreqDen
           q == y \div FreqDen
<1>0. g \in Nat /\ g \in Int /\ Wrap \in Nat \ {0} /\ FreqDen \in Nat \ {0} /\ FreqNum \in Nat /\ FreqNum >= FreqDen
  BY PitAssumption
<1>1. Elapsed(s) = p % Wrap /\ TrueElapsed(s) = q
  BY DEF Elapsed, TrueElapsed
<1> HIDE DEF g
<1>2. h \in 0 .. Wrap - 1
  BY <1>0, DivMod
<1>3. h <= g
  BY <1>0, SMT
<1> HIDE DEF h
<1>4. x \in Nat /\ y \in Nat
  BY <1>0, <1>2
<1>5. x <= y
  BY <1>0, <1>2, <1>3, ProductMonotone
<1> HIDE DEF x, y
<1>6. p \in Nat /\ q \in Nat /\ p * FreqDen <= x /\ y < (q + 1) * FreqDen
  BY <1>0, <1>4, QuotientLess
<1>7. p <= q
  <2>1. q + 1 \in Int /\ (q + 1) * FreqDen \in Int
    BY <1>0, <1>6
  <2>2. x < (q + 1) * FreqDen
    BY <1>4, <1>5, <1>6, <2>1
  <2>3. x \div FreqDen < q + 1
    BY <1>0, <1>4, <2>1, <2>2, QuotientLess
  <2> QED
    BY <1>6, <2>3
<1> HIDE DEF p, q
<1>8. p % Wrap \in 0 .. Wrap - 1 /\ p % Wrap <= p
  BY <1>0, <1>6, SMT
<1>9. ASSUME y < Wrap * FreqDen
      PROVE  p % Wrap = q /\ h = g
  <2>1. g < Wrap
    <3>1. g * FreqDen <= y
      <4>1. g * FreqDen = FreqDen * g /\ g * FreqNum = FreqNum * g
        BY <1>0, SMT
      <4>2. FreqDen * g <= FreqNum * g
        BY <1>0, ProductMonotone
      <4> QED
        BY <4>1, <4>2 DEF y
    <3>2. ASSUME Wrap <= g PROVE FALSE
      <4>1. Wrap * FreqDen <= g * FreqDen
        BY <1>0, <3>2, ProductMonotone
      <4>2. Wrap * FreqDen \in Int /\ g * FreqDen \in Int
        BY <1>0
      <4> QED
        BY <1>4, <1>9, <3>1, <4>1, <4>2
    <3> QED
      BY <1>0, <3>2
  <2>2. h = g
    BY <1>0, <2>1, SMT DEF h
  <2>3. p = q
    BY <2>2 DEF p, q, x, y
  <2>4. q < Wrap
    BY <1>0, <1>4, <1>9, QuotientLess DEF q
  <2>5. p % Wrap = p
    BY <1>0, <1>6, <2>3, <2>4, SMT
  <2> QED
    BY <2>2, <2>3, <2>5
<1> QED
  BY <1>0, <1>1, <1>6, <1>7, <1>8, <1>9 DEF g, h, y

\* pit_get_count and pit_get_out compute numbers and levels.
LEMMA ReadTypes ==
  ASSUME NEW s \in PitChan
  PROVE  PitGetCount(s) \in Int /\ PitGetOut(s) \in BOOLEAN
<1> DEFINE d == Elapsed(s)
           n == s.count
<1>0. n \in Nat \ {0} /\ s.age \in Nat /\ MaxCount \in Nat \ {0} /\ Wrap \in Nat \ {0}
  BY PitAssumption DEF PitChan, MaxCount
<1>1. d \in Nat /\ 2 * d \in Int /\ n - d \in Int
  BY <1>0, ElapsedFacts
<1> DEFINE a == (n - d) % MaxCount
           e == (2 * d) % Wrap
           b == e % n
           c == d % n
<1>2. PitGetCount(s) = CASE s.mode \in {0, 1, 4, 5} -> a [] s.mode = 3 -> n - b [] OTHER -> n - c
  BY DEF PitGetCount
<1>3. PitGetOut(s) =
        CASE s.mode = 1 -> d < n
          [] s.mode = 2 -> c = 0 /\ d # 0
          [] s.mode = 3 -> c < (n + 1) \div 2
          [] s.mode \in {4, 5} -> d = n
          [] OTHER -> d >= n
  BY DEF PitGetOut
<1> HIDE DEF d, n
<1>4. a \in Int /\ e \in Int /\ c \in Int
  BY <1>0, <1>1, ModType
<1>5. b \in Int
  <2> HIDE DEF e
  <2> QED
    BY <1>0, <1>4, ModType
<1> HIDE DEF a, b, c, e
<1>6. PitGetCount(s) \in Int
  BY <1>0, <1>2, <1>4, <1>5
<1>7. PitGetOut(s) \in BOOLEAN
  <2>1. CASE s.mode = 1
    <3>1. PitGetOut(s) = (d < n)
      BY <1>3, <2>1
    <3> QED
      BY <3>1
  <2>2. CASE s.mode = 2
    <3>1. PitGetOut(s) = (c = 0 /\ d # 0)
      BY <1>3, <2>2
    <3> QED
      BY <3>1
  <2>3. CASE s.mode = 3
    <3>1. PitGetOut(s) = (c < (n + 1) \div 2)
      BY <1>3, <2>3
    <3> QED
      BY <3>1
  <2>4. CASE s.mode \in {4, 5}
    <3>1. PitGetOut(s) = (d = n)
      BY <1>3, <2>4
    <3> QED
      BY <3>1
  <2>5. CASE s.mode = 0
    <3>1. PitGetOut(s) = (d >= n)
      BY <1>3, <2>5
    <3> QED
      BY <3>1
  <2>6. s.mode \in 0 .. 5
    BY DEF PitChan
  <2> QED
    BY <2>1, <2>2, <2>3, <2>4, <2>5, <2>6
<1> QED
  BY <1>6, <1>7

\* The channel's clock as i8254_update_irq reads it.  Periodic: the interrupts given so far
\* are whole periods, none too many, the last of them lies in the first half of the clock's
\* range, and less than a period had gone by since when the channel was last polled.
PitTimed(s, since_, shots_) ==
  s.clean =>
    /\ s.mode \in Periodic =>
         /\ s.last % s.count = 0
         /\ s.last <= TrueElapsed(s)
         /\ s.last * FreqDen <= (Wrap \div 2) * FreqNum
         /\ s.age * FreqNum < (s.last + s.count) * FreqDen + since_ * FreqNum
    /\ s.mode \notin Periodic =>
         /\ shots_ = (IF s.last = 0 THEN 0 ELSE 1)
         /\ s.last # 0 => TrueElapsed(s) >= s.count

\* pit_load_count.
LEMMA LoadTimed ==
  ASSUME NEW s \in PitChan, NEW val \in 0 .. MaxCount, NEW t \in Nat
  PROVE  LET v == PitLoadCount(s, val) IN
         /\ v \in PitChan /\ v.mode = s.mode /\ v.count \in 1 .. MaxCount /\ v.age = 0 /\ v.last = 0 /\ v.clean
         /\ v.write_state = s.write_state
         /\ val # 0 => v.count = val
<1> DEFINE n == IF val = 0 THEN MaxCount ELSE val
           nil == 0
           yes == TRUE
           v == [s EXCEPT !.count = n, !.age = nil, !.last = nil, !.clean = yes]
<1>1. MaxCount \in Nat \ {0}
  BY PitAssumption DEF MaxCount
<1>2. n \in 1 .. MaxCount /\ (val # 0 => n = val) /\ nil \in Nat /\ yes \in BOOLEAN
  BY <1>1
<1>3. PitLoadCount(s, val) = v
  BY DEF PitLoadCount
<1> HIDE DEF n, nil, yes
<1>4. v \in PitChan /\ v.mode = s.mode /\ v.count = n /\ v.age = nil /\ v.last = nil /\ v.clean = yes
      /\ v.write_state = s.write_state
  BY <1>2 DEF PitChan
<1> HIDE DEF v
<1> QED
  BY <1>2, <1>3, <1>4 DEF nil, yes

\* A count that has just been loaded.
LEMMA FreshTimed ==
  ASSUME NEW s \in PitChan, s.age = 0, s.last = 0, NEW t \in Nat
  PROVE  PitTimed(s, t, 0)
<1> DEFINE n == s.count
           nil == 0
           half == Wrap \div 2
<1>0. n \in Nat \ {0} /\ FreqDen \in Nat \ {0} /\ FreqNum \in Nat /\ Wrap \in Nat \ {0} /\ half \in Nat
  BY PitAssumption DEF PitChan, MaxCount
<1>1. TrueElapsed(s) \in Nat
  BY ElapsedFacts
<1>2. nil % n = 0 /\ nil <= TrueElapsed(s)
  BY <1>0, <1>1
<1> HIDE DEF n, half
<1>3. half * FreqNum \in Nat /\ t * FreqNum \in Nat /\ nil * FreqDen = 0 /\ nil * FreqNum = 0
  BY <1>0
<1>4. (nil + n) * FreqDen \in Nat \ {0}
  BY <1>0, SMT
<1> DEFINE x == (nil + n) * FreqDen
           y == t * FreqNum
           z == half * FreqNum
<1>5. x \in Nat \ {0} /\ y \in Nat /\ z \in Nat
  BY <1>3, <1>4
<1>6. nil * FreqNum < x + y /\ nil * FreqDen <= z
  <2> HIDE DEF x, y, z
  <2> QED
    BY <1>3, <1>5
<1>7. s.last = nil /\ s.age = nil
  OBVIOUS
<1>8. s.last % n = 0 /\ s.last <= TrueElapsed(s) /\ s.last * FreqDen <= half * FreqNum
      /\ s.age * FreqNum < (s.last + n) * FreqDen + t * FreqNum
  <2> HIDE DEF nil
  <2> QED
    BY <1>2, <1>6, <1>7
<1> QED
  BY <1>8 DEF PitTimed, n, half

\* A periodic channel's load is redone before the clock comes round.
LEMMA NoWrap ==
  ASSUME NEW s \in PitChan, NEW t \in 0 .. MaxGap, NEW sh, PitTimed(s, t, sh), s.clean, s.mode \in Periodic
  PROVE  s.age * FreqNum < Wrap * FreqDen
<1> DEFINE half == Wrap \div 2
           a == s.age * FreqNum
           l == s.last * FreqDen
           n == s.count * FreqDen
           u == t * FreqNum
           h == half * FreqNum
           m == MaxCount * FreqDen
           g == MaxGap * FreqNum
           w == Wrap * FreqDen
<1>0. s.age \in Nat /\ s.last \in Nat /\ s.count \in 1 .. MaxCount /\ MaxCount \in Nat
      /\ FreqDen \in Nat /\ FreqNum \in Nat /\ Wrap \in Nat /\ half \in Nat /\ MaxGap \in Nat
  BY PitAssumption DEF PitChan, MaxCount
<1>1. l <= h /\ a < (s.last + s.count) * FreqDen + u
  BY DEF PitTimed
<1>2. h + m + g <= w
  BY PitAssumption DEF MaxCount
<1>3. n <= m /\ u <= g
  BY <1>0, ProductMonotone
<1>4. (s.last + s.count) * FreqDen = l + n
  <2> DEFINE x == s.last
             y == s.count
  <2>1. x \in Nat /\ y \in Nat
    BY <1>0
  <2> HIDE DEF x, y
  <2>2. (x + y) * FreqDen = x * FreqDen + y * FreqDen
    BY <1>0, <2>1, SMT
  <2> QED
    BY <2>2 DEF x, y
<1>5. a \in Nat /\ l \in Nat /\ n \in Nat /\ u \in Nat /\ h \in Nat /\ m \in Nat /\ g \in Nat /\ w \in Nat
  BY <1>0
<1> HIDE DEF a, l, n, u, h, m, g, w
<1>6. a < w
  BY <1>1, <1>2, <1>3, <1>4, <1>5
<1> QED
  BY <1>6 DEF a, w

\* Multiples of n up to E.
LEMMA WholePeriods ==
  ASSUME NEW n \in Nat \ {0}, NEW e \in Nat, NEW l \in Nat, l % n = 0, l <= e
  PROVE  LET due == e - (e % n) IN
         /\ due \in Nat /\ due % n = 0 /\ due <= e /\ e < due + n
         /\ l <= due /\ (due - l < n => due = l)
<1> DEFINE r == e % n
           q == e \div n
           a == l \div n
           due == e - r
<1>1. q \in Int /\ r \in 0 .. n - 1 /\ e = n * q + r /\ e \in Int
  BY DivMod
<1>2. a \in Int /\ l = n * a + (l % n) /\ l \in Int
  BY DivMod
<1>3. l = n * a
  BY <1>2
<1> HIDE DEF r, q, a
<1>4. due = n * q /\ due \in Int /\ due <= e /\ e < due + n
  BY <1>1
<1>5. a <= q
  <2>1. ASSUME q + 1 <= a PROVE FALSE
    <3>1. (q + 1) * n <= a * n
      BY <1>1, <1>2, <2>1, ProductMonotone
    <3>2. (q + 1) * n = n * q + n /\ a * n = n * a
      BY <1>1, <1>2, SMT
    <3> QED
      BY <1>1, <1>2, <1>3, <1>4, <3>1, <3>2
  <2> QED
    BY <1>1, <1>2, <2>1
<1>6. n * a <= n * q
  BY <1>1, <1>2, <1>5, SMT
<1>7. due \in Nat /\ l <= due
  BY <1>2, <1>3, <1>4, <1>6
<1>8. due % n = 0
  <2>1. due = n * q + 0 /\ 0 \in 0 .. n - 1
    BY <1>1, <1>4
  <2> HIDE DEF due
  <2> QED
    BY <1>1, <1>4, <2>1, DivUnique
<1>9. ASSUME due - l < n PROVE due = l
  <2>1. n * q < n * a + n
    BY <1>2, <1>3, <1>4, <1>9
  <2>2. ASSUME a + 1 <= q PROVE FALSE
    <3>1. (a + 1) * n <= q * n
      BY <1>1, <1>2, <2>2, ProductMonotone
    <3>2. (a + 1) * n = n * a + n /\ q * n = n * q
      BY <1>1, <1>2, SMT
    <3>3. n * a \in Int /\ n * q \in Int
      BY <1>1, <1>2
    <3> QED
      BY <2>1, <3>1, <3>2, <3>3
  <2>3. a = q
    BY <1>1, <1>2, <1>5, <2>2
  <2> QED
    BY <1>3, <1>4, <2>3
<1> QED
  BY <1>4, <1>7, <1>8, <1>9 DEF r

\* i8254_update_irq: what it leaves of the channel, and of the interrupts counted.
LEMMA FiredType ==
  ASSUME NEW s \in PitChan
  PROVE  LET v == PitFired(s) IN
         /\ v \in PitChan /\ v.mode = s.mode /\ v.clean = s.clean /\ v.count = s.count
         /\ s.mode \notin Periodic => v.last = s.count /\ v.age = s.age
         /\ s.mode \in Periodic =>
              \/ s.age % Wrap > Wrap \div 2 /\ v.age = 0 /\ v.last = 0
              \/ /\ ~(s.age % Wrap > Wrap \div 2)
                 /\ v.age = s.age /\ v.last = Elapsed(s) - (Elapsed(s) % s.count)
<1> DEFINE due == Elapsed(s) - (Elapsed(s) % s.count)
           v == PitFired(s)
<1>0. s.count \in 1 .. MaxCount /\ s.count \in Nat \ {0} /\ MaxCount \in Nat /\ s.age \in Nat
  BY PitAssumption DEF PitChan, MaxCount
<1>1. due \in Nat
  <2> DEFINE e == Elapsed(s)
             n == s.count
  <2>1. e \in Nat /\ n \in Nat \ {0}
    BY <1>0, ElapsedFacts
  <2> HIDE DEF e, n
  <2>2. 0 \in Nat /\ 0 % n = 0 /\ 0 <= e
    BY <2>1
  <2>3. e - (e % n) \in Nat
    BY <2>1, <2>2, WholePeriods
  <2> QED
    BY <2>3 DEF e, n
<1>2. CASE s.mode \notin Periodic
  <2>1. v = [s EXCEPT !.last = s.count]
    BY <1>2 DEF PitFired
  <2> QED
    BY <1>0, <1>2, <2>1 DEF PitChan
<1>3. CASE s.mode \in Periodic /\ s.age % Wrap > Wrap \div 2
  <2> DEFINE x == PitLoadCount(s, s.count)
             k == s.clean
  <2>1. v = [x EXCEPT !.clean = k]
    BY <1>3 DEF PitFired
  <2>2. s.count \in 0 .. MaxCount /\ s.count # 0
    BY <1>0
  <2>3. x \in PitChan /\ x.mode = s.mode /\ x.age = 0 /\ x.last = 0 /\ x.count = s.count
    BY <2>2, LoadTimed
  <2>4. k \in BOOLEAN
    BY DEF PitChan
  <2> HIDE DEF x, k
  <2>5. v \in PitChan /\ v.mode = x.mode /\ v.clean = k /\ v.count = x.count /\ v.age = x.age /\ v.last = x.last
    BY <2>1, <2>3, <2>4 DEF PitChan
  <2> QED
    BY <1>3, <2>3, <2>5 DEF k
<1>4. CASE s.mode \in Periodic /\ ~(s.age % Wrap > Wrap \div 2)
  <2>1. v = [s EXCEPT !.last = due]
    BY <1>4 DEF PitFired
  <2> HIDE DEF due
  <2>2. v \in PitChan /\ v.mode = s.mode /\ v.clean = s.clean /\ v.count = s.count /\ v.age = s.age /\ v.last = due
    BY <1>1, <2>1 DEF PitChan
  <2> QED
    BY <1>4, <2>2 DEF due
<1> QED
  BY <1>2, <1>3, <1>4

\* i8254_update_irq on a channel whose count was loaded after its control word: nothing that
\* is due is left, and nothing is given early or twice.
LEMMA PollTimed ==
  ASSUME NEW s \in PitChan, NEW t \in 0 .. MaxGap, NEW sh \in 0 .. 2, PitTimed(s, t, sh)
  PROVE  LET v == IF PitFires(s) THEN PitFired(s) ELSE s
             k == IF PitFires(s) /\ sh < 2 THEN sh + 1 ELSE sh
         IN  v \in PitChan /\ k \in 0 .. 2 /\ PitTimed(v, 0, k)
<1> DEFINE v == IF PitFires(s) THEN PitFired(s) ELSE s
           k == IF PitFires(s) /\ sh < 2 THEN sh + 1 ELSE sh
           n == s.count
           e == Elapsed(s)
           due == e - (e % n)
<1>0. /\ s.age \in Nat /\ s.last \in Nat /\ n \in Nat \ {0} /\ FreqDen \in Nat \ {0} /\ FreqNum \in Nat
      /\ Wrap \in Nat \ {0} /\ e \in Nat /\ TrueElapsed(s) \in Nat /\ e <= TrueElapsed(s)
  BY PitAssumption, ElapsedFacts DEF PitChan, MaxCount
<1>1. v \in PitChan /\ k \in 0 .. 2 /\ v.clean = s.clean /\ v.mode = s.mode /\ v.count = s.count
  BY FiredType
<1>2. ASSUME s.clean, s.mode \notin Periodic
      PROVE  PitTimed(v, 0, k)
  <2>1. PitFires(s) <=> s.last = 0 /\ e >= n
    BY <1>2 DEF PitFires
  <2>2. PitFires(s) => v.last = n /\ v.age = s.age
    BY <1>2, FiredType
  <2>3. sh = (IF s.last = 0 THEN 0 ELSE 1) /\ (s.last # 0 => TrueElapsed(s) >= n)
    BY <1>2 DEF PitTimed
  <2>4. v.age = s.age
    BY <2>2
  <2>5. TrueElapsed(v) = TrueElapsed(s)
    BY <2>4 DEF TrueElapsed
  <2>6. CASE PitFires(s)
    <3>1. v.last = n /\ sh = 0 /\ k = 1 /\ TrueElapsed(s) >= n
      BY <1>0, <2>1, <2>2, <2>3, <2>6
    <3> HIDE DEF v, k
    <3> QED
      BY <1>0, <1>1, <1>2, <2>5, <3>1 DEF PitTimed
  <2>7. CASE ~PitFires(s)
    <3>1. v = s /\ k = sh
      BY <2>7
    <3> HIDE DEF v, k
    <3> QED
      BY <1>2, <2>3, <3>1 DEF PitTimed
  <2> QED
    BY <2>6, <2>7
<1>3. ASSUME s.clean, s.mode \in Periodic
      PROVE  PitTimed(v, 0, k)
  <2>1. s.age * FreqNum < Wrap * FreqDen
    BY <1>3, NoWrap
  <2>2. e = TrueElapsed(s) /\ s.age % Wrap = s.age
    BY <1>0, <2>1, ElapsedFacts
  <2> DEFINE l == s.last
             g == s.age
             y == g * FreqNum
  <2>3. l % n = 0 /\ l <= e /\ l * FreqDen <= (Wrap \div 2) * FreqNum /\ l \in Nat /\ g \in Nat /\ y \in Nat
    BY <1>0, <1>3, <2>2 DEF PitTimed
  <2>4. e = y \div FreqDen
    BY <2>2 DEF TrueElapsed
  <2>5. PitFires(s) <=> (due - l) % Wrap >= n
    BY <1>3 DEF PitFires, Pending
  <2>6. PitFires(s) =>
              \/ g > Wrap \div 2 /\ v.age = 0 /\ v.last = 0
              \/ ~(g > Wrap \div 2) /\ v.age = g /\ v.last = due
    BY <1>3, <2>2, FiredType
  <2>7. ~PitFires(s) => v.age = g /\ v.last = l
    OBVIOUS
  <2> HIDE DEF y, l
  <2>8. e * FreqDen <= y /\ y < (e + 1) * FreqDen /\ e < Wrap
    <3>1. y < Wrap * FreqDen /\ Wrap \in Int /\ y \in Nat /\ FreqDen \in Nat \ {0}
      BY <1>0, <2>1, <2>3 DEF y
    <3>2. /\ (y \div FreqDen) * FreqDen <= y /\ y < ((y \div FreqDen) + 1) * FreqDen
          /\ y < Wrap * FreqDen <=> y \div FreqDen < Wrap
      BY <3>1, QuotientLess, Zenon
    <3> QED
      BY <2>4, <3>1, <3>2, Zenon
  <2> HIDE DEF n, e
  <2>9. /\ due \in Nat /\ due % n = 0 /\ due <= e /\ e < due + n
        /\ l <= due /\ (due - l < n => due = l)
    BY <1>0, <2>3, WholePeriods
  <2> HIDE DEF due
  <2>10. (due - l) % Wrap = due - l
    BY <1>0, <2>3, <2>8, <2>9
  <2>11. ~PitFires(s) => due = l
    BY <1>0, <2>3, <2>5, <2>9, <2>10
  <2>12. y < (due + n) * FreqDen
    <3>1. (e + 1) * FreqDen <= (due + n) * FreqDen
      BY <1>0, <2>9, ProductMonotone
    <3>2. (e + 1) * FreqDen \in Int /\ (due + n) * FreqDen \in Int
      BY <1>0, <2>9
    <3> QED
      BY <2>3, <2>8, <3>1, <3>2
  <2>13. ~(g > Wrap \div 2) => due * FreqDen <= (Wrap \div 2) * FreqNum
    <3> DEFINE half == Wrap \div 2
    <3>1. half \in Nat
      BY <1>0
    <3> HIDE DEF half
    <3>2. ASSUME ~(g > half) PROVE due * FreqDen <= half * FreqNum
      <4>1. due * FreqDen <= e * FreqDen
        BY <1>0, <2>9, ProductMonotone
      <4>2. y <= half * FreqNum
        BY <1>0, <2>3, <3>1, <3>2, ProductMonotone DEF y
      <4>3. due * FreqDen \in Int /\ e * FreqDen \in Int /\ half * FreqNum \in Int
        BY <1>0, <2>9, <3>1
      <4> QED
        BY <2>3, <2>8, <4>1, <4>2, <4>3
    <3> QED
      BY <3>2 DEF half
  <2>14. CASE PitFires(s) /\ g > Wrap \div 2
    <3>1. v.age = 0 /\ v.last = 0 /\ v.mode \in Periodic
      BY <1>1, <1>3, <2>6, <2>14
    <3> HIDE DEF v, k
    <3>2. PitTimed(v, 0, 0)
      BY <1>1, <3>1, FreshTimed
    <3> QED
      BY <1>1, <3>1, <3>2 DEF PitTimed
  <2>15. CASE ~(PitFires(s) /\ g > Wrap \div 2)
    <3>1. v.age = g /\ v.last = due
      BY <2>6, <2>7, <2>11, <2>15
    <3>2. due * FreqDen <= (Wrap \div 2) * FreqNum
      BY <2>3, <2>6, <2>11, <2>13, <2>15
    <3>3. TrueElapsed(v) = e
      BY <2>2, <3>1 DEF TrueElapsed
    <3> HIDE DEF v, k
    <3>4. (v.last + v.count) * FreqDen + 0 * FreqNum = (due + n) * FreqDen
      <4>1. (due + n) * FreqDen \in Int /\ 0 * FreqNum = 0 /\ v.last + v.count = due + n
        BY <1>0, <1>1, <2>9, <3>1 DEF n
      <4> QED
        BY <4>1
    <3>5. v.age * FreqNum < (v.last + v.count) * FreqDen + 0 * FreqNum
      BY <2>12, <3>1, <3>4 DEF y
    <3>6. v.last % v.count = 0 /\ v.last <= TrueElapsed(v)
      BY <1>1, <2>9, <3>1, <3>3 DEF n
    <3> QED
      BY <1>1, <1>3, <3>1, <3>2, <3>5, <3>6 DEF PitTimed
  <2> QED
    BY <2>14, <2>15
<1>4. ASSUME ~s.clean PROVE PitTimed(v, 0, k)
  BY <1>1, <1>4 DEF PitTimed
<1> HIDE DEF v, k
<1>5. PitTimed(v, 0, k)
  BY <1>2, <1>3, <1>4
<1> QED
  BY <1>1, <1>5 DEF v, k

\* get_uticks goes on: the age with it, until the bound.
LEMMA AgeTimed ==
  ASSUME NEW s \in PitChan, NEW t \in Nat, NEW sh, PitTimed(s, t, sh),
         NEW v \in PitChan, v.count = s.count, v.last = s.last, v.mode = s.mode, v.clean = s.clean,
         v.age = s.age \/ v.age = s.age + 1
  PROVE  PitTimed(v, t + 1, sh)
<1> DEFINE g == s.age
           h == v.age
           a == g * FreqNum
           b == h * FreqNum
           c == t * FreqNum
           d == (t + 1) * FreqNum
           x == (s.last + s.count) * FreqDen
<1>0. /\ g \in Nat /\ h \in Nat /\ h <= g + 1 /\ g <= h /\ s.last \in Nat /\ s.count \in Nat
      /\ FreqDen \in Nat \ {0} /\ FreqNum \in Nat
  BY PitAssumption DEF PitChan, MaxCount
<1>1. TrueElapsed(s) = a \div FreqDen /\ TrueElapsed(v) = b \div FreqDen
  BY DEF TrueElapsed
<1>2. a \in Nat /\ b \in Nat /\ c \in Nat /\ x \in Nat
  BY <1>0
<1> HIDE DEF g, h
<1>3. a <= b /\ b <= a + FreqNum /\ d = c + FreqNum
  <2>1. a <= b
    BY <1>0, ProductMonotone
  <2>2. h * FreqNum <= (g + 1) * FreqNum
    BY <1>0, ProductMonotone
  <2>3. (g + 1) * FreqNum = g * FreqNum + FreqNum /\ (t + 1) * FreqNum = t * FreqNum + FreqNum
    BY <1>0, SMT
  <2> QED
    BY <2>1, <2>2, <2>3
<1>4. a < x + c => b < x + d
  <2> HIDE DEF a, b, c, d, x
  <2> QED
    BY <1>0, <1>2, <1>3
<1>5. TrueElapsed(s) <= TrueElapsed(v) /\ TrueElapsed(s) \in Nat /\ TrueElapsed(v) \in Nat
  <2> HIDE DEF a, b
  <2> DEFINE p == a \div FreqDen
             q == b \div FreqDen
  <2>1. p \in Nat /\ q \in Nat /\ b < (q + 1) * FreqDen
    BY <1>0, <1>2, QuotientLess
  <2>2. q + 1 \in Int /\ (q + 1) * FreqDen \in Int
    BY <1>0, <2>1
  <2>3. a < (q + 1) * FreqDen
    BY <1>2, <1>3, <2>1, <2>2
  <2>4. p < q + 1
    BY <1>0, <1>2, <2>2, <2>3, QuotientLess
  <2> QED
    BY <1>1, <2>1, <2>4
<1>6. ASSUME s.clean, s.mode \in Periodic PROVE PitTimed(v, t + 1, sh)
  <2>1. /\ s.last % s.count = 0 /\ s.last <= TrueElapsed(s)
        /\ s.last * FreqDen <= (Wrap \div 2) * FreqNum /\ a < x + c
    BY <1>6 DEF PitTimed, g
  <2>2. b < x + d /\ s.last <= TrueElapsed(v)
    BY <1>0, <1>4, <1>5, <2>1
  <2> QED
    BY <1>6, <2>1, <2>2 DEF PitTimed, h
<1>7. ASSUME s.clean, s.mode \notin Periodic PROVE PitTimed(v, t + 1, sh)
  <2>1. sh = (IF s.last = 0 THEN 0 ELSE 1) /\ (s.last # 0 => TrueElapsed(v) >= s.count)
    BY <1>0, <1>5, <1>7 DEF PitTimed
  <2> QED
    BY <1>7, <2>1 DEF PitTimed
<1>8. ASSUME ~s.clean PROVE PitTimed(v, t + 1, sh)
  BY <1>8 DEF PitTimed
<1> QED
  BY <1>6, <1>7, <1>8

\* The speaker, and that its next sample lies in the wave.
Speakers == [data_on : BOOLEAN, active_out : BOOLEAN, pit_count : Nat, samples : 0 .. SpkBuf, play_pos : Nat]

SpkInWave(p) == p \in Speakers /\ (p.play_pos < p.samples \/ p.play_pos = 0)

\* The invariant of the timer and the speaker.
PitInv ==
  /\ ch \in [PitChannels -> PitChan] /\ since \in 0 .. MaxGap /\ shots \in 0 .. 2
  /\ PitTimed(ch[0], since, shots)
  /\ SpkInWave(spk)

\* What the timing of a channel depends on.
LEMMA TimedSame ==
  ASSUME NEW s, NEW v, NEW t, NEW sh, PitTimed(s, t, sh),
         v.count = s.count, v.age = s.age, v.last = s.last, v.mode = s.mode, v.clean = s.clean
  PROVE  PitTimed(v, t, sh)
BY DEF PitTimed, TrueElapsed

\* A control word: until the next count, nothing is promised.
LEMMA ControlGood ==
  ASSUME PitInv, NEW c \in PitChannels, NEW access \in PitAccesses, NEW mode \in PitModes,
         PitControl(c, access, mode)
  PROVE  PitInv'
<1> DEFINE no == FALSE
           x == [ch[c] EXCEPT !.rw_mode = access, !.read_state = access, !.write_state = access]
           v == [x EXCEPT !.mode = mode, !.clean = no]
<1>1. ch \in [PitChannels -> PitChan] /\ ch[c] \in PitChan /\ access \in Nat /\ mode \in 0 .. 5 /\ no \in BOOLEAN /\ ~no
  BY PitAssumption DEF PitInv
<1>2. ch' = [ch EXCEPT ![c] = v]
  BY <1>1 DEF PitControl, PitChan
<1> HIDE DEF no
<1>3. x \in PitChan
  BY <1>1 DEF PitChan
<1> HIDE DEF x
<1>4. v \in PitChan /\ v.clean = no
  BY <1>1, <1>3 DEF PitChan
<1> HIDE DEF v
<1>5. ch' \in [PitChannels -> PitChan] /\ ch'[0] = (IF c = 0 THEN v ELSE ch[0])
  BY <1>1, <1>2, <1>4 DEF PitChannels
<1>6. UNCHANGED <<since, shots, spk>>
  BY DEF PitControl
<1>7. PitTimed(ch'[0], since, shots)
  BY <1>1, <1>4, <1>5 DEF PitTimed, PitInv
<1> QED
  BY <1>5, <1>6, <1>7 DEF PitInv

\* i8254_ioport_write to a counter.
LEMMA WriteGood ==
  ASSUME PitInv, NEW c \in PitChannels, NEW val \in 0 .. Byte - 1, PitWrite(c, val)
  PROVE  PitInv'
<1> DEFINE s == ch[c]
           hi == PitLoadCount(s, val * Byte)
           latch == [s EXCEPT !.write_latch = val, !.write_state = 4]
           both == PitLoadCount(s, s.write_latch + val * Byte)
           done == [both EXCEPT !.write_state = 3]
           lo == PitLoadCount(s, val)
           v == CASE s.write_state = 2 -> hi
                  [] s.write_state = 3 -> latch
                  [] s.write_state = 4 -> done
                  [] OTHER -> lo
<1>1. /\ ch \in [PitChannels -> PitChan] /\ s \in PitChan /\ s.write_latch \in 0 .. Byte - 1
      /\ Byte \in Nat \ {0} /\ since \in Nat
  BY PitAssumption DEF PitInv, PitChan
<1>2. ch' = [ch EXCEPT ![c] = v]
  BY DEF PitWrite
<1>3. MaxCount \in Nat /\ val * Byte \in 0 .. MaxCount /\ val \in 0 .. MaxCount
      /\ s.write_latch + val * Byte \in 0 .. MaxCount
  <2> DEFINE w == s.write_latch
  <2>1. w \in 0 .. Byte - 1
    BY <1>1
  <2> HIDE DEF w
  <2>2. val * Byte <= (Byte - 1) * Byte
    BY <1>1, ProductMonotone
  <2>3. (Byte - 1) * Byte = Byte * Byte - Byte /\ val * Byte \in Nat /\ Byte * Byte \in Nat
    BY <1>1, SMT
  <2>4. Byte <= Byte * Byte
    BY <1>1, SMT
  <2>5. val * Byte \in 0 .. Byte * Byte /\ val \in 0 .. Byte * Byte /\ w + val * Byte \in 0 .. Byte * Byte
    BY <1>1, <2>1, <2>2, <2>3, <2>4
  <2> QED
    BY <2>3, <2>5 DEF w, MaxCount
<1> HIDE DEF s
<1>4. hi \in PitChan /\ hi.age = 0 /\ hi.last = 0 /\ lo \in PitChan /\ lo.age = 0 /\ lo.last = 0
      /\ both \in PitChan /\ both.age = 0 /\ both.last = 0
  BY <1>1, <1>3, LoadTimed
<1> HIDE DEF hi, lo, both
<1>5. done \in PitChan /\ done.age = 0 /\ done.last = 0
  BY <1>4 DEF PitChan
<1>6. latch \in PitChan /\ latch.count = s.count /\ latch.age = s.age /\ latch.last = s.last
      /\ latch.mode = s.mode /\ latch.clean = s.clean
  BY <1>1 DEF PitChan
<1> HIDE DEF done, latch
<1>7. v \in PitChan /\ (s.write_state = 3 => v = latch) /\ (s.write_state # 3 => v.age = 0 /\ v.last = 0)
  BY <1>4, <1>5, <1>6
<1> HIDE DEF v
<1>8. ch' \in [PitChannels -> PitChan] /\ ch'[0] = (IF c = 0 THEN v ELSE ch[0])
  BY <1>1, <1>2, <1>7 DEF PitChannels
<1>9. UNCHANGED <<since, spk>> /\ shots' = (IF c = 0 /\ s.write_state # 3 THEN 0 ELSE shots)
  BY DEF PitWrite, s
<1>10. PitTimed(ch'[0], since, shots') /\ shots' \in 0 .. 2
  <2>1. CASE c = 0 /\ s.write_state # 3
    <3>1. PitTimed(v, since, 0)
      BY <1>1, <1>7, <2>1, FreshTimed
    <3> QED
      BY <1>8, <1>9, <2>1, <3>1
  <2>2. CASE c = 0 /\ s.write_state = 3
    <3>1. PitTimed(latch, since, shots)
      BY <1>6, <2>2, TimedSame DEF PitInv, s
    <3> QED
      BY <1>7, <1>8, <1>9, <2>2, <3>1 DEF PitInv
  <2>3. CASE c # 0
    BY <1>8, <1>9, <2>3 DEF PitInv
  <2> QED
    BY <2>1, <2>2, <2>3
<1> QED
  BY <1>8, <1>9, <1>10 DEF PitInv

\* Latching a count or a status, and reading, leave the count as it runs.
LEMMA QuietGood ==
  ASSUME PitInv, ch' \in [PitChannels -> PitChan], UNCHANGED <<since, shots, spk>>,
         ch'[0].count = ch[0].count, ch'[0].age = ch[0].age, ch'[0].last = ch[0].last,
         ch'[0].mode = ch[0].mode, ch'[0].clean = ch[0].clean
  PROVE  PitInv'
<1>1. PitTimed(ch'[0], since, shots)
  BY TimedSame DEF PitInv
<1> QED
  BY <1>1 DEF PitInv

\* pit_latch_count and the latched status: registers of their own.
LEMMA LatchKeeps ==
  ASSUME NEW s \in PitChan, NEW count \in BOOLEAN, NEW status \in BOOLEAN
  PROVE  LET x == IF count THEN PitLatchCount(s) ELSE s
             v == IF status THEN PitLatchStatus(x) ELSE x
         IN  /\ v \in PitChan /\ v.count = s.count /\ v.age = s.age /\ v.last = s.last
             /\ v.mode = s.mode /\ v.clean = s.clean
<1> DEFINE x == IF count THEN PitLatchCount(s) ELSE s
           v == IF status THEN PitLatchStatus(x) ELSE x
           same(a, b) == /\ a \in PitChan /\ a.count = b.count /\ a.age = b.age /\ a.last = b.last
                         /\ a.mode = b.mode /\ a.clean = b.clean
<1>1. same(x, s)
  <2> DEFINE l == PitGetCount(s) % MaxCount
             r == s.rw_mode
             y == [s EXCEPT !.latched_count = l, !.count_latched = r]
  <2>1. MaxCount \in Nat \ {0} /\ PitGetCount(s) \in Int
    BY PitAssumption, ReadTypes DEF MaxCount
  <2>2. l \in Nat /\ r \in Nat
    BY <2>1, ModType DEF PitChan
  <2>3. x = y \/ x = s
    BY DEF PitLatchCount
  <2> HIDE DEF l, r, x
  <2>4. same(y, s)
    BY <2>2 DEF PitChan
  <2> QED
    BY <2>3, <2>4
<1> HIDE DEF x
<1>2. same(v, x)
  <2> DEFINE o == PitGetOut(x)
             yes == TRUE
             y == [x EXCEPT !.status = o, !.status_latched = yes]
  <2>1. o \in BOOLEAN /\ yes \in BOOLEAN /\ x \in PitChan
    BY <1>1, ReadTypes
  <2>2. v = y \/ v = x
    BY DEF PitLatchStatus
  <2> HIDE DEF o, v, yes
  <2>3. same(y, x)
    BY <2>1 DEF PitChan
  <2> QED
    BY <1>1, <2>2, <2>3
<1> HIDE DEF v
<1> QED
  BY <1>1, <1>2 DEF v, x

\* Latch command and read-back.
LEMMA LatchesGood ==
  ASSUME PitInv, NEW cs \in SUBSET PitChannels, NEW count \in BOOLEAN, NEW status \in BOOLEAN,
         PitLatch(cs, count, status)
  PROVE  PitInv'
<1> DEFINE x(s) == IF count THEN PitLatchCount(s) ELSE s
           v(s) == IF status THEN PitLatchStatus(x(s)) ELSE x(s)
<1>1. ch \in [PitChannels -> PitChan]
  BY DEF PitInv
<1>2. ch' = [c \in PitChannels |-> IF c \notin cs THEN ch[c] ELSE v(ch[c])] /\ UNCHANGED <<since, shots, spk>>
  BY DEF PitLatch
<1>3. \A c \in PitChannels :
        /\ v(ch[c]) \in PitChan /\ v(ch[c]).count = ch[c].count /\ v(ch[c]).age = ch[c].age
        /\ v(ch[c]).last = ch[c].last /\ v(ch[c]).mode = ch[c].mode /\ v(ch[c]).clean = ch[c].clean
  BY <1>1, LatchKeeps
<1> HIDE DEF x, v
<1>4. ch' \in [PitChannels -> PitChan] /\ ch'[0] = (IF 0 \notin cs THEN ch[0] ELSE v(ch[0])) /\ 0 \in PitChannels
  BY <1>1, <1>2, <1>3 DEF PitChannels
<1> QED
  BY <1>2, <1>3, <1>4, QuietGood

\* i8254_ioport_read.
LEMMA ReadGood ==
  ASSUME PitInv, NEW c \in PitChannels, PitRead(c)
  PROVE  PitInv'
<1> DEFINE s == ch[c]
           no == FALSE
           r == CASE s.read_state = 3 -> 4 [] s.read_state = 4 -> 3 [] OTHER -> s.read_state
           v1 == [s EXCEPT !.status_latched = no]
           v2 == [s EXCEPT !.count_latched = 2]
           v3 == [s EXCEPT !.count_latched = 0]
           v4 == [s EXCEPT !.read_state = r]
           v == CASE s.status_latched -> v1
                  [] ~s.status_latched /\ s.count_latched = 3 -> v2
                  [] ~s.status_latched /\ s.count_latched \in {1, 2} -> v3
                  [] OTHER -> v4
           same(a) == /\ a \in PitChan /\ a.count = s.count /\ a.age = s.age /\ a.last = s.last
                      /\ a.mode = s.mode /\ a.clean = s.clean
<1>1. ch \in [PitChannels -> PitChan] /\ s \in PitChan /\ s.status_latched \in BOOLEAN /\ s.read_state \in Nat
      /\ no \in BOOLEAN
  BY DEF PitInv, PitChan
<1>2. ch' = [ch EXCEPT ![c] = v] /\ UNCHANGED <<since, shots, spk>>
  BY DEF PitRead
<1>3. r \in Nat
  BY <1>1
<1> HIDE DEF no, r, s
<1>4. same(v1)
  BY <1>1 DEF PitChan
<1>5. same(v2) /\ same(v3)
  BY <1>1 DEF PitChan
<1>6. same(v4)
  BY <1>1, <1>3 DEF PitChan
<1>7. v = v1 \/ v = v2 \/ v = v3 \/ v = v4
  <2> HIDE DEF v1, v2, v3, v4
  <2> QED
    BY <1>1
<1> HIDE DEF v1, v2, v3, v4, v
<1>8. same(v)
  BY <1>4, <1>5, <1>6, <1>7
<1>9. ch' \in [PitChannels -> PitChan] /\ ch'[0] = (IF c = 0 THEN v ELSE ch[0])
  BY <1>1, <1>2, <1>8 DEF PitChannels
<1> QED
  BY <1>2, <1>8, <1>9, QuietGood DEF s

\* pc_step's poll.
LEMMA UpdateGood ==
  ASSUME PitInv, PitUpdateIrq
  PROVE  PitInv'
<1> DEFINE s == ch[0]
           v == IF PitFires(s) THEN PitFired(s) ELSE s
           k == IF PitFires(s) /\ shots < 2 THEN shots + 1 ELSE shots
<1>1. ch \in [PitChannels -> PitChan] /\ s \in PitChan /\ since \in 0 .. MaxGap /\ shots \in 0 .. 2
      /\ PitTimed(s, since, shots) /\ 0 \in PitChannels
  BY DEF PitInv, PitChannels
<1>2. ch' = [ch EXCEPT ![0] = v] /\ shots' = k /\ since' = 0 /\ UNCHANGED spk
  BY DEF PitUpdateIrq
<1> HIDE DEF s
<1>3. v \in PitChan /\ k \in 0 .. 2 /\ PitTimed(v, 0, k)
  BY <1>1, PollTimed
<1> HIDE DEF v, k
<1>4. ch' \in [PitChannels -> PitChan] /\ ch'[0] = v
  BY <1>1, <1>2, <1>3
<1>5. 0 \in 0 .. MaxGap
  BY PitAssumption
<1>6. PitTimed(ch'[0], since', shots') /\ since' \in 0 .. MaxGap /\ shots' \in 0 .. 2
  BY <1>2, <1>3, <1>4, <1>5
<1> QED
  BY <1>2, <1>4, <1>6 DEF PitInv

\* i8254_rebase.
LEMMA RebaseGood ==
  ASSUME PitInv, PitRebase
  PROVE  PitInv'
<1> DEFINE v(c) == [ch[c] EXCEPT !.age = 0, !.last = 0]
<1>1. ch \in [PitChannels -> PitChan] /\ since \in Nat /\ 0 \in PitChannels
  BY PitAssumption DEF PitInv, PitChannels
<1>2. ch' = [c \in PitChannels |-> v(c)] /\ shots' = 0 /\ UNCHANGED <<since, spk>>
  BY DEF PitRebase
<1>3. \A c \in PitChannels : v(c) \in PitChan /\ v(c).age = 0 /\ v(c).last = 0
  BY <1>1, ZenonT(40) DEF PitChan
<1> HIDE DEF v
<1>4. ch' \in [PitChannels -> PitChan] /\ ch'[0] = v(0)
  BY <1>1, <1>2, <1>3
<1>5. PitTimed(ch'[0], since, 0)
  BY <1>1, <1>3, <1>4, FreshTimed
<1> QED
  BY <1>2, <1>4, <1>5 DEF PitInv

\* Time passes.
LEMMA TimeGood ==
  ASSUME PitInv, PitTime
  PROVE  PitInv'
<1> DEFINE g(c) == IF c = 0 /\ ch[c].age < MaxAge THEN ch[c].age + 1 ELSE ch[c].age
           v(c) == [ch[c] EXCEPT !.age = g(c)]
<1>1. ch \in [PitChannels -> PitChan] /\ since \in 0 .. MaxGap /\ since < MaxGap /\ MaxGap \in Nat /\ 0 \in PitChannels
      /\ \A c \in PitChannels : ch[c].age \in Nat
  BY PitAssumption DEF PitInv, PitChannels, PitTime, PitChan
<1>2. ch' = [c \in PitChannels |-> v(c)] /\ since' = since + 1 /\ UNCHANGED <<shots, spk>>
  BY DEF PitTime
<1>3. \A c \in PitChannels : g(c) \in Nat /\ (g(c) = ch[c].age \/ g(c) = ch[c].age + 1)
  BY <1>1
<1> HIDE DEF g
<1>4. \A c \in PitChannels : /\ v(c) \in PitChan /\ v(c).age = g(c) /\ v(c).last = ch[c].last
                             /\ v(c).count = ch[c].count /\ v(c).mode = ch[c].mode /\ v(c).clean = ch[c].clean
  BY <1>1, <1>3 DEF PitChan
<1> HIDE DEF v
<1>5. ch' \in [PitChannels -> PitChan] /\ ch'[0] = v(0)
  BY <1>1, <1>2, <1>4
<1>6. PitTimed(v(0), since + 1, shots)
  <2> DEFINE s == ch[0]
             x == v(0)
  <2>1. /\ s \in PitChan /\ x \in PitChan /\ since \in Nat /\ PitTimed(s, since, shots)
        /\ x.count = s.count /\ x.last = s.last /\ x.mode = s.mode /\ x.clean = s.clean
        /\ x.age = s.age \/ x.age = s.age + 1
    BY <1>1, <1>3, <1>4 DEF PitInv
  <2> HIDE DEF s, x
  <2>2. PitTimed(x, since + 1, shots)
    BY <2>1, AgeTimed
  <2> QED
    BY <2>2 DEF x
<1>7. since' \in 0 .. MaxGap
  BY <1>1, <1>2
<1> QED
  BY <1>2, <1>5, <1>6, <1>7 DEF PitInv

\* pcspk_callback: whole waves fit the buffer.
LEMMA SamplesFit ==
  ASSUME NEW count \in Nat
  PROVE  Samples(count) \in 0 .. SpkBuf
<1> DEFINE h == SpkFreq \div 2
           m == SpkRate * count
           b == SpkBuf * SpkFreq
           q == b \div m
           x == q * m
           z == x \div h
<1>1. SpkBuf \in Nat /\ SpkRate \in Nat \ {0} /\ SpkFreq \in Nat \ {0} /\ h \in Nat \ {0} /\ SpkFreq = 2 * h
  BY PitAssumption
<1>2. CASE count = 0
  BY <1>1, <1>2 DEF Samples
<1>3. CASE count # 0
  <2>1. Samples(count) = (z + 1) \div 2
    BY <1>3 DEF Samples
  <2> HIDE DEF h
  <2>2. m \in Nat \ {0} /\ b \in Nat /\ b = (2 * SpkBuf) * h
    BY <1>1, <1>3
  <2> HIDE DEF m, b
  <2>3. q \in Nat /\ q * m <= b
    <3>1. b \div m \in Nat /\ (b \div m) * m <= b
      BY <2>2, QuotientLess
    <3> QED
      BY <3>1
  <2> HIDE DEF q
  <2>4. x \in 0 .. (2 * SpkBuf) * h
    BY <2>2, <2>3
  <2> HIDE DEF x
  <2>5. z \in 0 .. 2 * SpkBuf
    <3> DEFINE d == 2 * SpkBuf
    <3>1. d \in Nat /\ x \in 0 .. d * h
      BY <1>1, <2>4
    <3> HIDE DEF d
    <3>2. z \in 0 .. d
      BY <1>1, <3>1, QuotientBound
    <3> QED
      BY <3>2 DEF d
  <2> HIDE DEF z
  <2> QED
    BY <1>1, <2>1, <2>5
<1> QED
  BY <1>2, <1>3

\* The speaker's ports and its callback.
LEMMA SpeakerGood ==
  ASSUME PitInv,
         \/ \E gate, data \in BOOLEAN : SpkWrite(gate, data)
         \/ \E free \in 1 .. SpkBuf : SpkCallback(free)
  PROVE  PitInv'
<1>0. ch \in [PitChannels -> PitChan] /\ ch[2] \in PitChan /\ SpkInWave(spk) /\ spk \in Speakers
      /\ 2 \in PitChannels /\ ch[2].count \in Nat /\ SpkBuf \in Nat /\ spk.samples \in Nat /\ spk.play_pos \in Nat
  BY PitAssumption DEF PitInv, SpkInWave, PitChannels, PitChan, Speakers, MaxCount
<1>1. CASE \E gate, data \in BOOLEAN : SpkWrite(gate, data)
  <2>1. PICK gate \in BOOLEAN, data \in BOOLEAN : SpkWrite(gate, data)
    BY <1>1
  <2> DEFINE s == ch[2]
             g == IF s.mode \in {1, 2, 3, 5} /\ gate /\ ~s.gate THEN 0 ELSE s.age
             v == [s EXCEPT !.gate = gate, !.age = g]
             pos == IF gate THEN 0 ELSE spk.play_pos
             on == IF (gate /\ spk.data_on) = (gate /\ data) THEN spk.active_out ELSE gate /\ data
             p == [spk EXCEPT !.data_on = data, !.play_pos = pos, !.active_out = on]
  <2>2. ch' = [ch EXCEPT ![2] = v] /\ spk' = p /\ UNCHANGED <<since, shots>>
    BY <1>0, <2>1 DEF SpkWrite, PitChan
  <2>3. g \in Nat /\ pos \in Nat /\ on \in BOOLEAN /\ (pos = 0 \/ pos = spk.play_pos)
    BY <1>0 DEF PitChan, Speakers
  <2> HIDE DEF g, pos, on
  <2>4. v \in PitChan
    BY <1>0, <2>3 DEF PitChan
  <2>5. p \in Speakers /\ p.play_pos = pos /\ p.samples = spk.samples
    BY <1>0, <2>3 DEF Speakers
  <2> HIDE DEF v, p
  <2>6. ch' \in [PitChannels -> PitChan] /\ ch'[0] = ch[0]
    BY <1>0, <2>2, <2>4 DEF PitChannels
  <2>7. SpkInWave(p)
    BY <1>0, <2>3, <2>5 DEF SpkInWave
  <2> QED
    BY <2>2, <2>6, <2>7 DEF PitInv
<1>2. CASE \E free \in 1 .. SpkBuf : SpkCallback(free)
  <2>1. PICK free \in 1 .. SpkBuf : SpkCallback(free)
    BY <1>2
  <2> DEFINE n == IF ch[2].count < SpkMinCount THEN 0 ELSE ch[2].count
             f == Samples(n)
             w == IF spk.pit_count = n THEN spk
                  ELSE [spk EXCEPT !.pit_count = n, !.play_pos = 0, !.samples = f]
             pos == IF w.samples = 0 THEN 0 ELSE (w.play_pos + free) % w.samples
             p == [w EXCEPT !.play_pos = pos]
  <2>2. spk' = p /\ UNCHANGED <<ch, since, shots>>
    BY <2>1 DEF SpkCallback, SpkTurn
  <2>3. n \in Nat
    BY <1>0
  <2> HIDE DEF n
  <2>4. f \in 0 .. SpkBuf
    BY <2>3, SamplesFit
  <2> HIDE DEF f
  <2>5. w \in Speakers
    BY <1>0, <2>3, <2>4 DEF Speakers
  <2> HIDE DEF w
  <2>6. w.samples \in Nat /\ w.play_pos + free \in Int
    BY <1>0, <2>5 DEF Speakers
  <2>7. pos \in Nat /\ (w.samples = 0 => pos = 0) /\ (w.samples # 0 => pos < w.samples)
    <3> DEFINE a == w.play_pos + free
               b == w.samples
    <3>1. a \in Int /\ b \in Nat /\ pos = (IF b = 0 THEN 0 ELSE a % b)
      BY <2>6
    <3> HIDE DEF a, b, pos
    <3>2. b # 0 => a % b \in Nat /\ a % b < b
      BY <3>1, ModType
    <3>3. pos \in Nat /\ (b = 0 => pos = 0) /\ (b # 0 => pos < b)
      BY <3>1, <3>2
    <3> QED
      BY <3>3 DEF b
  <2> HIDE DEF pos
  <2>8. p \in Speakers /\ p.play_pos = pos /\ p.samples = w.samples
    BY <2>5, <2>7 DEF Speakers
  <2> HIDE DEF p
  <2>9. SpkInWave(p)
    BY <2>7, <2>8 DEF SpkInWave
  <2> QED
    BY <2>2, <2>9 DEF PitInv
<1> QED
  BY <1>1, <1>2

\* i8254_init.
LEMMA PitStarts == PitInit => PitInv
<1> SUFFICES ASSUME PitInit PROVE PitInv
  OBVIOUS
<1>0. MaxCount \in Nat \ {0} /\ Byte \in Nat \ {0} /\ MaxGap \in Nat /\ SpkBuf \in Nat
  BY PitAssumption DEF MaxCount
<1>1. ch \in [PitChannels -> PitChan] /\ \A c \in PitChannels : ch[c].age = 0 /\ ch[c].last = 0
  BY <1>0 DEF PitInit, PitChan
<1>2. since = 0 /\ shots = 0 /\ since \in 0 .. MaxGap /\ shots \in 0 .. 2 /\ 0 \in PitChannels
  BY <1>0 DEF PitInit, PitChannels
<1>3. PitTimed(ch[0], since, shots)
  BY <1>1, <1>2, FreshTimed
<1>4. SpkInWave(spk)
  BY <1>0 DEF PitInit, SpkInWave, Speakers
<1> QED
  BY <1>1, <1>2, <1>3, <1>4 DEF PitInv

\* Whatever the guest programs, and whenever it is polled.
LEMMA PitInvariant == PitSpec => []PitInv
<1>1. ASSUME PitInv, [PitNext]_pitVars
      PROVE  PitInv'
  <2>1. CASE UNCHANGED pitVars
    BY <1>1, <2>1 DEF pitVars, PitInv, PitTimed, TrueElapsed, SpkInWave
  <2>2. CASE \E c \in PitChannels : PitProgram(c) \/ PitRead(c)
    BY <1>1, <2>2, ControlGood, WriteGood, ReadGood DEF PitProgram
  <2>3. CASE \E cs \in SUBSET PitChannels, count, status \in BOOLEAN : PitLatch(cs, count, status)
    BY <1>1, <2>3, LatchesGood
  <2> QED
    BY <1>1, <2>1, <2>2, <2>3, SpeakerGood, UpdateGood, RebaseGood, TimeGood DEF PitNext
<1> QED
  BY <1>1, PitStarts, PTL DEF PitSpec

\* i8254_update_irq, pcspk_callback: for every rate, clock range and gap between polls that
\* PitAssumption allows, the timer's interrupts are neither early nor left due nor given twice,
\* although the clock they are computed from wraps, and the speaker copies from inside its wave.
THEOREM TicksStayExact == PitSpec => []TicksExact
<1>1. ASSUME PitInv PROVE TicksExact
  <2> DEFINE s == ch[0]
  <2>0. /\ s \in PitChan /\ s.age \in Nat /\ s.last \in Nat /\ s.count \in Nat \ {0} /\ PitTimed(s, since, shots)
        /\ FreqDen \in Nat \ {0} /\ FreqNum \in Nat /\ TrueElapsed(s) \in Nat
    BY <1>1, PitAssumption, ElapsedFacts DEF PitInv, PitChan, PitChannels, MaxCount
  <2>1. ASSUME s.clean, s.mode \in Periodic, since = 0
        PROVE  TrueElapsed(s) - s.last < s.count
    <3> DEFINE y == s.age * FreqNum
               k == s.last + s.count
    <3>1. y < k * FreqDen + 0 * FreqNum
      BY <2>0, <2>1 DEF PitTimed
    <3>2. y \in Nat /\ k \in Int /\ k * FreqDen \in Int /\ 0 * FreqNum = 0
      BY <2>0
    <3>3. TrueElapsed(s) = y \div FreqDen
      BY DEF TrueElapsed
    <3>4. k = s.last + s.count
      OBVIOUS
    <3> HIDE DEF y, k, s
    <3>5. y < k * FreqDen
      BY <3>1, <3>2
    <3>6. y \div FreqDen < k
      BY <2>0, <3>2, <3>5, QuotientLess
    <3> QED
      BY <2>0, <3>3, <3>4, <3>6
  <2>2. s.clean => /\ s.mode \in Periodic => s.last <= TrueElapsed(s)
                   /\ s.mode \notin Periodic =>
                        /\ shots = (IF s.last = 0 THEN 0 ELSE 1)
                        /\ shots = 1 => TrueElapsed(s) >= s.count
    BY <2>0 DEF PitTimed
  <2>3. spk.samples <= SpkBuf /\ (spk.play_pos < spk.samples \/ spk.play_pos = 0)
    BY <1>1, PitAssumption DEF PitInv, SpkInWave, Speakers
  <2> QED
    BY <2>1, <2>2, <2>3 DEF TicksExact
<1> QED
  BY <1>1, PitInvariant, PTL

-----------------------------------------------------------------------------
(***************************************************************************)
(* The sound card and its DMA channels, whatever the guest writes to any   *)
(* of their ports, and whenever the mixer and the controllers run.         *)
(***************************************************************************)
\* left_till_irq after n more bytes.
LEMMA LeftMoves ==
  ASSUME NEW b \in Nat \ {0}, NEW m \in Nat, NEW n \in Nat, NEW left \in Int, left = b - (m % b)
  PROVE  /\ left \in 1 .. b
         /\ NextBlock(left - n, b) = b - ((m + n) % b)
<1> DEFINE r == m % b
<1>1. r \in 0 .. b - 1
  BY DivMod
<1>2. (r + n) % b = (m + n) % b
  <2>1. m \in Int /\ n \in Int
    OBVIOUS
  <2> QED
    BY <2>1, ModAdd
<1> HIDE DEF r
<1>3. left = b - r
  BY DEF r
<1>4. CASE r + n < b
  <2>1. (r + n) % b = r + n
    BY <1>1, <1>4
  <2> QED
    BY <1>1, <1>2, <1>3, <1>4, <2>1 DEF NextBlock
<1>5. CASE r + n >= b
  <2>1. ((r + n - b) + b * 1) % b = (r + n - b) % b
    <3>1. r + n - b \in Int /\ 1 \in Int
      BY <1>1
    <3> QED
      BY <3>1, ModShift
  <2>2. (r + n - b) + b * 1 = r + n /\ -(left - n) = r + n - b /\ ~(left - n > 0)
    BY <1>1, <1>3, <1>5
  <2>3. NextBlock(left - n, b) = b - ((r + n - b) % b)
    BY <2>2 DEF NextBlock
  <2> QED
    BY <1>1, <1>2, <1>3, <2>1, <2>2, <2>3
<1> QED
  BY <1>1, <1>3, <1>4, <1>5

\* A controller: the registers of the channel it gives to the card.
DmaChan == [flip_flop : {0, 1}, mask : BOOLEAN, dreq : BOOLEAN, tc : BOOLEAN, base : Nat, now : Nat]
\* The bytes of a channel's transfer: at least one.
LEMMA DmaLengthType ==
  ASSUME NEW d \in DmaChan, NEW c \in Controllers
  PROVE  DmaLength(d, c) \in Nat \ {0}
BY DEF DmaLength, Dshift, DmaChan

\* The card, the tally and both with the controllers.
SbCard ==
  [irq : {5, 7}, lines : SUBSET {5, 7}, status : SUBSET {8, 16}, hdma : BOOLEAN, auto : BOOLEAN,
   bits : {8, 16}, signed : BOOLEAN, align : 1 .. 4, stereo : BOOLEAN, mix_stereo : BOOLEAN, freq : Int,
   time_const : BOOLEAN, block : Int, left : Int, running : BOOLEAN, active : BOOLEAN,
   free : Nat, fill : 0 .. Ring, needed : 0 .. 3, index : Nat, cmd : {"none"} \cup Commands,
   out : Nat, v2x6 : 0 .. 2]

SbTally == [moved : Nat, steady : BOOLEAN, over : BOOLEAN, stray : SUBSET {5, 7}, adpcm : BOOLEAN]

SbWorld == [dma : [Controllers -> DmaChan], sb : SbCard, tally : SbTally]

\* A line that is up has a cause.
SbCaused(w) ==
  w.sb.lines \subseteq w.tally.stray \cup (IF w.sb.status = {} THEN {} ELSE {w.sb.irq})

\* The two accounts of an undisturbed transfer agree, and only its own channel is asked for.
SbExact(w) ==
  /\ ~w.tally.over
  /\ w.tally.steady =>
       /\ w.sb.block > 0
       /\ w.sb.left = w.sb.block - (w.tally.moved % w.sb.block)
       /\ w.dma[Use(w.sb)].now = w.tally.moved % DmaLength(w.dma[Use(w.sb)], Use(w.sb))
       /\ \A c \in Controllers : w.dma[c].dreq => c = Use(w.sb)

SbCore(w) == w \in SbWorld /\ SbCaused(w) /\ SbExact(w)

\* The DSP's place in a command is left alone.
SbKeeps(v, w) ==
  /\ v.sb.needed = w.sb.needed /\ v.sb.index = w.sb.index /\ v.sb.cmd = w.sb.cmd
  /\ v.tally.adpcm = w.tally.adpcm

\* A world by its parts.
LEMMA SbParts ==
  ASSUME NEW w \in SbWorld
  PROVE  /\ w.dma \in [Controllers -> DmaChan] /\ w.sb \in SbCard /\ w.tally \in SbTally
         /\ w = [dma |-> w.dma, sb |-> w.sb, tally |-> w.tally]
BY DEF SbWorld

\* write_audio never writes more than there is room for.
LEMMA WrittenType ==
  ASSUME NEW s \in SbCard, NEW left \in Int, NEW len \in Nat
  PROVE  /\ Written(s, left, len) \in 0 .. Ring - s.fill
         /\ left > 0 => Written(s, left, len) <= len
<1>1. s.fill \in 0 .. Ring /\ Ring \in Nat
  BY SbAssumption DEF SbCard
<1> QED
  BY <1>1 DEF Written, AtMost

\* The samples SB_read_DMA may take.
LEMMA FreeType ==
  ASSUME NEW s \in SbCard, NEW a \in 1 .. 4
  PROVE  s.free - (s.free % a) \in Nat
<1>1. s.free \in Nat
  BY DEF SbCard
<1> DEFINE f == s.free
<1> HIDE DEF f
<1>2. f \in Nat
  BY <1>1 DEF f
<1>3. f % a \in 0 .. a - 1 /\ f \div a \in Int /\ f = a * (f \div a) + (f % a)
  BY <1>2, DivMod
<1>4. f % a <= f
  BY <1>2
<1> QED
  BY <1>2, <1>3, <1>4 DEF f

\* Use is one of the controllers, and hdma decides it.
LEMMA UseType ==
  ASSUME NEW s
  PROVE  Use(s) \in Controllers
BY DEF Use, Controllers

\* SB_read_DMA: left_till_irq is put back into the block, or was in it.
LEMMA NextBlockType ==
  ASSUME NEW left \in Int, NEW block \in Nat \ {0}
  PROVE  NextBlock(left, block) \in 1 .. block \/ NextBlock(left, block) = left
<1>1. (-left) % block \in 0 .. block - 1
  BY DivMod
<1> QED
  BY <1>1 DEF NextBlock

\* What a turn of SB_read_DMA adds to the tally.
LEMMA TallyType ==
  ASSUME NEW t \in SbTally, NEW s \in SbCard, NEW n \in Nat, NEW len \in Nat \ {0}, t.steady => s.block > 0
  PROVE  /\ Tally(t, s, n, len) \in SbTally
         /\ Tally(t, s, n, len).steady = t.steady
         /\ Tally(t, s, n, len).stray = t.stray
         /\ Tally(t, s, n, len).adpcm = t.adpcm
         /\ t.steady => Tally(t, s, n, len).moved = (t.moved + n) % (s.block * len)
         /\ Tally(t, s, n, len).over => t.over \/ (t.steady /\ ~s.auto /\ n > s.left)
<1> DEFINE u == Tally(t, s, n, len)
           m == IF t.steady THEN (t.moved + n) % (s.block * len) ELSE 0
           o == t.over \/ (t.steady /\ ~s.auto /\ n > s.left)
<1>1. u = [t EXCEPT !.moved = m, !.over = o]
  BY DEF Tally
<1>2. m \in Nat
  <2>1. CASE t.steady
    <3> DEFINE b == s.block * len
    <3>1. s.block \in Nat \ {0} /\ t.moved \in Nat
      BY <2>1 DEF SbCard, SbTally
    <3>2. b \in Nat \ {0} /\ t.moved + n \in Int
      BY <3>1
    <3>3. m = (t.moved + n) % b
      BY <2>1
    <3> HIDE DEF b, m
    <3>4. (t.moved + n) % b \in 0 .. b - 1
      BY <3>2, DivMod
    <3> QED
      BY <3>2, <3>3, <3>4
  <2> QED
    BY <2>1
<1>3. o \in BOOLEAN
  OBVIOUS
<1> HIDE DEF m, o
<1>4. /\ u \in SbTally /\ u.steady = t.steady /\ u.stray = t.stray /\ u.adpcm = t.adpcm
      /\ u.moved = m /\ u.over = o
  BY <1>1, <1>2, <1>3 DEF SbTally
<1> QED
  BY <1>4 DEF m, o

\* One turn of SB_read_DMA: what becomes of the card, of the channels and of the tally.
LEMMA ReadFacts ==
  ASSUME NEW w \in SbWorld, NEW c \in Controllers, w.tally.steady => w.sb.block > 0
  PROVE  LET v    == SbReadDma(w, c)
             s    == w.sb
             till == IF s.left < 0 THEN s.block ELSE s.left IN
         /\ v \in SbWorld
         /\ SbKeeps(v, w)
         /\ v.sb.irq = s.irq /\ v.sb.hdma = s.hdma /\ v.sb.auto = s.auto /\ v.sb.block = s.block
         /\ v.tally.stray = w.tally.stray /\ v.tally.steady = w.tally.steady
         /\ \/ v.sb.lines = s.lines /\ v.sb.status = s.status
            \/ v.sb.lines = s.lines \cup {s.irq} /\ v.sb.status # {}
         /\ \A k \in Controllers : /\ v.dma[k].base = w.dma[k].base
                                   /\ v.dma[k].dreq => w.dma[k].dreq
         /\ \/ /\ v.tally = w.tally /\ v.dma[c].now = w.dma[c].now
               /\ v.sb.left = s.left \/ v.sb.left = till
            \/ \E n \in Nat :
                 /\ s.block > 0
                 /\ v.tally = Tally(w.tally, s, n, DmaLength(w.dma[c], c))
                 /\ v.dma[c].now = (w.dma[c].now + n) % DmaLength(w.dma[c], c)
                 /\ v.sb.left = NextBlock(till - n, s.block)
                 /\ DmaLength(w.dma[c], c) > w.dma[c].now /\ ~s.auto => n <= till
<1> DEFINE s     == w.sb
           d     == w.dma[c]
           len   == DmaLength(d, c)
           free  == s.free - (s.free % s.align)
           till  == IF s.left < 0 THEN s.block ELSE s.left
           copy  == IF ~s.auto /\ till <= free THEN till ELSE free
           n     == Written(s, len - d.now, copy)
           pos   == (d.now + n) % len
           t     == Tally(w.tally, s, n, len)
           moved == [w EXCEPT !.sb.fill = @ + n, !.sb.left = till - n, !.tally = t]
           told1 == [moved EXCEPT !.sb.status = @ \cup {IF c = "high" THEN 16 ELSE 8}]
           told  == IF till - n > 0 THEN moved
                    ELSE LET r == Raise(told1)
                         IN  IF s.auto THEN r ELSE Halt(r)
           idle  == s.block <= 0 \/ free <= 0
           busy  == [told EXCEPT !.sb.left = NextBlock(@, s.block)]
           rest  == IF s.block > 0 THEN [w EXCEPT !.sb.left = till] ELSE w
           after == IF idle THEN rest ELSE busy
           v     == [after EXCEPT !.dma[c] = Position(@, c, IF idle THEN d.now ELSE pos)]
<1>1. SbReadDma(w, c) = v
  BY DEF SbReadDma
<1>2. /\ w.dma \in [Controllers -> DmaChan] /\ s \in SbCard /\ w.tally \in SbTally
      /\ d \in DmaChan /\ d.now \in Nat
  BY SbParts DEF DmaChan
<1>3. len \in Nat \ {0}
  BY <1>2, DmaLengthType
<1>4. free \in Nat
  <2>1. s.align \in 1 .. 4 /\ s.free \in Nat
    BY <1>2 DEF SbCard
  <2> HIDE DEF s
  <2> QED
    BY <1>2, <2>1, FreeType
<1>5. /\ s.left \in Int /\ s.block \in Int /\ s.fill \in 0 .. Ring /\ till \in Int
      /\ s.block > 0 => till \in Nat
  BY <1>2 DEF SbCard
<1> HIDE DEF v, after, rest, busy, idle, told, told1, moved, t, pos, n, copy, till, free, len, d, s
<1>6. CASE idle
  <2>1. v = [rest EXCEPT !.dma[c] = Position(@, c, d.now)]
    BY <1>6 DEF v, after
  <2>2. /\ rest.dma = w.dma /\ rest.tally = w.tally /\ rest \in SbWorld
        /\ rest.sb = s \/ rest.sb = [s EXCEPT !.left = till]
    BY <1>2, <1>5 DEF rest, s, SbWorld, SbCard
  <2>3. Position(w.dma[c], c, d.now) = [d EXCEPT !.now = d.now, !.tc = @ \/ d.now = len]
    BY DEF Position, d, len
  <2>4. /\ v.dma = [w.dma EXCEPT ![c] = [d EXCEPT !.now = d.now, !.tc = @ \/ d.now = len]]
        /\ v.sb = rest.sb /\ v.tally = w.tally
        /\ v = [dma |-> v.dma, sb |-> v.sb, tally |-> v.tally]
    BY <2>1, <2>2, <2>3, SbParts
  <2> DEFINE e == [d EXCEPT !.now = d.now, !.tc = @ \/ d.now = len]
  <2>5. e \in DmaChan /\ e.now = d.now /\ e.base = d.base /\ e.dreq = d.dreq
    BY <1>2 DEF DmaChan
  <2> HIDE DEF e
  <2>6. /\ v.dma = [w.dma EXCEPT ![c] = e]
    BY <2>4 DEF e
  <2>7. /\ v.dma \in [Controllers -> DmaChan]
        /\ v.dma[c] = e /\ \A k \in Controllers : k # c => v.dma[k] = w.dma[k]
    BY <1>2, <2>5, <2>6
  <2>8. v \in SbWorld
    <3>1. rest.sb \in SbCard /\ w.tally \in SbTally
      BY <1>2, <2>2, SbParts
    <3> QED
      BY <2>4, <2>7, <3>1 DEF SbWorld
  <2>9. v.sb = s \/ v.sb = [s EXCEPT !.left = till]
    BY <2>2, <2>4
  <2>10. /\ v.sb.irq = s.irq /\ v.sb.hdma = s.hdma /\ v.sb.auto = s.auto /\ v.sb.block = s.block
         /\ v.sb.lines = s.lines /\ v.sb.status = s.status
         /\ v.sb.needed = s.needed /\ v.sb.index = s.index /\ v.sb.cmd = s.cmd
         /\ v.sb.left = s.left \/ v.sb.left = till
    BY <1>2, <1>5, <2>9 DEF SbCard
  <2> QED
    BY <1>1, <2>4, <2>5, <2>7, <2>8, <2>10 DEF SbKeeps, s, d, till
<1>7. CASE ~idle
  <2>1. v = [busy EXCEPT !.dma[c] = Position(@, c, pos)]
    BY <1>7 DEF v, after
  <2>2. s.block > 0 /\ till \in Nat /\ copy \in Nat
    BY <1>4, <1>5, <1>7 DEF idle, copy
  <2>3. n \in 0 .. Ring - s.fill /\ (len > d.now => n <= copy)
    <3>1. len - d.now \in Int
      BY <1>2, <1>3
    <3>2. n \in 0 .. Ring - s.fill /\ (len - d.now > 0 => n <= copy)
      BY <1>2, <2>2, <3>1, WrittenType DEF n
    <3> QED
      BY <1>2, <1>3, <3>2
  <2>4. n \in Nat /\ s.fill + n \in 0 .. Ring /\ till - n \in Int
    BY <1>5, <2>2, <2>3, SbAssumption
  <2>5. pos \in Nat
    <3>1. d.now + n \in Int
      BY <1>2, <2>4
    <3>2. pos \in 0 .. len - 1
      BY <1>3, <3>1, DivMod DEF pos
    <3> QED
      BY <1>3, <3>2
  <2>6. t \in SbTally /\ t.steady = w.tally.steady /\ t.stray = w.tally.stray /\ t.adpcm = w.tally.adpcm
    BY <1>2, <1>3, <2>4, TallyType DEF t, s
  <2>7. /\ moved.dma = w.dma /\ moved.tally = t /\ moved \in SbWorld
        /\ moved.sb = [s EXCEPT !.fill = s.fill + n, !.left = till - n]
    BY <1>2, <2>4, <2>6 DEF moved, s, SbWorld, SbCard
  <2>8. /\ moved.sb.lines = s.lines /\ moved.sb.status = s.status /\ moved.sb.left = till - n
        /\ moved.sb.irq = s.irq /\ moved.sb.hdma = s.hdma
        /\ moved.sb.auto = s.auto /\ moved.sb.block = s.block
        /\ moved.sb.needed = s.needed /\ moved.sb.index = s.index /\ moved.sb.cmd = s.cmd
    BY <1>2, <2>7 DEF SbCard
  <2> DEFINE fact(x) ==
        /\ x \in SbWorld /\ x.tally = t /\ x.sb.left = till - n
        /\ x.sb.irq = s.irq /\ x.sb.hdma = s.hdma /\ x.sb.auto = s.auto /\ x.sb.block = s.block
        /\ x.sb.needed = s.needed /\ x.sb.index = s.index /\ x.sb.cmd = s.cmd
        /\ \/ x.sb.lines = s.lines /\ x.sb.status = s.status
           \/ x.sb.lines = s.lines \cup {s.irq} /\ x.sb.status # {}
        /\ \A k \in Controllers : /\ x.dma[k].base = w.dma[k].base /\ x.dma[k].now = w.dma[k].now
                                  /\ x.dma[k].dreq => w.dma[k].dreq
  <2>9. fact(moved)
    BY <2>7, <2>8
  <2> DEFINE bit == IF c = "high" THEN 16 ELSE 8
             r == Raise(told1)
  <2>10. /\ r \in SbWorld /\ r.dma = w.dma /\ r.tally = t
         /\ r.sb = [moved.sb EXCEPT !.status = s.status \cup {bit}, !.lines = s.lines \cup {s.irq}]
    <3>1. bit \in {8, 16}
      OBVIOUS
    <3>2. told1 = [moved EXCEPT !.sb.status = @ \cup {bit}]
      BY DEF told1
    <3>3. moved.sb \in SbCard
      BY <2>7, SbParts
    <3> HIDE DEF bit
    <3>4. /\ told1 \in SbWorld /\ told1.dma = w.dma /\ told1.tally = t
          /\ told1.sb = [moved.sb EXCEPT !.status = s.status \cup {bit}]
      BY <2>7, <2>8, <3>1, <3>2, <3>3, ZenonT(40) DEF SbWorld, SbCard
    <3>5. told1.sb.lines = s.lines /\ told1.sb.irq = s.irq /\ s.irq \in {5, 7} /\ told1.sb \in SbCard
      BY <2>8, <3>3, <3>4, SbParts DEF SbCard
    <3>6. /\ r \in SbWorld /\ r.dma = w.dma /\ r.tally = t
          /\ r.sb = [told1.sb EXCEPT !.lines = s.lines \cup {s.irq}]
      BY <3>4, <3>5 DEF Raise, SbWorld, SbCard
    <3> QED
      BY <3>4, <3>6
  <2>11. fact(r)
    <3>1. moved.sb \in SbCard
      BY <2>7, SbParts
    <3> HIDE DEF bit, r
    <3>2. /\ r.sb.left = till - n
          /\ r.sb.irq = s.irq /\ r.sb.hdma = s.hdma /\ r.sb.auto = s.auto /\ r.sb.block = s.block
          /\ r.sb.needed = s.needed /\ r.sb.index = s.index /\ r.sb.cmd = s.cmd
          /\ r.sb.lines = s.lines \cup {s.irq} /\ r.sb.status = s.status \cup {bit}
      BY <2>8, <2>10, <3>1 DEF SbCard
    <3>3. r.sb.status # {}
      BY <3>2
    <3> QED
      BY <2>10, <3>2, <3>3
  <2>12. fact(Halt(r))
    <3> HIDE DEF r
    <3> DEFINE u == Use(r.sb)
               h == Halt(r)
    <3>1. u \in Controllers
      BY UseType
    <3>2. h = [r EXCEPT !.sb.running = FALSE, !.sb.active = FALSE, !.dma[u].dreq = FALSE]
      BY DEF Halt
    <3> HIDE DEF u, h
    <3>3. /\ r.dma \in [Controllers -> DmaChan] /\ r.sb \in SbCard /\ r.tally \in SbTally
          /\ r = [dma |-> r.dma, sb |-> r.sb, tally |-> r.tally]
      BY <2>11, SbParts
    <3>4. /\ h.dma = [r.dma EXCEPT ![u] = [r.dma[u] EXCEPT !.dreq = FALSE]]
          /\ h.sb = [r.sb EXCEPT !.running = FALSE, !.active = FALSE]
          /\ h.tally = r.tally
          /\ h = [dma |-> h.dma, sb |-> h.sb, tally |-> h.tally]
      BY <3>2, <3>3
    <3> DEFINE e == [r.dma[u] EXCEPT !.dreq = FALSE]
    <3>5. e \in DmaChan /\ e.now = r.dma[u].now /\ e.base = r.dma[u].base /\ ~e.dreq
      BY <3>1, <3>3 DEF DmaChan
    <3> HIDE DEF e
    <3>6. h.dma = [r.dma EXCEPT ![u] = e]
      BY <3>4 DEF e
    <3>7. /\ h.dma \in [Controllers -> DmaChan]
          /\ h.dma[u] = e /\ \A k \in Controllers : k # u => h.dma[k] = r.dma[k]
      BY <3>1, <3>3, <3>5, <3>6
    <3>8. /\ h.sb \in SbCard /\ h.sb.left = r.sb.left
          /\ h.sb.irq = r.sb.irq /\ h.sb.hdma = r.sb.hdma /\ h.sb.auto = r.sb.auto /\ h.sb.block = r.sb.block
          /\ h.sb.needed = r.sb.needed /\ h.sb.index = r.sb.index /\ h.sb.cmd = r.sb.cmd
          /\ h.sb.lines = r.sb.lines /\ h.sb.status = r.sb.status
      BY <3>3, <3>4, ZenonT(40) DEF SbCard
    <3>9. h \in SbWorld
      BY <3>3, <3>4, <3>7, <3>8 DEF SbWorld
    <3>10. \A k \in Controllers : /\ h.dma[k].base = w.dma[k].base /\ h.dma[k].now = w.dma[k].now
                                  /\ h.dma[k].dreq => w.dma[k].dreq
      BY <2>11, <3>5, <3>7
    <3> QED
      BY <2>11, <3>4, <3>8, <3>9, <3>10 DEF h
  <2>13. fact(told)
    <3> HIDE DEF fact
    <3> QED
      BY <2>9, <2>11, <2>12 DEF told
  <2> HIDE DEF r, bit
  <2>14. told.sb \in SbCard /\ told.dma \in [Controllers -> DmaChan] /\ told.tally \in SbTally
    BY <2>13, SbParts
  <2> DEFINE nb == NextBlock(till - n, s.block)
  <2>15. nb \in Int
    BY <1>5, <2>2, <2>4, NextBlockType
  <2>16. /\ busy.dma = told.dma /\ busy.tally = t /\ busy.sb = [told.sb EXCEPT !.left = nb]
         /\ busy \in SbWorld
    <3> HIDE DEF nb
    <3>1. busy = [told EXCEPT !.sb.left = nb]
      BY <2>13, <2>14 DEF busy, nb, SbWorld, SbCard
    <3> QED
      BY <2>13, <2>14, <2>15, <3>1, SMTT(30) DEF SbWorld, SbCard
  <2> HIDE DEF nb
  <2>17. /\ busy.sb \in SbCard /\ busy.sb.left = nb
         /\ busy.sb.irq = s.irq /\ busy.sb.hdma = s.hdma /\ busy.sb.auto = s.auto /\ busy.sb.block = s.block
         /\ busy.sb.needed = s.needed /\ busy.sb.index = s.index /\ busy.sb.cmd = s.cmd
         /\ busy.sb.lines = told.sb.lines /\ busy.sb.status = told.sb.status
    BY <2>13, <2>14, <2>15, <2>16 DEF SbCard
  <2> DEFINE f == told.dma[c]
             e == Position(f, c, pos)
  <2>18. /\ v.dma = [told.dma EXCEPT ![c] = e] /\ v.sb = busy.sb /\ v.tally = t
         /\ v = [dma |-> v.dma, sb |-> v.sb, tally |-> v.tally]
    <3>1. busy = [dma |-> busy.dma, sb |-> busy.sb, tally |-> busy.tally]
      BY <2>16, SbParts
    <3> QED
      BY <2>1, <2>16, <3>1
  <2>19. f \in DmaChan /\ f.base = d.base /\ (f.dreq => d.dreq)
    BY <2>13, <2>14 DEF d
  <2>20. e \in DmaChan /\ e.now = pos /\ e.base = d.base /\ e.dreq = f.dreq
    <3> HIDE DEF f
    <3> QED
      BY <2>5, <2>19 DEF DmaChan, Position
  <2> HIDE DEF e
  <2>21. /\ v.dma \in [Controllers -> DmaChan]
         /\ v.dma[c] = e /\ \A k \in Controllers : k # c => v.dma[k] = told.dma[k]
    BY <2>14, <2>18, <2>20
  <2>22. v \in SbWorld
    BY <2>6, <2>17, <2>18, <2>21 DEF SbWorld
  <2>23. \A k \in Controllers : /\ v.dma[k].base = w.dma[k].base
                                /\ v.dma[k].dreq => w.dma[k].dreq
    BY <2>13, <2>19, <2>20, <2>21 DEF d
  <2>24. len > d.now /\ ~s.auto => n <= till
    BY <1>4, <2>2, <2>3, <2>4 DEF copy
  <2>25. /\ n \in Nat /\ s.block > 0 /\ v.tally = Tally(w.tally, s, n, len)
         /\ v.dma[c].now = (d.now + n) % len /\ v.sb.left = NextBlock(till - n, s.block)
    BY <2>2, <2>4, <2>17, <2>18, <2>20, <2>21 DEF t, pos, nb
  <2>26. /\ SbKeeps(v, w)
         /\ v.sb.irq = s.irq /\ v.sb.hdma = s.hdma /\ v.sb.auto = s.auto /\ v.sb.block = s.block
         /\ v.tally.stray = w.tally.stray /\ v.tally.steady = w.tally.steady
         /\ \/ v.sb.lines = s.lines /\ v.sb.status = s.status
            \/ v.sb.lines = s.lines \cup {s.irq} /\ v.sb.status # {}
    BY <2>6, <2>13, <2>17, <2>18 DEF SbKeeps, s
  <2> QED
    BY <1>1, <2>22, <2>23, <2>24, <2>25, <2>26 DEF s, d, len, till
<1> QED
  BY <1>6, <1>7

\* Only the base of a channel decides its length, and only hdma the channel.
LEMMA LengthSame ==
  ASSUME NEW d, NEW e, d.base = e.base, NEW c
  PROVE  DmaLength(d, c) = DmaLength(e, c)
BY DEF DmaLength

\* hdma alone decides which channel the card uses.
LEMMA UseSame ==
  ASSUME NEW s, NEW t, s.hdma = t.hdma
  PROVE  Use(s) = Use(t)
BY DEF Use

\* Interrupts raised with a status leave every line with its cause.
LEMMA CausedStays ==
  ASSUME NEW v, NEW w, SbCaused(w), v.sb.irq = w.sb.irq, v.tally.stray = w.tally.stray,
         \/ v.sb.lines = w.sb.lines /\ v.sb.status = w.sb.status
         \/ v.sb.lines = w.sb.lines \cup {w.sb.irq} /\ v.sb.status # {}
  PROVE  SbCaused(v)
<1>1. CASE v.sb.lines = w.sb.lines /\ v.sb.status = w.sb.status
  BY <1>1 DEF SbCaused
<1>2. CASE v.sb.lines = w.sb.lines \cup {w.sb.irq} /\ v.sb.status # {}
  BY <1>2 DEF SbCaused
<1> QED
  BY <1>1, <1>2

\* SB_read_DMA on a channel that runs keeps the accounts.
LEMMA ReadKeeps ==
  ASSUME NEW w, SbCore(w), NEW c \in Controllers, Runs(w.dma[c])
  PROVE  SbCore(SbReadDma(w, c)) /\ SbKeeps(SbReadDma(w, c), w)
<1> DEFINE v == SbReadDma(w, c)
           s == w.sb
           len == DmaLength(w.dma[c], c)
           till == IF s.left < 0 THEN s.block ELSE s.left
<1>1. w \in SbWorld /\ SbCaused(w) /\ SbExact(w) /\ (w.tally.steady => s.block > 0)
  BY DEF SbCore, SbExact
<1>2. /\ v \in SbWorld
      /\ SbKeeps(v, w)
      /\ v.sb.irq = s.irq /\ v.sb.hdma = s.hdma /\ v.sb.auto = s.auto /\ v.sb.block = s.block
      /\ v.tally.stray = w.tally.stray /\ v.tally.steady = w.tally.steady
      /\ \/ v.sb.lines = s.lines /\ v.sb.status = s.status
         \/ v.sb.lines = s.lines \cup {s.irq} /\ v.sb.status # {}
      /\ \A k \in Controllers : /\ v.dma[k].base = w.dma[k].base
                                /\ v.dma[k].dreq => w.dma[k].dreq
      /\ \/ /\ v.tally = w.tally /\ v.dma[c].now = w.dma[c].now
            /\ v.sb.left = s.left \/ v.sb.left = till
         \/ \E n \in Nat :
              /\ s.block > 0
              /\ v.tally = Tally(w.tally, s, n, len)
              /\ v.dma[c].now = (w.dma[c].now + n) % len
              /\ v.sb.left = NextBlock(till - n, s.block)
              /\ len > w.dma[c].now /\ ~s.auto => n <= till
  BY <1>1, ReadFacts
<1> HIDE DEF v
<1>3. SbCaused(v)
  BY <1>1, <1>2, CausedStays
<1>4. /\ w.dma \in [Controllers -> DmaChan] /\ s \in SbCard /\ w.tally \in SbTally
      /\ s.left \in Int /\ s.block \in Int /\ w.tally.moved \in Nat /\ w.dma[c] \in DmaChan
      /\ w.dma[c].now \in Nat
  BY <1>1, SbParts DEF SbCard, SbTally, DmaChan
<1>5. len \in Nat \ {0}
  BY <1>4, DmaLengthType
<1>6. w.dma[c].dreq
  BY DEF Runs
<1>7. w.tally.steady => c = Use(s)
  BY <1>1, <1>6 DEF SbExact
<1>8. Use(v.sb) = Use(s) /\ DmaLength(v.dma[c], c) = len
  BY <1>2, UseSame, LengthSame
<1> HIDE DEF s, len, till
<1>9. /\ ~w.tally.over
      /\ w.tally.steady =>
           /\ s.block \in Nat \ {0} /\ c = Use(s)
           /\ s.left = s.block - (w.tally.moved % s.block)
           /\ w.dma[c].now = w.tally.moved % len
           /\ \A k \in Controllers : w.dma[k].dreq => k = c
  BY <1>1, <1>4, <1>7 DEF SbExact, s, len
<1>10. w.tally.steady => s.left \in 1 .. s.block /\ till = s.left /\ w.dma[c].now < len
  <2> SUFFICES ASSUME w.tally.steady PROVE s.left \in 1 .. s.block /\ till = s.left /\ w.dma[c].now < len
    OBVIOUS
  <2>1. s.left \in 1 .. s.block
    <3>1. 0 \in Nat
      OBVIOUS
    <3> QED
      BY <1>4, <1>9, <3>1, LeftMoves
  <2>2. w.tally.moved % len \in 0 .. len - 1
    <3>1. w.tally.moved \in Int
      BY <1>4
    <3> QED
      BY <1>5, <3>1, DivMod
  <2> QED
    BY <1>4, <1>5, <1>9, <2>1, <2>2 DEF till
<1>11. SbExact(v)
  <2>1. CASE /\ v.tally = w.tally /\ v.dma[c].now = w.dma[c].now
             /\ v.sb.left = s.left \/ v.sb.left = till
    <3>1. ~v.tally.over
      BY <1>9, <2>1
    <3>2. ASSUME v.tally.steady
          PROVE  /\ v.sb.block > 0
                 /\ v.sb.left = v.sb.block - (v.tally.moved % v.sb.block)
                 /\ v.dma[c].now = v.tally.moved % DmaLength(v.dma[c], c)
                 /\ Use(v.sb) = c
                 /\ \A k \in Controllers : v.dma[k].dreq => k = c
      BY <1>2, <1>4, <1>8, <1>9, <1>10, <2>1, <3>2 DEF s
    <3> QED
      BY <3>1, <3>2 DEF SbExact
  <2>2. CASE \E n \in Nat :
              /\ s.block > 0
              /\ v.tally = Tally(w.tally, s, n, len)
              /\ v.dma[c].now = (w.dma[c].now + n) % len
              /\ v.sb.left = NextBlock(till - n, s.block)
              /\ len > w.dma[c].now /\ ~s.auto => n <= till
    <3>1. PICK n \in Nat :
              /\ s.block > 0
              /\ v.tally = Tally(w.tally, s, n, len)
              /\ v.dma[c].now = (w.dma[c].now + n) % len
              /\ v.sb.left = NextBlock(till - n, s.block)
              /\ len > w.dma[c].now /\ ~s.auto => n <= till
      BY <2>2
    <3>2. /\ v.tally.steady = w.tally.steady
          /\ w.tally.steady => v.tally.moved = (w.tally.moved + n) % (s.block * len)
          /\ v.tally.over => w.tally.over \/ (w.tally.steady /\ ~s.auto /\ n > s.left)
      <4> DEFINE t == w.tally
                 u == Tally(t, s, n, len)
      <4>1. t \in SbTally /\ s \in SbCard /\ n \in Nat /\ len \in Nat \ {0} /\ (t.steady => s.block > 0)
        BY <1>4, <1>5, <3>1
      <4> HIDE DEF t
      <4>2. /\ u.steady = t.steady
            /\ t.steady => u.moved = (t.moved + n) % (s.block * len)
            /\ u.over => t.over \/ (t.steady /\ ~s.auto /\ n > s.left)
        BY <4>1, TallyType
      <4>3. v.tally = u
        BY <3>1 DEF t
      <4> HIDE DEF u
      <4> QED
        BY <4>2, <4>3 DEF t
    <3>3. ~v.tally.over
      <4>1. ~(w.tally.steady /\ ~s.auto /\ n > s.left)
        BY <1>4, <1>5, <1>10, <3>1
      <4> QED
        BY <1>9, <3>2, <4>1
    <3>4. ASSUME v.tally.steady
          PROVE  /\ v.sb.block > 0
                 /\ v.sb.left = v.sb.block - (v.tally.moved % v.sb.block)
                 /\ v.dma[c].now = v.tally.moved % DmaLength(v.dma[c], c)
                 /\ Use(v.sb) = c
                 /\ \A k \in Controllers : v.dma[k].dreq => k = c
      <4> DEFINE m == w.tally.moved
                 b == s.block
      <4>1. m \in Nat /\ b \in Nat \ {0} /\ v.tally.moved = (m + n) % (b * len) /\ v.sb.block = b
        BY <1>2, <1>4, <1>9, <3>2, <3>4 DEF s
      <4>2. v.sb.left = NextBlock(s.left - n, b) /\ s.left = b - (m % b) /\ s.left \in Int
        BY <1>4, <1>9, <1>10, <3>1, <3>2, <3>4
      <4>3. v.dma[c].now = ((m % len) + n) % len
        BY <1>9, <3>1, <3>2, <3>4
      <4> HIDE DEF m, b
      <4>4. v.sb.left = b - ((m + n) % b)
        <5> DEFINE l == s.left
        <5>1. b \in Nat \ {0} /\ m \in Nat /\ n \in Nat /\ l \in Int /\ l = b - (m % b)
          BY <4>1, <4>2
        <5>2. v.sb.left = NextBlock(l - n, b)
          BY <4>2
        <5> HIDE DEF l
        <5>3. NextBlock(l - n, b) = b - ((m + n) % b)
          BY <5>1, LeftMoves, Zenon
        <5> QED
          BY <5>2, <5>3, Zenon
      <4>5. m \in Int /\ n \in Int /\ m + n \in Int
        BY <4>1
      <4>6. v.dma[c].now = (m + n) % len
        BY <1>5, <4>3, <4>5, ModAdd
      <4>7. (v.tally.moved % b) = (m + n) % b /\ (v.tally.moved % len) = (m + n) % len
        <5>1. /\ ((m + n) % (b * len)) % b = (m + n) % b
              /\ ((m + n) % (b * len)) % len = (m + n) % len
          BY <1>5, <4>1, <4>5, ModMul
        <5> QED
          BY <4>1, <5>1
      <4>8. v.sb.left = b - (v.tally.moved % b) /\ v.dma[c].now = v.tally.moved % len /\ b > 0
        BY <4>1, <4>4, <4>6, <4>7
      <4> QED
        BY <1>2, <1>8, <1>9, <3>2, <3>4, <4>1, <4>8 DEF s
    <3> QED
      BY <3>3, <3>4 DEF SbExact
  <2> QED
    BY <1>2, <2>1, <2>2 DEF s, len, till
<1> QED
  BY <1>2, <1>3, <1>11 DEF SbCore, v

\* What the accounts do not look at may change.
LEMMA CoreSame ==
  ASSUME NEW w, SbCore(w), NEW v \in SbWorld,
         v.sb.lines = w.sb.lines, v.sb.status = w.sb.status, v.sb.irq = w.sb.irq,
         v.tally.stray = w.tally.stray, v.tally.over = w.tally.over,
         \/ ~v.tally.steady
         \/ /\ v.sb.hdma = w.sb.hdma /\ v.sb.block = w.sb.block /\ v.sb.left = w.sb.left
            /\ v.tally.steady = w.tally.steady /\ v.tally.moved = w.tally.moved
            /\ \A c \in Controllers : /\ v.dma[c].base = w.dma[c].base /\ v.dma[c].now = w.dma[c].now
                                      /\ v.dma[c].dreq => w.dma[c].dreq
  PROVE  SbCore(v)
<1>1. SbCaused(v)
  BY CausedStays DEF SbCore
<1>2. SbExact(v)
  <2>1. CASE ~v.tally.steady
    BY <2>1 DEF SbCore, SbExact
  <2>2. CASE /\ v.sb.hdma = w.sb.hdma /\ v.sb.block = w.sb.block /\ v.sb.left = w.sb.left
             /\ v.tally.steady = w.tally.steady /\ v.tally.moved = w.tally.moved
             /\ \A c \in Controllers : /\ v.dma[c].base = w.dma[c].base /\ v.dma[c].now = w.dma[c].now
                                       /\ v.dma[c].dreq => w.dma[c].dreq
    <3>1. Use(v.sb) = Use(w.sb) /\ Use(w.sb) \in Controllers
      BY <2>2, UseSame, UseType
    <3>2. DmaLength(v.dma[Use(w.sb)], Use(w.sb)) = DmaLength(w.dma[Use(w.sb)], Use(w.sb))
      BY <2>2, <3>1, LengthSame
    <3> QED
      BY <2>2, <3>1, <3>2 DEF SbCore, SbExact
  <2> QED
    BY <2>1, <2>2
<1> QED
  BY <1>1, <1>2 DEF SbCore

\* i8257_dma_run.
LEMMA DmaRunKeeps ==
  ASSUME NEW w, SbCore(w), NEW c \in Controllers
  PROVE  SbCore(DmaRun(w, c)) /\ SbKeeps(DmaRun(w, c), w)
BY ReadKeeps DEF DmaRun, SbKeeps

\* A request of the channel in use, or its end.
LEMMA RequestKeeps ==
  ASSUME NEW w, SbCore(w), NEW hold \in BOOLEAN, NEW v,
         v = [w EXCEPT !.sb.running = hold, !.dma[Use(w.sb)].dreq = hold]
  PROVE  SbCore(v) /\ SbKeeps(v, w)
<1> DEFINE u == Use(w.sb)
           d == [w.dma[u] EXCEPT !.dreq = hold]
<1>1. u \in Controllers
  BY UseType
<1>2. /\ w.dma \in [Controllers -> DmaChan] /\ w.sb \in SbCard /\ w.tally \in SbTally
      /\ w = [dma |-> w.dma, sb |-> w.sb, tally |-> w.tally]
  BY SbParts DEF SbCore
<1> HIDE DEF u
<1>3. /\ v.dma = [w.dma EXCEPT ![u] = d] /\ v.sb = [w.sb EXCEPT !.running = hold]
      /\ v.tally = w.tally /\ v = [dma |-> v.dma, sb |-> v.sb, tally |-> v.tally]
  BY <1>2 DEF u
<1>4. d \in DmaChan /\ d.base = w.dma[u].base /\ d.now = w.dma[u].now
  BY <1>1, <1>2 DEF DmaChan
<1> HIDE DEF d
<1>5. /\ v.dma \in [Controllers -> DmaChan] /\ v.dma[u] = d
      /\ \A c \in Controllers : c # u => v.dma[c] = w.dma[c]
  BY <1>1, <1>2, <1>3, <1>4
<1>6. /\ v.sb \in SbCard /\ v.sb.lines = w.sb.lines /\ v.sb.status = w.sb.status /\ v.sb.irq = w.sb.irq
      /\ v.sb.hdma = w.sb.hdma /\ v.sb.block = w.sb.block /\ v.sb.left = w.sb.left
      /\ v.sb.needed = w.sb.needed /\ v.sb.index = w.sb.index /\ v.sb.cmd = w.sb.cmd
  BY <1>2, <1>3 DEF SbCard
<1>7. v \in SbWorld
  BY <1>2, <1>3, <1>5, <1>6 DEF SbWorld
<1>8. SbCaused(v)
  BY <1>3, <1>6, CausedStays DEF SbCore
<1>9. Use(v.sb) = u /\ DmaLength(v.dma[u], u) = DmaLength(w.dma[u], u)
  BY <1>4, <1>5, <1>6, UseSame, LengthSame DEF u
<1>10. /\ ~w.tally.over
       /\ w.tally.steady =>
            /\ w.sb.block > 0
            /\ w.sb.left = w.sb.block - (w.tally.moved % w.sb.block)
            /\ w.dma[u].now = w.tally.moved % DmaLength(w.dma[u], u)
            /\ \A c \in Controllers : w.dma[c].dreq => c = u
  BY DEF SbCore, SbExact, u
<1>11. SbExact(v)
  <2>1. ~v.tally.over
    BY <1>3, <1>10
  <2>2. ASSUME v.tally.steady
        PROVE  /\ v.sb.block > 0
               /\ v.sb.left = v.sb.block - (v.tally.moved % v.sb.block)
               /\ v.dma[u].now = v.tally.moved % DmaLength(v.dma[u], u)
    BY <1>3, <1>4, <1>5, <1>6, <1>9, <1>10, <2>2
  <2>3. ASSUME v.tally.steady, NEW c \in Controllers, v.dma[c].dreq
        PROVE  c = u
    BY <1>3, <1>5, <1>10, <2>3
  <2> QED
    BY <1>9, <2>1, <2>2, <2>3 DEF SbExact
<1> QED
  BY <1>3, <1>6, <1>7, <1>8, <1>11 DEF SbCore, SbKeeps

\* control.
LEMMA ControlKeeps ==
  ASSUME NEW w, SbCore(w), NEW hold \in BOOLEAN
  PROVE  SbCore(Control(w, hold)) /\ SbKeeps(Control(w, hold), w)
<1> DEFINE c == Use(w.sb)
           x == [w EXCEPT !.sb.running = hold, !.dma[c].dreq = hold]
           y == DmaRun(x, c)
           v == [y EXCEPT !.sb.active = hold]
<1>1. c \in Controllers
  BY UseType
<1>2. SbCore(x) /\ SbKeeps(x, w)
  BY RequestKeeps
<1> HIDE DEF x
<1>3. SbCore(y) /\ SbKeeps(y, x)
  BY <1>1, <1>2, DmaRunKeeps
<1> HIDE DEF y
<1>4. y.sb \in SbCard /\ y \in SbWorld
  BY <1>3, SbParts DEF SbCore
<1>5. /\ v \in SbWorld /\ v.dma = y.dma /\ v.tally = y.tally /\ v.sb = [y.sb EXCEPT !.active = hold]
  BY <1>4 DEF SbWorld, SbCard
<1> HIDE DEF v
<1>6. /\ v.sb.lines = y.sb.lines /\ v.sb.status = y.sb.status /\ v.sb.irq = y.sb.irq
      /\ v.sb.hdma = y.sb.hdma /\ v.sb.block = y.sb.block /\ v.sb.left = y.sb.left
      /\ v.sb.needed = y.sb.needed /\ v.sb.index = y.sb.index /\ v.sb.cmd = y.sb.cmd
  BY <1>4, <1>5 DEF SbCard
<1>7. SbCore(v)
  BY <1>3, <1>5, <1>6, CoreSame
<1>8. SbKeeps(v, w)
  BY <1>2, <1>3, <1>5, <1>6 DEF SbKeeps
<1>9. Control(w, hold) = v
  BY DEF Control, v, y, x
<1> QED
  BY <1>7, <1>8, <1>9

\* A transfer that is started: the accounts begin at 0.
LEMMA TransferStarts ==
  ASSUME NEW w, SbCore(w), NEW s \in SbCard,
         s.lines = w.sb.lines, s.status = w.sb.status, s.irq = w.sb.irq, s.left = s.block,
         s.needed = w.sb.needed, s.index = w.sb.index, s.cmd = w.sb.cmd
  PROVE  SbCore(Start(w, s)) /\ SbKeeps(Start(w, s), w)
<1> DEFINE u == Use(s)
           o == Use([s EXCEPT !.hdma = ~@])
           steady == s.block > 0 /\ w.dma[u].now = 0 /\ ~w.dma[o].dreq
           x == [w EXCEPT !.sb = s, !.tally.moved = 0, !.tally.steady = steady]
<1>1. u \in Controllers /\ o \in Controllers /\ \A c \in Controllers : c = u \/ c = o
  BY DEF Use, Controllers, SbCard
<1>2. /\ w.dma \in [Controllers -> DmaChan] /\ w.tally \in SbTally /\ w \in SbWorld
  BY SbParts DEF SbCore
<1>3. steady \in BOOLEAN
  OBVIOUS
<1> HIDE DEF steady
<1>4. /\ x \in SbWorld /\ x.dma = w.dma /\ x.sb = s
      /\ x.tally = [w.tally EXCEPT !.moved = 0, !.steady = steady]
  BY <1>2, <1>3 DEF SbWorld, SbTally
<1> HIDE DEF x
<1>5. /\ x.tally.moved = 0 /\ x.tally.steady = steady /\ x.tally.stray = w.tally.stray
      /\ x.tally.over = w.tally.over /\ x.tally.adpcm = w.tally.adpcm
  BY <1>2, <1>3, <1>4 DEF SbTally
<1> HIDE DEF u, o
<1>6. SbCaused(x)
  BY <1>4, <1>5, CausedStays DEF SbCore
<1>7. SbExact(x)
  <2>1. ~x.tally.over
    BY <1>5 DEF SbCore, SbExact
  <2>2. ASSUME steady
        PROVE  /\ x.sb.block > 0
               /\ x.sb.left = x.sb.block - (x.tally.moved % x.sb.block)
               /\ x.dma[u].now = x.tally.moved % DmaLength(x.dma[u], u)
               /\ \A c \in Controllers : x.dma[c].dreq => c = u
    <3> DEFINE len == DmaLength(w.dma[u], u)
    <3>1. s.block \in Nat \ {0} /\ w.dma[u].now = 0 /\ ~w.dma[o].dreq
      BY <2>2 DEF steady, SbCard
    <3>2. len \in Nat \ {0}
      BY <1>1, <1>2, DmaLengthType
    <3> HIDE DEF len
    <3>3. 0 % s.block = 0 /\ 0 % len = 0
      BY <3>1, <3>2
    <3>4. s.left = s.block - (0 % s.block)
      BY <3>1, <3>3
    <3> QED
      BY <1>1, <1>4, <1>5, <3>1, <3>3, <3>4 DEF len
  <2> QED
    BY <1>4, <1>5, <2>1, <2>2 DEF SbExact, u
<1>8. SbCore(x)
  BY <1>4, <1>6, <1>7 DEF SbCore
<1>9. SbCore(Control(x, TRUE)) /\ SbKeeps(Control(x, TRUE), x)
  BY <1>8, ControlKeeps
<1>10. Start(w, s) = Control(x, TRUE)
  BY DEF Start, x, steady, u, o
<1>11. SbKeeps(x, w)
  BY <1>4, <1>5 DEF SbKeeps
<1> QED
  BY <1>9, <1>10, <1>11 DEF SbKeeps

\* Registers of the card that the accounts do not look at.
LEMMA CardSame ==
  ASSUME NEW w, SbCore(w), NEW s \in SbCard,
         s.lines = w.sb.lines, s.status = w.sb.status, s.irq = w.sb.irq,
         s.hdma = w.sb.hdma, s.block = w.sb.block, s.left = w.sb.left
  PROVE  LET v == [w EXCEPT !.sb = s] IN
         SbCore(v) /\ v.sb = s /\ v.tally = w.tally /\ v.dma = w.dma
<1> DEFINE v == [w EXCEPT !.sb = s]
<1>1. w \in SbWorld
  BY DEF SbCore
<1>2. v \in SbWorld /\ v.sb = s /\ v.tally = w.tally /\ v.dma = w.dma
  BY <1>1 DEF SbWorld
<1> HIDE DEF v
<1>3. SbCore(v)
  BY <1>2, CoreSame
<1> QED
  BY <1>2, <1>3 DEF v

\* The transfer is disturbed: the accounts are not compared any more.
LEMMA Disturbed ==
  ASSUME NEW w, SbCore(w), NEW s \in SbCard, NEW d \in [Controllers -> DmaChan],
         s.lines = w.sb.lines, s.status = w.sb.status, s.irq = w.sb.irq,
         s.needed = w.sb.needed, s.index = w.sb.index, s.cmd = w.sb.cmd
  PROVE  LET v == [w EXCEPT !.dma = d, !.sb = s, !.tally.steady = FALSE, !.tally.moved = 0] IN
         SbCore(v) /\ SbKeeps(v, w)
<1> DEFINE v == [w EXCEPT !.dma = d, !.sb = s, !.tally.steady = FALSE, !.tally.moved = 0]
<1>1. w \in SbWorld /\ w.tally \in SbTally
  BY SbParts DEF SbCore
<1>2. v \in SbWorld /\ v.sb = s /\ v.tally = [w.tally EXCEPT !.steady = FALSE, !.moved = 0]
  BY <1>1 DEF SbWorld, SbTally
<1> HIDE DEF v
<1>3. ~v.tally.steady /\ v.tally.stray = w.tally.stray /\ v.tally.over = w.tally.over /\ v.tally.adpcm = w.tally.adpcm
  BY <1>1, <1>2 DEF SbTally
<1>4. SbCore(v)
  BY <1>2, <1>3, CoreSame
<1> QED
  BY <1>2, <1>3, <1>4 DEF v, SbKeeps

\* dsp_out_data.
LEMMA OutKeeps ==
  ASSUME NEW w, SbCore(w), NEW n \in Nat
  PROVE  SbCore(Out(w, n)) /\ SbKeeps(Out(w, n), w)
<1> DEFINE s == [w.sb EXCEPT !.out = AtMost(w.sb.out + n, OutCap)]
<1>1. w \in SbWorld /\ w.sb \in SbCard
  BY SbParts DEF SbCore
<1>2. AtMost(w.sb.out + n, OutCap) \in Nat
  BY <1>1, SbAssumption DEF AtMost, SbCard
<1>3. /\ s \in SbCard
      /\ s.lines = w.sb.lines /\ s.status = w.sb.status /\ s.irq = w.sb.irq
      /\ s.hdma = w.sb.hdma /\ s.block = w.sb.block /\ s.left = w.sb.left
      /\ s.needed = w.sb.needed /\ s.index = w.sb.index /\ s.cmd = w.sb.cmd
  BY <1>1, <1>2 DEF SbCard
<1>4. Out(w, n) = [w EXCEPT !.sb = s]
  BY <1>1 DEF Out, SbWorld
<1> HIDE DEF s
<1>5. LET v == [w EXCEPT !.sb = s] IN SbCore(v) /\ v.sb = s /\ v.tally = w.tally
  BY <1>3, CardSame
<1> QED
  BY <1>3, <1>4, <1>5 DEF SbKeeps

\* An interrupt with its status bit.
LEMMA SignalKeeps ==
  ASSUME NEW w, SbCore(w), NEW bit \in {8, 16}
  PROVE  LET v == Raise(Out([w EXCEPT !.sb.status = @ \cup {bit}], 1)) IN
         SbCore(v) /\ SbKeeps(v, w)
<1> DEFINE x == [w EXCEPT !.sb.status = @ \cup {bit}]
           s == [w.sb EXCEPT !.status = @ \cup {bit}]
           o == AtMost(x.sb.out + 1, OutCap)
           r == [s EXCEPT !.out = o, !.lines = @ \cup {s.irq}]
           v == [w EXCEPT !.sb = r]
<1>1. w \in SbWorld /\ w.sb \in SbCard /\ SbCaused(w)
  BY SbParts DEF SbCore
<1>2. s \in SbCard /\ s.status = w.sb.status \cup {bit}
  BY <1>1 DEF SbCard
<1>3. x = [w EXCEPT !.sb = s] /\ x.sb = s
  BY <1>1 DEF SbWorld
<1>4. o \in Nat
  BY <1>2, <1>3, SbAssumption DEF AtMost, SbCard
<1> HIDE DEF x
<1>5. Raise(Out(x, 1)) = v
  <2> HIDE DEF o, s
  <2> DEFINE q == [s EXCEPT !.out = o]
             y == [w EXCEPT !.sb = q]
  <2>1. Out(x, 1) = y
    BY <1>1, <1>3 DEF Out, o, SbWorld
  <2>2. q.lines = s.lines /\ q.irq = s.irq
    BY <1>2 DEF SbCard
  <2>3. r = [q EXCEPT !.lines = s.lines \cup {s.irq}]
    BY <1>2 DEF SbCard
  <2> HIDE DEF q, r
  <2>4. y.sb = q
    BY <1>1 DEF SbWorld
  <2> HIDE DEF y
  <2>5. Raise(y) = [y EXCEPT !.sb = r]
    BY <2>2, <2>3, <2>4 DEF Raise
  <2>6. [y EXCEPT !.sb = r] = v
    BY <1>1 DEF SbWorld, y
  <2> QED
    BY <2>1, <2>5, <2>6
<1>6. /\ r \in SbCard /\ r.lines = s.lines \cup {s.irq} /\ r.status = s.status /\ r.irq = s.irq
      /\ r.hdma = s.hdma /\ r.block = s.block /\ r.left = s.left
      /\ r.needed = s.needed /\ r.index = s.index /\ r.cmd = s.cmd
  <2> HIDE DEF o, s
  <2> QED
    BY <1>2, <1>4 DEF SbCard
<1>7. /\ s.lines = w.sb.lines /\ s.irq = w.sb.irq
      /\ s.hdma = w.sb.hdma /\ s.block = w.sb.block /\ s.left = w.sb.left
      /\ s.needed = w.sb.needed /\ s.index = w.sb.index /\ s.cmd = w.sb.cmd
  BY <1>1 DEF SbCard
<1> HIDE DEF r
<1>8. v \in SbWorld /\ v.sb = r /\ v.tally = w.tally /\ v.dma = w.dma
  BY <1>1, <1>6 DEF SbWorld
<1> HIDE DEF v, s
<1>9. SbCaused(v)
  <2>1. v.sb.lines = w.sb.lines \cup {w.sb.irq} /\ v.sb.status # {} /\ v.sb.irq = w.sb.irq
    BY <1>2, <1>6, <1>7, <1>8
  <2> QED
    BY <1>1, <1>8, <2>1, CausedStays
<1>10. SbExact(v)
  <2>1. Use(v.sb) = Use(w.sb)
    BY <1>6, <1>7, <1>8, UseSame
  <2>2. v.sb.block = w.sb.block /\ v.sb.left = w.sb.left
    BY <1>6, <1>7, <1>8
  <2> QED
    BY <1>8, <2>1, <2>2 DEF SbCore, SbExact
<1> QED
  BY <1>5, <1>6, <1>7, <1>8, <1>9, <1>10 DEF SbCore, SbKeeps, x

\* dma_cmd8.
LEMMA Cmd8Keeps ==
  ASSUME NEW w, SbCore(w), NEW auto \in BOOLEAN, NEW len \in Int
  PROVE  SbCore(DmaCmd8(w, auto, len)) /\ SbKeeps(DmaCmd8(w, auto, len), w)
<1> DEFINE s     == w.sb
           st    == s.mix_stereo
           rate  == IF s.time_const THEN 2 * DefaultFreq ELSE IF s.freq <= 0 THEN DefaultFreq ELSE s.freq
           block == CASE len # -1 -> Times2(len, st)
                      [] st -> s.block - (s.block % 2)
                      [] OTHER -> s.block
           freq  == IF st THEN rate \div 2 ELSE rate
           y     == [s EXCEPT !.hdma = FALSE, !.bits = 8, !.signed = FALSE, !.stereo = st]
           al    == Times2(1, st)
           z     == [y EXCEPT !.freq = freq, !.block = block, !.left = block, !.auto = auto, !.align = al]
<1>1. s \in SbCard /\ st \in BOOLEAN /\ s.freq \in Int /\ s.block \in Int
  BY SbParts DEF SbCore, SbCard
<1> HIDE DEF s, st
<1>2. rate \in Int
  BY <1>1, SbAssumption
<1> HIDE DEF rate
<1>3. freq \in Int /\ block \in Int /\ al \in 1 .. 4
  BY <1>1, <1>2 DEF Times2
<1> HIDE DEF freq, block, al
<1>4. /\ z \in SbCard /\ z.left = z.block
      /\ z.lines = s.lines /\ z.status = s.status /\ z.irq = s.irq
      /\ z.needed = s.needed /\ z.index = s.index /\ z.cmd = s.cmd
  <2>1. /\ y \in SbCard
        /\ y.lines = s.lines /\ y.status = s.status /\ y.irq = s.irq
        /\ y.needed = s.needed /\ y.index = s.index /\ y.cmd = s.cmd
    BY <1>1, ZenonT(40) DEF SbCard
  <2> HIDE DEF y
  <2> QED
    BY <1>1, <1>3, <2>1 DEF SbCard
<1>5. DmaCmd8(w, auto, len) = Start(w, z)
  BY DEF DmaCmd8, z, y, freq, block, al, rate, st, s
<1> HIDE DEF z, y
<1> QED
  BY <1>4, <1>5, TransferStarts DEF s

\* dma_cmd.
LEMMA CmdKeeps ==
  ASSUME NEW w, SbCore(w), NEW bits \in {8, 16}, NEW auto \in BOOLEAN, NEW signed \in BOOLEAN,
         NEW stereo \in BOOLEAN, NEW len \in Nat
  PROVE  LET v == DmaCmd(w, bits, auto, signed, stereo, len) IN SbCore(v) /\ SbKeeps(v, w)
<1> DEFINE s     == w.sb
           block == Times2(Times2(len + 1, bits = 16), ~auto /\ stereo)
           hdma  == bits = 16
           freq  == IF s.time_const THEN 2 * DefaultFreq ELSE s.freq
           x     == [s EXCEPT !.hdma = hdma, !.bits = bits]
           y     == [x EXCEPT !.signed = signed, !.stereo = stereo, !.auto = auto]
           al    == Times2(Times2(1, bits = 16), stereo)
           z     == [y EXCEPT !.freq = freq, !.time_const = FALSE, !.block = block, !.left = block,
                              !.align = al]
<1>1. s \in SbCard /\ s.freq \in Int
  BY SbParts DEF SbCore, SbCard
<1>2. block \in Int /\ hdma \in BOOLEAN /\ freq \in Int /\ al \in 1 .. 4
  BY <1>1, SbAssumption DEF Times2
<1> HIDE DEF s, block, hdma, freq, al
<1>3. /\ z \in SbCard /\ z.left = z.block
      /\ z.lines = s.lines /\ z.status = s.status /\ z.irq = s.irq
      /\ z.needed = s.needed /\ z.index = s.index /\ z.cmd = s.cmd
  <2>1. /\ y \in SbCard
        /\ y.lines = s.lines /\ y.status = s.status /\ y.irq = s.irq
        /\ y.needed = s.needed /\ y.index = s.index /\ y.cmd = s.cmd
    <3>2. /\ x \in SbCard
          /\ x.lines = s.lines /\ x.status = s.status /\ x.irq = s.irq
          /\ x.needed = s.needed /\ x.index = s.index /\ x.cmd = s.cmd
      BY <1>1, <1>2 DEF SbCard
    <3> HIDE DEF x
    <3> QED
      BY <3>2, ZenonT(40) DEF SbCard
  <2> HIDE DEF y
  <2> QED
    BY <1>1, <1>2, <2>1, ZenonT(40) DEF SbCard
<1>4. DmaCmd(w, bits, auto, signed, stereo, len) = Start(w, z)
  BY <1>1 DEF DmaCmd, z, y, x, block, hdma, freq, al, s, SbCard
<1> HIDE DEF z, y
<1> QED
  BY <1>3, <1>4, TransferStarts DEF s

\* The DSP waits for the bytes of the command it has, and has fewer of them.
SbStepped(w) ==
  /\ w.sb.needed > 0 => w.sb.needed = Needed(w.sb.cmd)
  /\ ~w.tally.adpcm => IF w.sb.needed = 0 THEN w.sb.index = 0 ELSE w.sb.index < w.sb.needed

SbGood(w) == SbCore(w) /\ SbStepped(w)

\* The DSP stays in step over what leaves its place in the command alone.
LEMMA SteppedStays ==
  ASSUME NEW v, NEW w, SbStepped(w), SbKeeps(v, w)
  PROVE  SbStepped(v)
BY DEF SbStepped, SbKeeps

\* Registers of the card neither account looks at.
LEMMA PlainKeeps ==
  ASSUME NEW w, SbCore(w), NEW s \in SbCard,
         s.lines = w.sb.lines, s.status = w.sb.status, s.irq = w.sb.irq,
         s.hdma = w.sb.hdma, s.block = w.sb.block, s.left = w.sb.left,
         s.needed = w.sb.needed, s.index = w.sb.index, s.cmd = w.sb.cmd
  PROVE  SbCore([w EXCEPT !.sb = s]) /\ SbKeeps([w EXCEPT !.sb = s], w)
<1> DEFINE v == [w EXCEPT !.sb = s]
<1>1. SbCore(v) /\ v.sb = s /\ v.tally = w.tally
  BY CardSame
<1> HIDE DEF v
<1> QED
  BY <1>1 DEF SbKeeps, v

\* command: what is done at once keeps the accounts and the place in the command.
LEMMA AtOnceKeeps ==
  ASSUME NEW w, SbCore(w), NEW cmd
  PROVE  SbCore(AtOnce(w, cmd)) /\ SbKeeps(AtOnce(w, cmd), w)
<1>0. /\ w \in SbWorld /\ w.sb \in SbCard /\ w.dma \in [Controllers -> DmaChan] /\ w.tally \in SbTally
      /\ SbKeeps(w, w)
  BY SbParts DEF SbCore, SbKeeps
<1>1. SbCore(Out(w, 1)) /\ SbKeeps(Out(w, 1), w)
  BY OutKeeps
<1>2. SbCore(Out(w, 2)) /\ SbKeeps(Out(w, 2), w)
  BY OutKeeps
<1>3. SbCore(Out(w, OutCap)) /\ SbKeeps(Out(w, OutCap), w)
  BY OutKeeps, SbAssumption
<1>4. LET v == [w EXCEPT !.sb.block = 0, !.tally.steady = FALSE, !.tally.moved = 0] IN
      SbCore(v) /\ SbKeeps(v, w)
  <2> DEFINE s == [w.sb EXCEPT !.block = 0]
             d == w.dma
  <2>1. /\ s \in SbCard
        /\ s.lines = w.sb.lines /\ s.status = w.sb.status /\ s.irq = w.sb.irq
        /\ s.needed = w.sb.needed /\ s.index = w.sb.index /\ s.cmd = w.sb.cmd
    BY <1>0 DEF SbCard
  <2>2. [w EXCEPT !.sb.block = 0, !.tally.steady = FALSE, !.tally.moved = 0]
          = [w EXCEPT !.dma = d, !.sb = s, !.tally.steady = FALSE, !.tally.moved = 0]
    BY <1>0 DEF SbWorld
  <2>3. d \in [Controllers -> DmaChan]
    BY <1>0
  <2> HIDE DEF s, d
  <2>4. LET v == [w EXCEPT !.dma = d, !.sb = s, !.tally.steady = FALSE, !.tally.moved = 0] IN
        SbCore(v) /\ SbKeeps(v, w)
    BY <2>1, <2>3, Disturbed
  <2> QED
    BY <2>2, <2>4
<1>5. LET v == [w EXCEPT !.sb.freq = -1, !.sb.time_const = FALSE] IN SbCore(v) /\ SbKeeps(v, w)
  <2> DEFINE m == -1
             s == [w.sb EXCEPT !.freq = m, !.time_const = FALSE]
  <2>0. m \in Int
    OBVIOUS
  <2> HIDE DEF m
  <2>1. /\ s \in SbCard
        /\ s.lines = w.sb.lines /\ s.status = w.sb.status /\ s.irq = w.sb.irq
        /\ s.hdma = w.sb.hdma /\ s.block = w.sb.block /\ s.left = w.sb.left
        /\ s.needed = w.sb.needed /\ s.index = w.sb.index /\ s.cmd = w.sb.cmd
    BY <1>0, <2>0 DEF SbCard
  <2>2. [w EXCEPT !.sb.freq = -1, !.sb.time_const = FALSE] = [w EXCEPT !.sb = s]
    BY <1>0 DEF SbWorld, m
  <2> HIDE DEF s
  <2> QED
    BY <2>1, <2>2, PlainKeeps
<1>6. \A auto \in BOOLEAN : SbCore(DmaCmd8(w, auto, -1)) /\ SbKeeps(DmaCmd8(w, auto, -1), w)
  BY Cmd8Keeps
<1>7. \A hold \in BOOLEAN : SbCore(Control(w, hold)) /\ SbKeeps(Control(w, hold), w)
  BY ControlKeeps
<1>8. LET v == [w EXCEPT !.sb.auto = FALSE] IN SbCore(v) /\ SbKeeps(v, w)
  <2> DEFINE s == [w.sb EXCEPT !.auto = FALSE]
  <2>1. /\ s \in SbCard
        /\ s.lines = w.sb.lines /\ s.status = w.sb.status /\ s.irq = w.sb.irq
        /\ s.hdma = w.sb.hdma /\ s.block = w.sb.block /\ s.left = w.sb.left
        /\ s.needed = w.sb.needed /\ s.index = w.sb.index /\ s.cmd = w.sb.cmd
    BY <1>0 DEF SbCard
  <2>2. [w EXCEPT !.sb.auto = FALSE] = [w EXCEPT !.sb = s]
    BY <1>0 DEF SbWorld
  <2> HIDE DEF s
  <2> QED
    BY <2>1, <2>2, PlainKeeps
<1>9. /\ LET v == Raise(Out([w EXCEPT !.sb.status = @ \cup {8}], 1)) IN SbCore(v) /\ SbKeeps(v, w)
      /\ LET v == Raise(Out([w EXCEPT !.sb.status = @ \cup {16}], 1)) IN SbCore(v) /\ SbKeeps(v, w)
  BY SignalKeeps
<1> DEFINE a == AtOnce(w, cmd)
<1>10. \/ a = Out(w, 1) \/ a = Out(w, 2) \/ a = Out(w, OutCap)
       \/ a = [w EXCEPT !.sb.block = 0, !.tally.steady = FALSE, !.tally.moved = 0]
       \/ a = [w EXCEPT !.sb.freq = -1, !.sb.time_const = FALSE]
       \/ a = DmaCmd8(w, TRUE, -1) \/ a = DmaCmd8(w, FALSE, -1)
       \/ a = Control(w, FALSE) \/ a = Control(w, TRUE)
       \/ a = [w EXCEPT !.sb.auto = FALSE]
       \/ a = Raise(Out([w EXCEPT !.sb.status = @ \cup {8}], 1))
       \/ a = Raise(Out([w EXCEPT !.sb.status = @ \cup {16}], 1))
       \/ a = w
  BY DEF AtOnce
<1> HIDE DEF a
<1>11. SbCore(a) /\ SbKeeps(a, w)
  BY <1>0, <1>1, <1>2, <1>3, <1>4, <1>5, <1>6, <1>7, <1>8, <1>9, <1>10
<1> QED
  BY <1>11 DEF a

\* command: no command waits for more than three bytes.
LEMMA NeededType == ASSUME NEW cmd PROVE Needed(cmd) \in 0 .. 3
BY DEF Needed

\* command.
LEMMA CommandKeeps ==
  ASSUME NEW w, SbGood(w), w.sb.needed = 0, NEW cmd \in Commands
  PROVE  SbGood(Command(w, cmd))
<1> DEFINE n == Needed(cmd)
           s == [w.sb EXCEPT !.needed = n]
           x == [w EXCEPT !.sb.needed = n]
           y == AtOnce(x, cmd)
           k == IF n = 0 THEN "none" ELSE cmd
           v == [y EXCEPT !.sb.cmd = k]
<1>1. n \in 0 .. 3 /\ k \in {"none"} \cup Commands
  BY NeededType
<1> HIDE DEF n, k
<1>2. w \in SbWorld /\ w.sb \in SbCard /\ SbCore(w) /\ SbStepped(w)
  BY SbParts DEF SbGood, SbCore
<1>3. /\ s \in SbCard
      /\ s.lines = w.sb.lines /\ s.status = w.sb.status /\ s.irq = w.sb.irq
      /\ s.hdma = w.sb.hdma /\ s.block = w.sb.block /\ s.left = w.sb.left
      /\ s.needed = n /\ s.index = w.sb.index
  BY <1>1, <1>2 DEF SbCard
<1>4. x = [w EXCEPT !.sb = s]
  BY <1>2 DEF SbWorld
<1> HIDE DEF s, x
<1>5. SbCore(x) /\ x.sb.needed = n /\ x.sb.index = w.sb.index /\ x.tally = w.tally
  BY <1>2, <1>3, <1>4, CardSame
<1>6. SbCore(y) /\ SbKeeps(y, x)
  BY <1>5, AtOnceKeeps
<1> HIDE DEF y
<1>7. y \in SbWorld /\ y.sb \in SbCard
  BY <1>6, SbParts DEF SbCore
<1> DEFINE r == [y.sb EXCEPT !.cmd = k]
<1>8. /\ r \in SbCard
      /\ r.lines = y.sb.lines /\ r.status = y.sb.status /\ r.irq = y.sb.irq
      /\ r.hdma = y.sb.hdma /\ r.block = y.sb.block /\ r.left = y.sb.left
      /\ r.needed = y.sb.needed /\ r.index = y.sb.index /\ r.cmd = k
  BY <1>1, <1>7 DEF SbCard
<1>9. v = [y EXCEPT !.sb = r]
  BY <1>7 DEF SbWorld
<1> HIDE DEF r, v
<1>10. SbCore(v) /\ v.sb = r /\ v.tally = y.tally
  BY <1>6, <1>8, <1>9, CardSame
<1>11. SbStepped(v)
  <2>1. v.sb.needed = n /\ v.sb.index = w.sb.index /\ v.sb.cmd = k /\ v.tally.adpcm = w.tally.adpcm
    BY <1>5, <1>6, <1>8, <1>10 DEF SbKeeps
  <2>2. ~w.tally.adpcm => w.sb.index = 0
    BY <1>2 DEF SbStepped
  <2>3. n > 0 => n = Needed(k)
    BY <1>1 DEF k, n
  <2> QED
    BY <1>1, <2>1, <2>2, <2>3 DEF SbStepped
<1>12. Command(w, cmd) = v
  BY DEF Command, v, y, x, k, n
<1> QED
  BY <1>10, <1>11, <1>12 DEF SbGood

\* complete: whatever the arguments were.  w is the state after the bytes were taken.
LEMMA CompletedKeeps ==
  ASSUME NEW w, SbCore(w), w.sb.needed = 0, NEW cmd,
         ~w.tally.adpcm /\ cmd # "adpcm" => w.sb.index = 0,
         NEW v \in Completed(w, cmd)
  PROVE  SbGood(v)
<1>0. /\ w \in SbWorld /\ w.sb \in SbCard /\ w.dma \in [Controllers -> DmaChan] /\ w.tally \in SbTally
      /\ SbKeeps(w, w) /\ BlockLens \subseteq Nat /\ Freqs \subseteq Nat
  BY SbParts, SbAssumption DEF SbCore, SbKeeps
<1>1. ASSUME cmd # "adpcm", NEW x, SbKeeps(x, w)
      PROVE  SbStepped(x)
  BY <1>0, <1>1 DEF SbStepped, SbKeeps
<1> SUFFICES \/ cmd # "adpcm" /\ SbCore(v) /\ SbKeeps(v, w)
             \/ SbCore(v) /\ SbStepped(v)
  BY <1>1 DEF SbGood
<1> DEFINE ident  == Out([w EXCEPT !.sb.out = 0], 1)
           tconst == [w EXCEPT !.sb.time_const = TRUE]
           coded  == [w EXCEPT !.tally.adpcm = TRUE]
           hushed == Raise([w EXCEPT !.tally.stray = IF w.sb.status = {} THEN @ \cup {w.sb.irq} ELSE @])
<1>arms. Completed(w, cmd) =
      CASE cmd = "bytes" -> PlayBytes(w)
        [] cmd = "words" -> PlayWords(w)
        [] cmd = "dma8" -> PlaySingle(w)
        [] cmd = "answer1" -> {Out(w, 1)}
        [] cmd = "identify" -> {ident}
        [] cmd = "time_const" -> {tconst}
        [] cmd = "freq" -> SetFreq(w)
        [] cmd = "block" -> SetBlock(w)
        [] cmd = "adpcm" -> {coded}
        [] cmd = "silence" -> {w, hushed}
        [] OTHER -> {w}
  BY DEF Completed
<1> HIDE DEF ident, tconst, coded, hushed
<1>2. CASE cmd = "bytes"
  <2>1. PICK auto \in BOOLEAN, signed \in BOOLEAN, stereo \in BOOLEAN, len \in BlockLens :
          v = DmaCmd(w, 8, auto, signed, stereo, len)
    <3>1. v \in PlayBytes(w)
      BY <1>2, <1>arms
    <3> QED
      BY <3>1 DEF PlayBytes
  <2> QED
    BY <1>0, <1>2, <2>1, CmdKeeps
<1>3. CASE cmd = "words"
  <2>1. PICK auto \in BOOLEAN, stereo \in BOOLEAN, len \in BlockLens :
          v = DmaCmd(w, 16, auto, FALSE, stereo, len)
    <3>1. v \in PlayWords(w)
      BY <1>3, <1>arms
    <3> DEFINE no == FALSE
    <3>2. PlayWords(w) = { DmaCmd(w, 16, auto, no, stereo, len) : auto \in BOOLEAN, stereo \in BOOLEAN, len \in BlockLens }
      BY DEF PlayWords
    <3>3. PICK auto \in BOOLEAN, stereo \in BOOLEAN, len \in BlockLens : v = DmaCmd(w, 16, auto, no, stereo, len)
      <4> HIDE DEF no
      <4> QED
        BY <3>1, <3>2
    <3> QED
      BY <3>3
  <2> QED
    BY <1>0, <1>3, <2>1, CmdKeeps
<1>4. CASE cmd = "dma8"
  <2>1. PICK len \in BlockLens : v = DmaCmd8(w, FALSE, len + 1)
    <3>1. v \in PlaySingle(w)
      BY <1>4, <1>arms
    <3> QED
      BY <3>1 DEF PlaySingle
  <2>2. len + 1 \in Int
    BY <1>0
  <2> QED
    BY <1>4, <2>1, <2>2, Cmd8Keeps
<1>5. CASE cmd = "answer1"
  <2>1. v = Out(w, 1)
    BY <1>5, <1>arms
  <2> QED
    BY <1>5, <2>1, OutKeeps
<1>6. CASE cmd = "identify"
  <2> DEFINE s == [w.sb EXCEPT !.out = 0]
             x == [w EXCEPT !.sb = s]
  <2>1. v = Out([w EXCEPT !.sb.out = 0], 1)
    BY <1>6, <1>arms DEF ident
  <2>2. [w EXCEPT !.sb.out = 0] = x
    BY <1>0 DEF SbWorld
  <2>3. /\ s \in SbCard
        /\ s.lines = w.sb.lines /\ s.status = w.sb.status /\ s.irq = w.sb.irq
        /\ s.hdma = w.sb.hdma /\ s.block = w.sb.block /\ s.left = w.sb.left
        /\ s.needed = w.sb.needed /\ s.index = w.sb.index /\ s.cmd = w.sb.cmd
    BY <1>0 DEF SbCard
  <2> HIDE DEF s
  <2>4. SbCore(x) /\ SbKeeps(x, w)
    BY <2>3, PlainKeeps
  <2> HIDE DEF x
  <2>5. SbCore(Out(x, 1)) /\ SbKeeps(Out(x, 1), x)
    BY <2>4, OutKeeps
  <2> QED
    BY <1>6, <2>1, <2>2, <2>4, <2>5 DEF SbKeeps
<1>7. CASE cmd = "time_const"
  <2> DEFINE on == TRUE
             s == [w.sb EXCEPT !.time_const = on]
  <2>0. on \in BOOLEAN
    OBVIOUS
  <2>1. v = [w EXCEPT !.sb.time_const = TRUE]
    BY <1>7, <1>arms DEF tconst
  <2>2. v = [w EXCEPT !.sb = s]
    BY <1>0, <2>1 DEF SbWorld
  <2> HIDE DEF on
  <2>3. /\ s \in SbCard
        /\ s.lines = w.sb.lines /\ s.status = w.sb.status /\ s.irq = w.sb.irq
        /\ s.hdma = w.sb.hdma /\ s.block = w.sb.block /\ s.left = w.sb.left
        /\ s.needed = w.sb.needed /\ s.index = w.sb.index /\ s.cmd = w.sb.cmd
    BY <1>0, <2>0 DEF SbCard
  <2> HIDE DEF s
  <2> QED
    BY <1>7, <2>2, <2>3, PlainKeeps
<1>8. CASE cmd = "freq"
  <2>1. PICK f \in Freqs : v = [w EXCEPT !.sb.freq = f]
    <3>1. v \in SetFreq(w)
      BY <1>8, <1>arms
    <3> QED
      BY <3>1 DEF SetFreq
  <2> DEFINE s == [w.sb EXCEPT !.freq = f]
  <2>2. v = [w EXCEPT !.sb = s]
    BY <1>0, <2>1 DEF SbWorld
  <2>3. f \in Int
    BY <1>0
  <2>4. /\ s \in SbCard
        /\ s.lines = w.sb.lines /\ s.status = w.sb.status /\ s.irq = w.sb.irq
        /\ s.hdma = w.sb.hdma /\ s.block = w.sb.block /\ s.left = w.sb.left
        /\ s.needed = w.sb.needed /\ s.index = w.sb.index /\ s.cmd = w.sb.cmd
    BY <1>0, <2>3 DEF SbCard
  <2> HIDE DEF s
  <2> QED
    BY <1>8, <2>2, <2>4, PlainKeeps
<1>9. CASE cmd = "block"
  <2>1. PICK len \in BlockLens : v = [w EXCEPT !.sb.block = len + 1, !.tally.steady = FALSE, !.tally.moved = 0]
    <3>1. v \in SetBlock(w)
      BY <1>9, <1>arms
    <3> QED
      BY <3>1 DEF SetBlock
  <2> DEFINE b == len + 1
             s == [w.sb EXCEPT !.block = b]
             d == w.dma
  <2>2. b \in Int
    BY <1>0
  <2> HIDE DEF b
  <2>3. /\ s \in SbCard
        /\ s.lines = w.sb.lines /\ s.status = w.sb.status /\ s.irq = w.sb.irq
        /\ s.needed = w.sb.needed /\ s.index = w.sb.index /\ s.cmd = w.sb.cmd
    BY <1>0, <2>2 DEF SbCard
  <2>4. v = [w EXCEPT !.dma = d, !.sb = s, !.tally.steady = FALSE, !.tally.moved = 0]
    BY <1>0, <2>1 DEF SbWorld, b
  <2>5. d \in [Controllers -> DmaChan]
    BY <1>0
  <2> HIDE DEF s, d
  <2> QED
    BY <1>9, <2>3, <2>4, <2>5, Disturbed
<1>10. CASE cmd = "adpcm"
  <2>1. v = [w EXCEPT !.tally.adpcm = TRUE]
    BY <1>10, <1>arms DEF coded
  <2>2. v \in SbWorld /\ v.dma = w.dma /\ v.sb = w.sb /\ v.tally = [w.tally EXCEPT !.adpcm = TRUE]
    BY <1>0, <2>1 DEF SbWorld, SbTally
  <2>3. /\ v.tally.adpcm /\ v.tally.stray = w.tally.stray /\ v.tally.over = w.tally.over
        /\ v.tally.steady = w.tally.steady /\ v.tally.moved = w.tally.moved
    BY <1>0, <2>2 DEF SbTally
  <2>4. SbCore(v)
    BY <2>2, <2>3, CoreSame
  <2>5. SbStepped(v)
    BY <2>2, <2>3 DEF SbStepped
  <2> QED
    BY <2>4, <2>5
<1>11. CASE cmd = "silence"
  <2> DEFINE stray == IF w.sb.status = {} THEN w.tally.stray \cup {w.sb.irq} ELSE w.tally.stray
             x == Raise([w EXCEPT !.tally.stray = IF w.sb.status = {} THEN @ \cup {w.sb.irq} ELSE @])
             y == [w EXCEPT !.tally.stray = stray]
             s == [w.sb EXCEPT !.lines = w.sb.lines \cup {w.sb.irq}]
  <2>1. v = w \/ v = x
    BY <1>11, <1>arms DEF hushed
  <2>2. stray \in SUBSET {5, 7} /\ w.tally.stray \subseteq stray /\ (w.sb.status = {} => w.sb.irq \in stray)
    BY <1>0 DEF SbCard, SbTally
  <2>3. x = Raise(y)
    BY <1>0 DEF SbWorld
  <2> HIDE DEF stray
  <2>4. y.sb = w.sb /\ y.dma = w.dma /\ y.tally = [w.tally EXCEPT !.stray = stray] /\ y \in SbWorld
    BY <1>0, <2>2 DEF SbWorld, SbTally
  <2>5. /\ s \in SbCard /\ s.lines = w.sb.lines \cup {w.sb.irq} /\ s.status = w.sb.status
        /\ s.irq = w.sb.irq /\ s.hdma = w.sb.hdma /\ s.block = w.sb.block /\ s.left = w.sb.left
        /\ s.needed = w.sb.needed /\ s.index = w.sb.index /\ s.cmd = w.sb.cmd
    BY <1>0 DEF SbCard
  <2> HIDE DEF x, y
  <2>6. x \in SbWorld /\ x.sb = s /\ x.dma = w.dma /\ x.tally = [w.tally EXCEPT !.stray = stray]
    BY <2>3, <2>4, <2>5 DEF Raise, SbWorld
  <2>7. /\ x.tally.stray = stray /\ x.tally.over = w.tally.over /\ x.tally.adpcm = w.tally.adpcm
        /\ x.tally.steady = w.tally.steady /\ x.tally.moved = w.tally.moved
    BY <1>0, <2>2, <2>6 DEF SbTally
  <2> HIDE DEF s
  <2>8. SbCaused(x)
    <3>1. w.sb.lines \subseteq w.tally.stray \cup (IF w.sb.status = {} THEN {} ELSE {w.sb.irq})
      BY DEF SbCore, SbCaused
    <3>2. w.sb.lines \cup {w.sb.irq} \subseteq stray \cup (IF w.sb.status = {} THEN {} ELSE {w.sb.irq})
      BY <2>2, <3>1
    <3> QED
      BY <2>5, <2>6, <2>7, <3>2 DEF SbCaused
  <2>9. SbExact(x)
    <3>1. Use(x.sb) = Use(w.sb)
      BY <2>5, <2>6, UseSame
    <3>2. x.sb.block = w.sb.block /\ x.sb.left = w.sb.left
      BY <2>5, <2>6
    <3> QED
      BY <2>6, <2>7, <3>1, <3>2 DEF SbCore, SbExact
  <2>10. SbCore(x) /\ SbKeeps(x, w)
    BY <2>5, <2>6, <2>7, <2>8, <2>9 DEF SbCore, SbKeeps
  <2> QED
    BY <1>0, <1>11, <2>1, <2>10
<1>12. CASE cmd \notin {"bytes", "words", "dma8", "answer1", "identify", "time_const", "freq", "block",
                        "adpcm", "silence"}
  <2>1. v = w
    BY <1>12, <1>arms
  <2> QED
    BY <1>0, <1>12, <2>1
<1> QED
  BY <1>2, <1>3, <1>4, <1>5, <1>6, <1>7, <1>8, <1>9, <1>10, <1>11, <1>12

\* sb16_dsp_read, reset: the card's line goes down, whatever raised it.
LEMMA LoweredCore ==
  ASSUME NEW w, SbCore(w), NEW v \in SbWorld,
         v.sb.lines = w.sb.lines \ {w.sb.irq}, v.tally.stray = w.tally.stray \ {w.sb.irq},
         v.tally.over = w.tally.over,
         \/ ~v.tally.steady
         \/ /\ v.sb.hdma = w.sb.hdma /\ v.sb.block = w.sb.block /\ v.sb.left = w.sb.left
            /\ v.tally.steady = w.tally.steady /\ v.tally.moved = w.tally.moved
            /\ v.dma = w.dma
  PROVE  SbCore(v)
<1>1. SbCaused(v)
  <2>1. w.sb.lines \subseteq w.tally.stray \cup (IF w.sb.status = {} THEN {} ELSE {w.sb.irq})
    BY DEF SbCore, SbCaused
  <2>2. w.sb.lines \ {w.sb.irq} \subseteq w.tally.stray \ {w.sb.irq}
    BY <2>1
  <2> QED
    BY <2>2 DEF SbCaused
<1>2. SbExact(v)
  <2>1. CASE ~v.tally.steady
    BY <2>1 DEF SbCore, SbExact
  <2>2. CASE /\ v.sb.hdma = w.sb.hdma /\ v.sb.block = w.sb.block /\ v.sb.left = w.sb.left
             /\ v.tally.steady = w.tally.steady /\ v.tally.moved = w.tally.moved
             /\ v.dma = w.dma
    <3>1. Use(v.sb) = Use(w.sb)
      BY <2>2, UseSame
    <3> QED
      BY <2>2, <3>1 DEF SbCore, SbExact
  <2> QED
    BY <2>1, <2>2
<1> QED
  BY <1>1, <1>2 DEF SbCore

\* sb16_dsp_read, ports 0xe and 0xf.
LEMMA AckKeeps ==
  ASSUME NEW w, SbCore(w), NEW width \in {8, 16}
  PROVE  LET v == Lower([w EXCEPT !.sb.status = @ \ {width}]) IN SbCore(v) /\ SbKeeps(v, w)
<1> DEFINE st == w.sb.status \ {width}
           ln == w.sb.lines \ {w.sb.irq}
           sy == w.tally.stray \ {w.sb.irq}
           s  == [w.sb EXCEPT !.status = st]
           r  == [s EXCEPT !.lines = ln]
           t  == [w.tally EXCEPT !.stray = sy]
           x  == [w EXCEPT !.sb = s]
           v  == Lower([w EXCEPT !.sb.status = @ \ {width}])
<1>1. w \in SbWorld /\ w.sb \in SbCard /\ w.tally \in SbTally
  BY SbParts DEF SbCore
<1>2. [w EXCEPT !.sb.status = @ \ {width}] = x
  BY <1>1 DEF SbWorld
<1>3. st \in SUBSET {8, 16} /\ ln \in SUBSET {5, 7} /\ sy \in SUBSET {5, 7}
  BY <1>1 DEF SbCard, SbTally
<1> HIDE DEF st
<1>4. s \in SbCard /\ s.lines = w.sb.lines /\ s.irq = w.sb.irq
  BY <1>1, <1>3 DEF SbCard
<1> HIDE DEF s
<1>5. x.sb = s /\ x.dma = w.dma /\ x.tally = w.tally /\ x \in SbWorld
  BY <1>1, <1>4 DEF SbWorld
<1>6. Lower(x) = [x EXCEPT !.sb.lines = ln, !.tally.stray = sy]
  BY <1>1, <1>4, <1>5 DEF Lower, SbWorld
<1> HIDE DEF x, ln, sy
<1>7. v = Lower(x)
  BY <1>2
<1> HIDE DEF v
<1>8. v.sb = r /\ v.tally = t /\ v.dma = w.dma /\ v = [dma |-> v.dma, sb |-> v.sb, tally |-> v.tally]
  BY <1>1, <1>5, <1>6, <1>7 DEF SbWorld
<1>9. t \in SbTally /\ t.stray = sy /\ t.over = w.tally.over /\ t.steady = w.tally.steady
      /\ t.moved = w.tally.moved /\ t.adpcm = w.tally.adpcm
  BY <1>1, <1>3 DEF SbTally
<1>10. r \in SbCard /\ r.lines = ln /\ r.hdma = s.hdma /\ r.block = s.block /\ r.left = s.left
       /\ r.needed = s.needed /\ r.index = s.index /\ r.cmd = s.cmd
  BY <1>3, <1>4 DEF SbCard
<1>11. s.hdma = w.sb.hdma /\ s.block = w.sb.block /\ s.left = w.sb.left
       /\ s.needed = w.sb.needed /\ s.index = w.sb.index /\ s.cmd = w.sb.cmd
  BY <1>1, <1>3 DEF SbCard, s
<1> HIDE DEF r, t
<1>12. v \in SbWorld
  BY <1>1, <1>8, <1>9, <1>10 DEF SbWorld
<1>13. SbCore(v)
  BY <1>8, <1>9, <1>10, <1>11, <1>12, LoweredCore DEF ln, sy
<1>14. SbKeeps(v, w)
  BY <1>8, <1>9, <1>10, <1>11 DEF SbKeeps
<1> QED
  BY <1>13, <1>14 DEF v

\* reset: whatever the card was doing.
LEMMA ResetGood ==
  ASSUME NEW w, SbCore(w)
  PROVE  SbGood(Reset(w))
<1> DEFINE ln == w.sb.lines \ {w.sb.irq}
           sy == w.tally.stray \ {w.sb.irq}
           neg == -1
           nil == 0
           one == 1
           no  == FALSE
           low == Lower(w)
           p  == [low.sb EXCEPT !.status = {}, !.auto = no, !.index = nil]
           i  == [p EXCEPT !.out = one, !.left = nil]
           q  == [i EXCEPT !.needed = nil, !.block = neg]
           s  == [q EXCEPT !.v2x6 = nil, !.cmd = "none"]
           t  == [low.tally EXCEPT !.steady = no, !.moved = nil, !.adpcm = no]
           x  == [low EXCEPT !.sb = s, !.tally = t]
           off == Control(x, no)
           b  == [off.sb EXCEPT !.freq = DefaultFreq, !.stereo = no]
<1>1. w \in SbWorld /\ w.sb \in SbCard /\ w.tally \in SbTally /\ w.dma \in [Controllers -> DmaChan]
  BY SbParts DEF SbCore
<1>2. nil \in Nat /\ nil \in Int /\ nil \in 0 .. 3 /\ nil \in 0 .. 2 /\ one \in Nat /\ neg \in Int /\ no \in BOOLEAN /\ ~no /\ ln \in SUBSET {5, 7} /\ sy \in SUBSET {5, 7}
  BY <1>1 DEF SbCard, SbTally
<1>3. low = [w EXCEPT !.sb.lines = ln, !.tally.stray = sy]
  BY DEF Lower
<1>4. Reset(w) = LET sb0 == [low.sb EXCEPT !.status = {}, !.auto = no, !.index = nil, !.out = one, !.left = nil,
                                           !.needed = nil, !.block = neg, !.v2x6 = nil, !.cmd = "none"]
                     off0 == Control([low EXCEPT !.sb = sb0, !.tally.steady = no, !.tally.moved = nil,
                                                 !.tally.adpcm = no], no)
                 IN  [off0 EXCEPT !.sb.freq = DefaultFreq, !.sb.stereo = no]
  BY DEF Reset
<1> HIDE DEF neg, nil, one, no, ln, sy, low
<1>5. /\ low \in SbWorld /\ low.dma = w.dma /\ low.sb = [w.sb EXCEPT !.lines = ln]
      /\ low.tally = [w.tally EXCEPT !.stray = sy]
  BY <1>1, <1>2, <1>3, ZenonT(40) DEF SbWorld, SbCard, SbTally
<1>6. low.sb \in SbCard /\ low.sb.lines = ln /\ low.tally \in SbTally /\ low.tally.stray = sy
      /\ low.tally.over = w.tally.over
  BY <1>1, <1>2, <1>5, SbParts DEF SbCard, SbTally
<1>7. p \in SbCard /\ p.lines = ln /\ p.index = nil
  BY <1>2, <1>6 DEF SbCard
<1> HIDE DEF p
<1>7a. i \in SbCard /\ i.lines = ln /\ i.index = nil
  BY <1>2, <1>7 DEF SbCard
<1> HIDE DEF i
<1>8. q \in SbCard /\ q.lines = ln /\ q.index = nil /\ q.needed = nil
  BY <1>2, <1>7a DEF SbCard
<1> HIDE DEF q
<1>9. s \in SbCard /\ s.lines = ln /\ s.index = nil /\ s.needed = nil
  BY <1>2, <1>8 DEF SbCard
<1>10. s = [low.sb EXCEPT !.status = {}, !.auto = no, !.index = nil, !.out = one, !.left = nil,
                          !.needed = nil, !.block = neg, !.v2x6 = nil, !.cmd = "none"]
  BY <1>6 DEF p, i, q, SbCard
<1> HIDE DEF s
<1>11. t \in SbTally /\ t.stray = sy /\ t.over = w.tally.over /\ ~t.steady /\ ~t.adpcm
  BY <1>2, <1>6 DEF SbTally
<1>12. x = [low EXCEPT !.sb = s, !.tally.steady = no, !.tally.moved = nil, !.tally.adpcm = no]
  BY <1>5, <1>6 DEF SbWorld, SbTally
<1> HIDE DEF t
<1>13. x \in SbWorld /\ x.sb = s /\ x.tally = t
  BY <1>5, <1>9, <1>11 DEF SbWorld
<1> HIDE DEF x
<1>14. SbCore(x)
  BY <1>9, <1>11, <1>13, LoweredCore DEF ln, sy
<1>15. SbCore(off) /\ SbKeeps(off, x)
  BY <1>2, <1>14, ControlKeeps
<1>16. Reset(w) = [off EXCEPT !.sb.freq = DefaultFreq, !.sb.stereo = no]
  BY <1>4, <1>10, <1>12
<1> HIDE DEF off
<1>17. off \in SbWorld /\ off.sb \in SbCard
  BY <1>15, SbParts DEF SbCore
<1>18. /\ b \in SbCard
       /\ b.lines = off.sb.lines /\ b.status = off.sb.status /\ b.irq = off.sb.irq
       /\ b.hdma = off.sb.hdma /\ b.block = off.sb.block /\ b.left = off.sb.left
       /\ b.needed = off.sb.needed /\ b.index = off.sb.index /\ b.cmd = off.sb.cmd
  <2>1. DefaultFreq \in Int
    BY SbAssumption
  <2> QED
    BY <1>2, <1>17, <2>1 DEF SbCard
<1>20. [off EXCEPT !.sb.freq = DefaultFreq, !.sb.stereo = no]
         = [off EXCEPT !.sb = b]
  BY <1>17 DEF SbWorld, SbCard
<1> HIDE DEF b
<1>21. SbCore([off EXCEPT !.sb = b]) /\ SbKeeps([off EXCEPT !.sb = b], off)
  BY <1>15, <1>18, PlainKeeps
<1>22. SbStepped(x)
  BY <1>9, <1>11, <1>13 DEF SbStepped, nil
<1>23. SbStepped([off EXCEPT !.sb = b])
  BY <1>15, <1>21, <1>22, SteppedStays
<1> QED
  BY <1>16, <1>20, <1>21, <1>23 DEF SbGood

\* The invariant: accounts that agree, lines with their causes, and a DSP in step.
SbInv == SbGood(World)

\* A step into a good world.
LEMMA BecomeGood ==
  ASSUME NEW v, SbGood(v), Become(v)
  PROVE  SbInv'
<1>1. World' = v
  BY SbParts DEF World, Become, SbGood, SbCore
<1> QED
  BY <1>1 DEF SbInv

\* One that leaves the DSP where it was.
LEMMA KeepsGood ==
  ASSUME SbInv, NEW v, SbCore(v), SbKeeps(v, World), Become(v)
  PROVE  SbInv'
<1>1. SbGood(v)
  BY SteppedStays DEF SbInv, SbGood
<1> QED
  BY <1>1, BecomeGood

\* What the world's fields are called.
LEMMA WorldFields ==
  World.dma = dma /\ World.sb = sb /\ World.tally = tally
BY DEF World

\* resample_*: no more samples are used than there are.
LEMMA ResampledBound ==
  ASSUME NEW ilen \in Nat, NEW olen \in Nat, NEW stereo \in BOOLEAN, NEW freq \in Int
  PROVE  Resampled(ilen, olen, stereo, freq) \in 0 .. ilen
<1> DEFINE half   == olen \div 2
           frames == IF stereo THEN ilen \div 2 ELSE ilen
           input  == frames * OutRate
           output == freq * half
           ticks  == CASE freq < 0 \/ olen < 2 -> 0
                       [] freq = 0 -> input
                       [] OTHER -> AtMost(input, output)
           used   == ticks \div OutRate
<1>1. half \in Nat /\ frames \in Nat /\ OutRate \in Nat \ {0} /\ Times2(frames, stereo) \in 0 .. ilen
  BY SbAssumption DEF Times2
<1>2. Resampled(ilen, olen, stereo, freq) = Times2(used, stereo)
  BY DEF Resampled
<1> HIDE DEF half, frames
<1>3. input \in Nat
  BY <1>1
<1>4. freq > 0 => output \in Nat
  BY <1>1
<1> HIDE DEF input, output
<1>5. ticks \in 0 .. input
  BY <1>3, <1>4 DEF AtMost
<1> HIDE DEF ticks
<1>6. used \in 0 .. frames
  BY <1>1, <1>5, QuotientBound DEF input
<1> HIDE DEF used
<1> QED
  BY <1>1, <1>2, <1>6 DEF Times2

\* sb16_audio_callback.
LEMMA CallbackGood ==
  ASSUME SbInv, AudioCallback
  PROVE  SbInv'
<1> DEFINE bad  == sb.bits = 8 /\ sb.signed
           used(free) == IF sb.bits = 16 THEN 2 * Resampled(sb.fill \div 2, free \div 2, sb.stereo, sb.freq)
                                         ELSE Resampled(sb.fill, free \div 2, sb.stereo, sb.freq)
           fill(free) == CASE ~sb.active -> sb.fill [] bad -> 0 [] OTHER -> sb.fill - used(free)
<1>1. SbCore(World) /\ World \in SbWorld /\ World.sb \in SbCard /\ World.sb = sb
  BY SbParts, WorldFields DEF SbInv, SbGood, SbCore
<1>2. PICK free \in Frees : Become([World EXCEPT !.sb.free = free, !.sb.fill = fill(free)])
  BY <1>1 DEF AudioCallback, World
<1>3. free \in Nat /\ free \div 2 \in Nat
  BY SbAssumption
<1>4. sb.fill \in 0 .. Ring /\ sb.fill \in Nat /\ sb.fill \div 2 \in Nat /\ sb.stereo \in BOOLEAN /\ sb.freq \in Int
      /\ 2 * (sb.fill \div 2) <= sb.fill /\ Ring \in Nat
  BY <1>1, SbAssumption DEF SbCard
<1>5. used(free) \in 0 .. sb.fill
  <2> DEFINE a == Resampled(sb.fill \div 2, free \div 2, sb.stereo, sb.freq)
             b == Resampled(sb.fill, free \div 2, sb.stereo, sb.freq)
  <2>1. a \in 0 .. (sb.fill \div 2)
    BY <1>3, <1>4, ResampledBound
  <2>2. b \in 0 .. sb.fill
    BY <1>3, <1>4, ResampledBound
  <2>3. used(free) = IF sb.bits = 16 THEN 2 * a ELSE b
    OBVIOUS
  <2> HIDE DEF a, b, used
  <2> QED
    BY <1>4, <2>1, <2>2, <2>3
<1>6. fill(free) \in 0 .. Ring
  <2> HIDE DEF used, bad
  <2> QED
    BY <1>4, <1>5
<1> DEFINE f == fill(free)
           s == [sb EXCEPT !.free = free, !.fill = f]
           v == [World EXCEPT !.sb.free = free, !.sb.fill = f]
<1>7. Become(v)
  BY <1>2
<1> HIDE DEF fill, used, bad
<1>8. f \in 0 .. Ring
  BY <1>6
<1> HIDE DEF f
<1>9. v = [World EXCEPT !.sb = s]
  BY <1>1 DEF SbWorld, SbCard
<1>10. /\ s \in SbCard
       /\ s.lines = sb.lines /\ s.status = sb.status /\ s.irq = sb.irq
       /\ s.hdma = sb.hdma /\ s.block = sb.block /\ s.left = sb.left
       /\ s.needed = sb.needed /\ s.index = sb.index /\ s.cmd = sb.cmd
  BY <1>1, <1>3, <1>8 DEF SbCard
<1> HIDE DEF s, v
<1>11. SbCore([World EXCEPT !.sb = s]) /\ SbKeeps([World EXCEPT !.sb = s], World)
  BY <1>1, <1>10, PlainKeeps
<1> QED
  BY <1>7, <1>9, <1>11, KeepsGood

\* The parts of a good world.
LEMMA InvParts ==
  ASSUME SbInv
  PROVE  /\ SbCore(World) /\ SbStepped(World) /\ World \in SbWorld
         /\ World.sb = sb /\ World.dma = dma /\ World.tally = tally
         /\ sb \in SbCard /\ dma \in [Controllers -> DmaChan] /\ tally \in SbTally
         /\ SbKeeps(World, World)
BY SbParts, WorldFields DEF SbInv, SbGood, SbCore, SbKeeps

\* sb16_dsp_write, port 0xc.
LEMMA WriteDspGood ==
  ASSUME SbInv, NEW commands \in SUBSET Commands, WriteDsp(commands)
  PROVE  SbInv'
<1>0. /\ SbCore(World) /\ SbStepped(World) /\ World \in SbWorld
      /\ World.sb = sb /\ World.tally = tally /\ sb \in SbCard /\ sb.index \in Nat /\ sb.needed \in Nat
  BY InvParts DEF SbCard
<1>1. CASE sb.needed = 0 /\ \E cmd \in commands : Become(Command(World, cmd))
  <2>1. PICK cmd \in commands : Become(Command(World, cmd))
    BY <1>1
  <2>2. SbGood(Command(World, cmd))
    <3>1. SbGood(World) /\ World.sb.needed = 0 /\ cmd \in Commands
      BY <1>0, <1>1 DEF SbGood
    <3> QED
      BY <3>1, CommandKeeps
  <2> QED
    BY <2>1, <2>2, BecomeGood
<1>2. CASE /\ sb.needed > 0 /\ sb.index + 1 # sb.needed
           /\ Become([World EXCEPT !.sb.index = @ + 1])
  <2> DEFINE i == sb.index + 1
             s == [sb EXCEPT !.index = i]
             v == [World EXCEPT !.sb = s]
  <2>1. i \in Nat
    BY <1>0
  <2>2. Become(v)
    BY <1>0, <1>2 DEF SbWorld
  <2> HIDE DEF i
  <2>3. /\ s \in SbCard /\ s.index = i
        /\ s.lines = sb.lines /\ s.status = sb.status /\ s.irq = sb.irq
        /\ s.hdma = sb.hdma /\ s.block = sb.block /\ s.left = sb.left
        /\ s.needed = sb.needed /\ s.cmd = sb.cmd
    BY <1>0, <2>1 DEF SbCard
  <2> HIDE DEF s
  <2>4. SbCore(v) /\ v.sb = s /\ v.tally = tally
    BY <1>0, <2>3, CardSame
  <2> HIDE DEF v
  <2>5. SbStepped(v)
    <3>1. ~tally.adpcm => sb.index < sb.needed
      BY <1>0, <1>2 DEF SbStepped
    <3>2. ~tally.adpcm => i < sb.needed
      BY <1>0, <1>2, <3>1 DEF i
    <3> QED
      BY <1>0, <1>2, <2>3, <2>4, <3>2 DEF SbStepped
  <2> QED
    BY <2>2, <2>4, <2>5, BecomeGood DEF SbGood
<1>3. CASE /\ sb.needed > 0 /\ sb.index + 1 = sb.needed
           /\ LET w == [World EXCEPT !.sb.needed = 0, !.sb.cmd = "none",
                                     !.sb.index = @ + 1 - Taken(sb.cmd)]
              IN  \E v \in Completed(w, sb.cmd) : Become(v)
  <2> DEFINE i == sb.index + 1 - Taken(sb.cmd)
             nil == 0
             x == [World EXCEPT !.sb.needed = 0, !.sb.cmd = "none", !.sb.index = @ + 1 - Taken(sb.cmd)]
             s == [sb EXCEPT !.needed = nil, !.cmd = "none", !.index = i]
             w == [World EXCEPT !.sb = s]
  <2>1. x = w
    BY <1>0 DEF SbWorld, SbCard
  <2>2. PICK v \in Completed(w, sb.cmd) : Become(v)
    BY <1>3, <2>1
  <2>3. nil \in 0 .. 3
    OBVIOUS
  <2>4. sb.needed = Needed(sb.cmd)
    BY <1>0, <1>3 DEF SbStepped
  <2>5. i \in Nat /\ (sb.cmd # "adpcm" => i = 0)
    BY <1>0, <1>3, <2>4 DEF Taken
  <2> HIDE DEF x, i, nil
  <2>6. /\ s \in SbCard /\ s.index = i /\ s.needed = nil
        /\ s.lines = sb.lines /\ s.status = sb.status /\ s.irq = sb.irq
        /\ s.hdma = sb.hdma /\ s.block = sb.block /\ s.left = sb.left
    BY <1>0, <2>3, <2>5, ZenonT(40) DEF SbCard
  <2> HIDE DEF s
  <2>7. SbCore(w) /\ w.sb = s /\ w.tally = tally
    BY <1>0, <2>6, CardSame
  <2> HIDE DEF w
  <2>8. w.sb.needed = 0 /\ (~w.tally.adpcm /\ sb.cmd # "adpcm" => w.sb.index = 0)
    BY <2>5, <2>6, <2>7 DEF nil
  <2>9. SbGood(v)
    BY <2>7, <2>8, CompletedKeeps
  <2> QED
    BY <2>2, <2>9, BecomeGood
<1> QED
  BY <1>1, <1>2, <1>3 DEF WriteDsp

\* Registers of the card neither account looks at.
LEMMA PlainGood ==
  ASSUME SbInv, NEW s \in SbCard,
         s.lines = sb.lines, s.status = sb.status, s.irq = sb.irq,
         s.hdma = sb.hdma, s.block = sb.block, s.left = sb.left,
         s.needed = sb.needed, s.index = sb.index, s.cmd = sb.cmd,
         Become([World EXCEPT !.sb = s])
  PROVE  SbInv'
<1>1. SbCore(World) /\ World.sb = sb
  BY InvParts
<1>2. SbCore([World EXCEPT !.sb = s]) /\ SbKeeps([World EXCEPT !.sb = s], World)
  BY <1>1, PlainKeeps
<1> QED
  BY <1>2, KeepsGood

\* The reset port's own latch.
LEMMA LatchGood ==
  ASSUME NEW w, SbGood(w), NEW n \in 0 .. 2
  PROVE  SbGood([w EXCEPT !.sb.v2x6 = n])
<1> DEFINE s == [w.sb EXCEPT !.v2x6 = n]
           v == [w EXCEPT !.sb = s]
<1>1. w \in SbWorld /\ w.sb \in SbCard
  BY SbParts DEF SbGood, SbCore
<1>2. /\ s \in SbCard
      /\ s.lines = w.sb.lines /\ s.status = w.sb.status /\ s.irq = w.sb.irq
      /\ s.hdma = w.sb.hdma /\ s.block = w.sb.block /\ s.left = w.sb.left
      /\ s.needed = w.sb.needed /\ s.index = w.sb.index /\ s.cmd = w.sb.cmd
  BY <1>1 DEF SbCard
<1>3. [w EXCEPT !.sb.v2x6 = n] = v
  BY <1>1 DEF SbWorld
<1> HIDE DEF s
<1>4. SbCore(v) /\ SbKeeps(v, w)
  BY <1>2, PlainKeeps DEF SbGood
<1> QED
  BY <1>3, <1>4, SteppedStays DEF SbGood

\* sb16_dsp_write, port 6.
LEMMA WriteResetGood ==
  ASSUME SbInv, WriteReset
  PROVE  SbInv'
<1> DEFINE one   == [World EXCEPT !.sb.v2x6 = 1]
           other == [World EXCEPT !.sb.v2x6 = 0]
           panic == Reset(World)
           probe == [Reset(Out(World, 1)) EXCEPT !.sb.v2x6 = 2]
           zero  == [(IF sb.v2x6 = 1 THEN Reset(World) ELSE World) EXCEPT !.sb.v2x6 = 0]
<1>1. SbGood(World) /\ SbCore(World)
  BY DEF SbInv, SbGood
<1>n. 0 \in 0 .. 2 /\ 1 \in 0 .. 2 /\ 2 \in 0 .. 2
  OBVIOUS
<1>2. SbGood(one) /\ SbGood(other)
  BY <1>1, <1>n, LatchGood, Zenon
<1>3. SbGood(panic)
  BY <1>1, ResetGood
<1>4. SbGood(probe)
  <2>1. SbCore(Out(World, 1))
    BY <1>1, OutKeeps
  <2>2. SbGood(Reset(Out(World, 1)))
    BY <2>1, ResetGood
  <2> QED
    BY <1>n, <2>2, LatchGood, Zenon
<1>5. SbGood(zero)
  <2> DEFINE w == IF sb.v2x6 = 1 THEN Reset(World) ELSE World
  <2>1. SbGood(w)
    BY <1>1, <1>3
  <2> HIDE DEF w
  <2>2. SbGood([w EXCEPT !.sb.v2x6 = 0])
    BY <1>n, <2>1, LatchGood, Zenon
  <2> QED
    BY <2>2 DEF w
<1>6. \/ Become(one) \/ Become(other) \/ Become(panic) \/ Become(probe) \/ Become(zero)
  <2>1. PICK val \in {"zero", "one", "other", "panic", "probe"} :
          Become(CASE val = "one"   -> one
                   [] val = "other" -> other
                   [] val = "panic" -> panic
                   [] val = "probe" -> probe
                   [] val = "zero"  -> zero)
    BY DEF WriteReset
  <2> HIDE DEF one, other, panic, probe, zero
  <2> QED
    BY <2>1
<1> HIDE DEF one, other, panic, probe, zero
<1> QED
  BY <1>2, <1>3, <1>4, <1>5, <1>6, BecomeGood

\* sb16_dsp_read, port 0xa; sb16_mixer_write_datab, the stereo switch.
LEMMA RegistersGood ==
  ASSUME SbInv, ReadDsp \/ WriteMixer
  PROVE  SbInv'
<1>0. World.sb = sb /\ World \in SbWorld /\ sb \in SbCard
  BY InvParts
<1>1. CASE ReadDsp
  <2> DEFINE n == sb.out - 1
             s == [sb EXCEPT !.out = n]
  <2>1. n \in Nat
    BY <1>0, <1>1 DEF ReadDsp, SbCard
  <2>2. Become([World EXCEPT !.sb = s])
    BY <1>0, <1>1 DEF ReadDsp, SbWorld
  <2> HIDE DEF n
  <2>3. /\ s \in SbCard
        /\ s.lines = sb.lines /\ s.status = sb.status /\ s.irq = sb.irq
        /\ s.hdma = sb.hdma /\ s.block = sb.block /\ s.left = sb.left
        /\ s.needed = sb.needed /\ s.index = sb.index /\ s.cmd = sb.cmd
    BY <1>0, <2>1 DEF SbCard
  <2> HIDE DEF s
  <2> QED
    BY <2>2, <2>3, PlainGood
<1>2. CASE WriteMixer
  <2>1. PICK stereo \in BOOLEAN : Become([World EXCEPT !.sb.mix_stereo = stereo])
    BY <1>2 DEF WriteMixer
  <2> DEFINE s == [sb EXCEPT !.mix_stereo = stereo]
  <2>2. Become([World EXCEPT !.sb = s])
    BY <1>0, <2>1 DEF SbWorld
  <2>3. /\ s \in SbCard
        /\ s.lines = sb.lines /\ s.status = sb.status /\ s.irq = sb.irq
        /\ s.hdma = sb.hdma /\ s.block = sb.block /\ s.left = sb.left
        /\ s.needed = sb.needed /\ s.index = sb.index /\ s.cmd = sb.cmd
    BY <1>0 DEF SbCard
  <2> HIDE DEF s
  <2> QED
    BY <2>2, <2>3, PlainGood
<1> QED
  BY <1>1, <1>2

\* sb16_dsp_read, ports 0xe and 0xf.
LEMMA AckGood ==
  ASSUME SbInv, NEW width \in {8, 16}, Ack(width)
  PROVE  SbInv'
<1> DEFINE v == Lower([World EXCEPT !.sb.status = @ \ {width}])
<1>1. SbCore(World)
  BY InvParts
<1>2. SbCore(v) /\ SbKeeps(v, World)
  BY <1>1, AckKeeps
<1>3. Become(v)
  BY DEF Ack
<1> HIDE DEF v
<1> QED
  BY <1>2, <1>3, KeepsGood

\* sb16_mixer_write_datab: what was up on the old line stays up and is remembered as such.
LEMMA MoveIrqGood ==
  ASSUME SbInv, MoveIrq
  PROVE  SbInv'
<1>0. /\ SbCore(World) /\ World.sb = sb /\ World.dma = dma /\ World.tally = tally /\ World \in SbWorld
      /\ sb \in SbCard /\ tally \in SbTally
  BY InvParts
<1>1. PICK irq \in {5, 7} \ {sb.irq} :
        Become([World EXCEPT !.sb.irq = irq, !.tally.stray = @ \cup (sb.lines \ {irq})])
  BY DEF MoveIrq
<1> DEFINE stray == tally.stray \cup (sb.lines \ {irq})
           s == [sb EXCEPT !.irq = irq]
           t == [tally EXCEPT !.stray = stray]
           v == [World EXCEPT !.sb = s, !.tally = t]
<1>2. Become(v)
  BY <1>0, <1>1 DEF SbWorld
<1>3. stray \in SUBSET {5, 7}
  BY <1>0 DEF SbCard, SbTally
<1> HIDE DEF stray
<1>4. /\ s \in SbCard /\ s.irq = irq /\ s.lines = sb.lines /\ s.status = sb.status
      /\ s.hdma = sb.hdma /\ s.block = sb.block /\ s.left = sb.left
      /\ s.needed = sb.needed /\ s.index = sb.index /\ s.cmd = sb.cmd
  BY <1>0 DEF SbCard
<1>5. /\ t \in SbTally /\ t.stray = stray /\ t.over = tally.over /\ t.steady = tally.steady
      /\ t.moved = tally.moved /\ t.adpcm = tally.adpcm
  BY <1>0, <1>3 DEF SbTally
<1> HIDE DEF s, t
<1>6. v \in SbWorld /\ v.sb = s /\ v.tally = t /\ v.dma = dma
  BY <1>0, <1>4, <1>5 DEF SbWorld
<1> HIDE DEF v
<1>7. SbCaused(v)
  <2>1. sb.lines \subseteq tally.stray \cup (IF sb.status = {} THEN {} ELSE {sb.irq})
    BY <1>0 DEF SbCore, SbCaused
  <2>2. sb.status = {} => sb.lines \subseteq tally.stray
    BY <2>1
  <2>3. sb.lines \subseteq stray \cup (IF sb.status = {} THEN {} ELSE {irq})
    BY <2>2 DEF stray
  <2> QED
    BY <1>4, <1>5, <1>6, <2>3 DEF SbCaused
<1>8. SbExact(v)
  <2>1. Use(v.sb) = Use(sb)
    BY <1>4, <1>6, UseSame
  <2> QED
    BY <1>0, <1>4, <1>5, <1>6, <2>1 DEF SbCore, SbExact
<1>9. SbCore(v) /\ SbKeeps(v, World)
  BY <1>0, <1>4, <1>5, <1>6, <1>7, <1>8 DEF SbCore, SbKeeps
<1> QED
  BY <1>2, <1>9, KeepsGood

\* i8257_write_chan: the count that is put together from two bytes.
LEMMA WriteChanType ==
  ASSUME NEW d \in DmaChan, NEW reg, NEW byte \in 0 .. DmaByte - 1
  PROVE  WriteChan(d, reg, byte) \in DmaChan
<1> DEFINE a == (d.base \div DmaByte) * DmaByte + byte
           b == (d.base % DmaByte) + DmaByte * byte
           base == CASE reg = "addr" -> d.base
                     [] d.flip_flop = 0 -> a
                     [] OTHER -> b
           now == IF d.flip_flop = 1 THEN 0 ELSE d.now
           ff == 1 - d.flip_flop
<1>1. d.base \in Nat /\ d.now \in Nat /\ d.flip_flop \in {0, 1} /\ DmaByte \in Nat \ {0} /\ byte \in Nat
  BY DmaAssumption DEF DmaChan
<1>2. a \in Nat
  <2> DEFINE q == d.base \div DmaByte
  <2>1. d.base \in 0 .. d.base * DmaByte
    <3> DEFINE m == d.base
    <3>1. m \in Nat
      BY <1>1
    <3> HIDE DEF m
    <3>2. m <= m * DmaByte
      BY <1>1, <3>1, SMT
    <3>3. m \in 0 .. m * DmaByte
      BY <1>1, <3>1, <3>2
    <3> QED
      BY <3>3 DEF m
  <2>2. q \in 0 .. d.base
    BY <1>1, <2>1, QuotientBound
  <2>3. q \in Nat
    BY <1>1, <2>2
  <2> HIDE DEF q
  <2>4. q * DmaByte + byte \in Nat
    BY <1>1, <2>3
  <2> QED
    BY <2>4 DEF q
<1>3. b \in Nat
  <2> DEFINE r == d.base % DmaByte
  <2>1. d.base \in Int
    BY <1>1
  <2>2. r \in 0 .. DmaByte - 1
    BY <1>1, <2>1, DivMod
  <2>3. r \in Nat
    BY <1>1, <2>2
  <2> HIDE DEF r
  <2>4. r + DmaByte * byte \in Nat
    BY <1>1, <2>3
  <2> QED
    BY <2>4 DEF r
<1> HIDE DEF a, b
<1>4. base \in Nat /\ now \in Nat /\ ff \in {0, 1}
  BY <1>1, <1>2, <1>3
<1>5. WriteChan(d, reg, byte) = [d EXCEPT !.flip_flop = ff, !.base = base, !.now = now]
  BY DEF WriteChan, a, b
<1> HIDE DEF base, now, ff
<1> QED
  BY <1>4, <1>5 DEF DmaChan

\* A controller's registers that neither account looks at, or a request that ends.
LEMMA ChannelCore ==
  ASSUME NEW w, SbCore(w), NEW c \in Controllers, NEW e \in DmaChan,
         e.base = w.dma[c].base, e.now = w.dma[c].now, e.dreq => w.dma[c].dreq
  PROVE  SbCore([w EXCEPT !.dma[c] = e]) /\ SbKeeps([w EXCEPT !.dma[c] = e], w)
<1> DEFINE v == [w EXCEPT !.dma[c] = e]
<1>1. w \in SbWorld /\ w.dma \in [Controllers -> DmaChan]
  BY SbParts DEF SbCore
<1>2. v.sb = w.sb /\ v.tally = w.tally /\ v.dma = [w.dma EXCEPT ![c] = e] /\ v \in SbWorld
  BY <1>1 DEF SbWorld
<1> HIDE DEF v
<1>3. \A k \in Controllers : /\ v.dma[k].base = w.dma[k].base /\ v.dma[k].now = w.dma[k].now
                             /\ v.dma[k].dreq => w.dma[k].dreq
  BY <1>1, <1>2
<1>4. SbCore(v)
  BY <1>2, <1>3, CoreSame
<1> QED
  BY <1>2, <1>4 DEF SbKeeps, v

\* Registers it does look at: the transfer is no longer undisturbed.
LEMMA ChannelDisturbed ==
  ASSUME NEW w, SbCore(w), NEW c \in Controllers, NEW e \in DmaChan
  PROVE  LET v == [w EXCEPT !.dma[c] = e, !.tally.steady = FALSE, !.tally.moved = 0] IN
         SbCore(v) /\ SbKeeps(v, w)
<1> DEFINE d == [w.dma EXCEPT ![c] = e]
           s == w.sb
           v == [w EXCEPT !.dma[c] = e, !.tally.steady = FALSE, !.tally.moved = 0]
           x == [w EXCEPT !.dma = d, !.sb = s, !.tally.steady = FALSE, !.tally.moved = 0]
<1>1. w \in SbWorld /\ w.dma \in [Controllers -> DmaChan] /\ s \in SbCard /\ s = w.sb
  BY SbParts DEF SbCore
<1>2. d \in [Controllers -> DmaChan]
  BY <1>1
<1>3. v = x
  BY <1>1 DEF SbWorld
<1> HIDE DEF d, s
<1>4. SbCore(x) /\ SbKeeps(x, w)
  BY <1>1, <1>2, Disturbed
<1> QED
  BY <1>3, <1>4

\* The ports of the controllers.
LEMMA ChannelGood ==
  ASSUME SbInv, NEW c \in Controllers, ProgramChannel(c) \/ MaskChannel(c) \/ DmaStep(c)
  PROVE  SbInv'
<1>0. SbCore(World) /\ World.dma = dma /\ dma \in [Controllers -> DmaChan] /\ dma[c] \in DmaChan
      /\ World \in SbWorld
  BY InvParts
<1> DEFINE d == dma[c]
           put(e) == [World EXCEPT !.dma[c] = e]
           upset(e) == [World EXCEPT !.dma[c] = e, !.tally.steady = FALSE, !.tally.moved = 0]
<1>1. CASE ProgramChannel(c)
  <2>1. CASE \E reg \in {"addr", "count"}, byte \in 0 .. DmaByte - 1 :
               Become([World EXCEPT !.dma[c] = WriteChan(@, reg, byte), !.tally.steady = FALSE, !.tally.moved = 0])
    <3>1. PICK reg \in {"addr", "count"}, byte \in 0 .. DmaByte - 1 : Become(upset(WriteChan(d, reg, byte)))
      BY <1>0, <2>1 DEF SbWorld
    <3> DEFINE e == WriteChan(d, reg, byte)
    <3>2. e \in DmaChan
      BY <1>0, WriteChanType
    <3>3. Become(upset(e))
      BY <3>1
    <3> HIDE DEF e
    <3>4. SbCore(upset(e)) /\ SbKeeps(upset(e), World)
      BY <1>0, <3>2, ChannelDisturbed
    <3> HIDE DEF upset
    <3> QED
      BY <3>3, <3>4, KeepsGood
  <2>2. CASE \E e \in {ReadChan(d), ClearFlipFlop(d), MasterReset(d), ReadStatus(d)} : Become(put(e))
    <3>1. PICK e \in {ReadChan(d), ClearFlipFlop(d), MasterReset(d), ReadStatus(d)} : Become(put(e))
      BY <2>2
    <3>2. e \in DmaChan /\ e.base = d.base /\ e.now = d.now /\ (e.dreq => d.dreq)
      <4> HIDE DEF d
      <4>0. d \in DmaChan
        BY <1>0 DEF d
      <4>1. CASE e = ReadChan(d)
        <5>1. 1 - d.flip_flop \in {0, 1}
          BY <4>0 DEF DmaChan
        <5> QED
          BY <4>0, <4>1, <5>1 DEF ReadChan, DmaChan
      <4>2. CASE e = ClearFlipFlop(d)
        BY <4>0, <4>2 DEF ClearFlipFlop, DmaChan
      <4>3. CASE e = MasterReset(d)
        BY <4>0, <4>3 DEF MasterReset, DmaChan
      <4>4. CASE e = ReadStatus(d)
        BY <4>0, <4>4 DEF ReadStatus, DmaChan
      <4> QED
        BY <3>1, <4>1, <4>2, <4>3, <4>4
    <3>3. SbCore(put(e)) /\ SbKeeps(put(e), World)
      BY <1>0, <3>2, ChannelCore
    <3> HIDE DEF put
    <3> QED
      BY <3>1, <3>3, KeepsGood
  <2> QED
    BY <1>1, <2>1, <2>2 DEF ProgramChannel
<1>2. CASE MaskChannel(c)
  <2>1. PICK on \in BOOLEAN :
          \/ Become(DmaRun([World EXCEPT !.dma[c] = SetMask(@, on)], c))
          \/ Become(DmaRun([World EXCEPT !.dma[c] = Request(@, on), !.tally.steady = FALSE, !.tally.moved = 0], c))
    BY <1>2 DEF MaskChannel
  <2> DEFINE m == SetMask(d, on)
             r == Request(d, on)
  <2>2. [World EXCEPT !.dma[c] = SetMask(@, on)] = put(m)
    BY <1>0 DEF SbWorld
  <2>3. [World EXCEPT !.dma[c] = Request(@, on), !.tally.steady = FALSE, !.tally.moved = 0] = upset(r)
    BY <1>0 DEF SbWorld
  <2>4. m \in DmaChan /\ m.base = d.base /\ m.now = d.now /\ m.dreq = d.dreq /\ r \in DmaChan
    <3> HIDE DEF d
    <3>0. d \in DmaChan
      BY <1>0 DEF d
    <3> QED
      BY <3>0 DEF SetMask, Request, DmaChan
  <2> HIDE DEF m, r
  <2>5. SbCore(put(m)) /\ SbKeeps(put(m), World)
    BY <1>0, <2>4, ChannelCore
  <2>6. SbCore(upset(r)) /\ SbKeeps(upset(r), World)
    BY <1>0, <2>4, ChannelDisturbed
  <2> HIDE DEF put, upset
  <2>7. Become(DmaRun(put(m), c)) \/ Become(DmaRun(upset(r), c))
    BY <2>1, <2>2, <2>3
  <2>8. SbCore(DmaRun(put(m), c)) /\ SbKeeps(DmaRun(put(m), c), World)
    BY <2>5, DmaRunKeeps DEF SbKeeps
  <2>9. SbCore(DmaRun(upset(r), c)) /\ SbKeeps(DmaRun(upset(r), c), World)
    BY <2>6, DmaRunKeeps DEF SbKeeps
  <2> QED
    BY <2>7, <2>8, <2>9, KeepsGood
<1>3. CASE DmaStep(c)
  <2>1. SbCore(DmaRun(World, c)) /\ SbKeeps(DmaRun(World, c), World)
    BY <1>0, DmaRunKeeps
  <2> QED
    BY <1>3, <2>1, KeepsGood DEF DmaStep
<1> QED
  BY <1>1, <1>2, <1>3

\* sb16_new.
LEMMA SbStarts == SbInit => SbInv
<1> SUFFICES ASSUME SbInit PROVE SbGood(World)
  BY DEF SbInv
<1>1. dma \in [Controllers -> DmaChan] /\ \A c \in Controllers : ~dma[c].dreq
  <2>1. DmaNew \in DmaChan /\ ~DmaNew.dreq
    BY DEF DmaNew, DmaChan
  <2>2. dma = [c \in Controllers |-> DmaNew]
    BY DEF SbInit
  <2> QED
    BY <2>1, <2>2
<1>2. sb \in SbCard /\ sb.lines = {} /\ sb.needed = 0 /\ sb.index = 0
  <2>1. Ring \in Nat
    BY SbAssumption
  <2> QED
    BY <2>1 DEF SbInit, SbCard
<1>3. tally \in SbTally /\ ~tally.steady /\ ~tally.over
  BY DEF SbInit, SbTally
<1>4. World \in SbWorld /\ World.sb = sb /\ World.dma = dma /\ World.tally = tally
  BY <1>1, <1>2, <1>3 DEF World, SbWorld
<1>5. SbCaused(World)
  BY <1>2, <1>4 DEF SbCaused
<1>6. SbExact(World)
  BY <1>3, <1>4 DEF SbExact
<1>7. SbStepped(World)
  BY <1>2, <1>4 DEF SbStepped
<1> QED
  BY <1>4, <1>5, <1>6, <1>7 DEF SbGood, SbCore

\* Whatever the guest writes, and whenever the mixer and the controllers run.
LEMMA SbInvariant == SbSpec => []SbInv
<1>1. ASSUME SbInv, [SbNext]_sbVars
      PROVE  SbInv'
  <2>1. CASE UNCHANGED sbVars
    <3>1. World' = World
      BY <2>1 DEF sbVars, World
    <3> QED
      BY <1>1, <3>1 DEF SbInv
  <2>2. CASE WriteDsp(Commands)
    BY <1>1, <2>2, WriteDspGood
  <2>3. CASE \E c \in Controllers : ProgramChannel(c) \/ MaskChannel(c) \/ DmaStep(c)
    BY <1>1, <2>3, ChannelGood
  <2>4. CASE Ack(8) \/ Ack(16)
    BY <1>1, <2>4, AckGood
  <2> QED
    BY <1>1, <2>1, <2>2, <2>3, <2>4, WriteResetGood, RegistersGood, MoveIrqGood, CallbackGood DEF SbNext
<1> QED
  BY <1>1, SbStarts, PTL DEF SbSpec

\* sb16_dsp_write, command, complete, SB_read_DMA: whatever order the guest writes the card's
\* ports in, and whatever the controllers and the mixer do in between, the DSP waits for the
\* bytes its command needs and has fewer of them, and a line that is up has a cause the guest
\* can acknowledge, except for the strays the silence command and a moved interrupt leave.
THEOREM CardStaysInStep == SbSpec => []CardInStep
<1>1. SbInv => CardInStep
  BY WorldFields DEF SbInv, SbGood, SbCore, SbCaused, SbStepped, CardInStep
<1> QED
  BY <1>1, SbInvariant, PTL

\* SB_read_DMA, write_audio, sb16_audio_callback: for every ring, block length, rate and
\* appetite of the mixer, the position the guest reads from the controller and the bytes left
\* until the interrupt both follow from the bytes moved, a single-cycle transfer takes no byte
\* past its block, and the ring neither overflows nor runs below empty.
THEOREM TransfersAreAccounted == SbSpec => []TransferAccounted
<1>1. ASSUME SbInv PROVE TransferAccounted
  <2>1. SbExact(World) /\ World.sb = sb /\ World.dma = dma /\ World.tally = tally /\ sb.fill \in 0 .. Ring
    BY <1>1, InvParts DEF SbCore, SbCard
  <2> QED
    BY <2>1 DEF SbExact, TransferAccounted
<1> QED
  BY <1>1, SbInvariant, PTL
==============================================================================
