------------------------------- MODULE Kbd8042 -------------------------------
(***************************************************************************)
(* The keyboard controller with its keyboard and mouse (i8042.c).          *)
(*                                                                         *)
(* Both devices deliver their bytes through one port.  A queue is its      *)
(* length: what matters is which bytes are let in, in what groups, and     *)
(* whether the guest is told of them.  Movement is counted in packets.     *)
(***************************************************************************)
EXTENDS Integers, FiniteSets

CONSTANTS
  QueueSize,   \* PS2_QUEUE_SIZE
  Reserve,     \* room a mouse event must find (16)
  MaxDelta     \* bound: movement not yet sent, in packets

ASSUME KbAssumption == QueueSize \in Nat \ {0} /\ Reserve \in Nat /\ MaxDelta \in Nat

VARIABLES
  kbc,         \* the controller: write_cmd, mode, pending, status, its two lines
  kbd,         \* the keyboard: queue, write_cmd, delayed scan code
  mouse,       \* the mouse: queue, write_cmd, modes, movement
  reset_request,
  keys         \* history: how the last scan code stands in the queue, what went wrong

kbVars == <<kbc, kbd, mouse, reset_request, keys>>

\* DISABLE_MOUSE is kept by the code but never looked at.
Modes == {"kbd_int", "mouse_int", "disable_kbd"}
ControllerArgs == {"write_mode", "write_obuf", "write_aux_obuf", "write_mouse", "write_outport"}

KbInit ==
  /\ kbc = [write_cmd |-> "none", mode |-> {"kbd_int", "mouse_int"}, pending |-> {},
            obf |-> FALSE, mouse_obf |-> FALSE, irq1 |-> FALSE, irq12 |-> FALSE]
  /\ kbd = [queue |-> 0, write_cmd |-> FALSE, delay |-> FALSE]
  /\ mouse = [queue |-> 0, write_cmd |-> "none", remote |-> FALSE, enabled |-> FALSE,
              wrap |-> FALSE, type |-> 0, detect_state |-> 0, delta |-> 0]
  /\ reset_request = FALSE
  /\ keys = [prefix |-> FALSE, full |-> FALSE, torn |-> FALSE, packet_torn |-> FALSE]

(***************************************************************************)
(* The output buffer and the queues.                                       *)
(***************************************************************************)
\* kbd_update_irq: the keyboard's data goes before the mouse's.
KbdUpdateIrq(c) ==
  LET aux == c.pending = {"aux"} IN
  [c EXCEPT !.obf = c.pending # {}, !.mouse_obf = aux,
            !.irq1 = /\ c.pending # {} /\ ~aux
                     /\ "kbd_int" \in c.mode /\ "disable_kbd" \notin c.mode,
            !.irq12 = aux /\ "mouse_int" \in c.mode]

\* kbd_update_kbd_irq and kbd_update_aux_irq.
Update(c, dev, level) ==
  KbdUpdateIrq([c EXCEPT !.pending = IF level THEN @ \cup {dev} ELSE @ \ {dev}])

Least(a, b) == IF a < b THEN a ELSE b

\* ps2_queue of n bytes: those that do not fit are dropped, without an update.
Queued(q, n) == Least(q + n, QueueSize)

Ps2Queue(c, dev, q, n) == IF n = 0 \/ q = QueueSize THEN c ELSE Update(c, dev, TRUE)

\* Mutant: no reassertion.
Ps2ReadOnce(c, dev, q) == IF q = 0 THEN c ELSE Update(c, dev, FALSE)

\* ps2_read_data: deassert, and reassert if data is left; an empty queue repeats its last byte.
Ps2Read(c, dev, q) == IF q = 0 THEN c ELSE Update(Update(c, dev, FALSE), dev, q > 1)

ToKbd(n) ==
  /\ kbc' = Ps2Queue(kbc, "kbd", kbd.queue, n)
  /\ kbd' = [kbd EXCEPT !.queue = Queued(@, n)]

ToMouse(n) ==
  /\ kbc' = Ps2Queue(kbc, "aux", mouse.queue, n)
  /\ mouse' = [mouse EXCEPT !.queue = Queued(@, n)]

(***************************************************************************)
(* Ports 0x60 and 0x64.                                                    *)
(***************************************************************************)
\* kbd_write_command: the next byte written to the data port is an argument.
ExpectArgument(a) ==
  /\ kbc' = [kbc EXCEPT !.write_cmd = a]
  /\ UNCHANGED <<kbd, mouse, reset_request, keys>>

\* kbd_write_command: READ_MODE answers as the mouse, tests and ports as the keyboard.
ControllerAnswer ==
  /\ \/ ToMouse(1) /\ UNCHANGED kbd
     \/ ToKbd(1) /\ UNCHANGED mouse
  /\ UNCHANGED <<reset_request, keys>>

SetKbdDisabled(disable) ==
  /\ kbc' = KbdUpdateIrq([kbc EXCEPT !.mode = IF disable THEN @ \cup {"disable_kbd"}
                                                         ELSE @ \ {"disable_kbd"}])
  /\ UNCHANGED <<kbd, mouse, reset_request, keys>>

ResetCommand ==
  /\ reset_request' = TRUE
  /\ UNCHANGED <<kbc, kbd, mouse, keys>>

\* kbd_read_data.
ReadData ==
  /\ IF kbc.pending = {"aux"}
     THEN /\ kbc' = Ps2Read(kbc, "aux", mouse.queue)
          /\ mouse' = [mouse EXCEPT !.queue = IF @ = 0 THEN 0 ELSE @ - 1]
          /\ UNCHANGED kbd
     ELSE /\ kbc' = Ps2Read(kbc, "kbd", kbd.queue)
          /\ kbd' = [kbd EXCEPT !.queue = IF @ = 0 THEN 0 ELSE @ - 1]
          /\ UNCHANGED mouse
  /\ UNCHANGED <<reset_request, keys>>

\* ps2_write_keyboard: a command or the argument of SET_LEDS or SET_RATE.
WriteKeyboard ==
  /\ kbc.write_cmd = "none"
  /\ \/ /\ kbd.write_cmd
        /\ kbc' = Ps2Queue(kbc, "kbd", kbd.queue, 1)
        /\ kbd' = [kbd EXCEPT !.queue = Queued(@, 1), !.write_cmd = FALSE]
     \/ /\ ~kbd.write_cmd
        /\ \E answer \in 1 .. 3, arg \in BOOLEAN :             \* 2: RESET, 3: GET_ID
             /\ arg => answer = 1
             /\ kbc' = Ps2Queue(kbc, "kbd", kbd.queue, answer)
             /\ kbd' = [kbd EXCEPT !.queue = Queued(@, answer), !.write_cmd = arg]
  /\ UNCHANGED <<mouse, reset_request, keys>>

\* kbd_write_data with an argument expected by the controller.
WriteArgument ==
  /\ kbc.write_cmd \in ControllerArgs \ {"write_mouse"}
  /\ LET c == [kbc EXCEPT !.write_cmd = "none"] IN
     \/ /\ kbc.write_cmd = "write_mode"
        /\ \E mode \in SUBSET Modes : kbc' = KbdUpdateIrq([c EXCEPT !.mode = mode])
        /\ UNCHANGED <<kbd, mouse, reset_request>>
     \/ /\ kbc.write_cmd = "write_obuf"
        /\ kbc' = Ps2Queue(c, "kbd", kbd.queue, 1)
        /\ kbd' = [kbd EXCEPT !.queue = Queued(@, 1)]
        /\ UNCHANGED <<mouse, reset_request>>
     \/ /\ kbc.write_cmd = "write_aux_obuf"
        /\ kbc' = Ps2Queue(c, "aux", mouse.queue, 1)
        /\ mouse' = [mouse EXCEPT !.queue = Queued(@, 1)]
        /\ UNCHANGED <<kbd, reset_request>>
     \/ /\ kbc.write_cmd = "write_outport"
        /\ kbc' = c
        /\ reset_request' \in {reset_request, TRUE}
        /\ UNCHANGED <<kbd, mouse>>
  /\ UNCHANGED keys

(***************************************************************************)
(* The mouse: ps2_write_mouse.                                             *)
(***************************************************************************)
PacketSize(m) == IF m.type = 0 THEN 3 ELSE 4

\* Commands as <<state afterwards, bytes answered>>.
MouseCommands(m) ==
  { <<[m EXCEPT !.remote = FALSE], 1>>,                        \* SET_STREAM
    <<[m EXCEPT !.remote = TRUE], 1>>,                         \* SET_REMOTE
    <<[m EXCEPT !.wrap = TRUE], 1>>,                           \* SET_WRAP
    <<[m EXCEPT !.write_cmd = "set_res"], 1>>,
    <<[m EXCEPT !.write_cmd = "set_sample"], 1>>,
    <<[m EXCEPT !.enabled = TRUE], 1>>,                        \* ENABLE_DEV
    <<[m EXCEPT !.enabled = FALSE], 1>>,                       \* DISABLE_DEV
    <<[m EXCEPT !.remote = FALSE, !.enabled = FALSE], 1>>,     \* SET_DEFAULT
    <<m, 2>>, <<m, 4>>, <<m, 0>>,                              \* GET_TYPE, GET_SCALE, unknown
    <<[m EXCEPT !.delta = IF @ = 0 THEN 0 ELSE @ - 1], 1 + PacketSize(m)>> }     \* POLL

MouseReset(m) == <<[m EXCEPT !.remote = FALSE, !.enabled = FALSE, !.type = 0], 3>>

\* The sample rates 200, 100, 80 and 200, 200, 80 unlock wheel and extra buttons.
MouseSample(m, rate) ==
  LET d == m.detect_state
      n == [m EXCEPT !.write_cmd = "none"]
  IN  CASE d = 1 -> [n EXCEPT !.detect_state = CASE rate = 100 -> 2 [] rate = 200 -> 3 [] OTHER -> 0]
        [] d = 2 -> [n EXCEPT !.detect_state = 0, !.type = IF rate = 80 THEN 3 ELSE @]
        [] d = 3 -> [n EXCEPT !.detect_state = 0, !.type = IF rate = 80 THEN 4 ELSE @]
        [] OTHER -> [n EXCEPT !.detect_state = IF rate = 200 THEN 1 ELSE 0]

WriteMouse ==
  /\ kbc.write_cmd = "write_mouse"
  /\ \E r \in CASE mouse.write_cmd = "set_sample" ->
                     {<<MouseSample(mouse, rate), 1>> : rate \in {80, 100, 200}}
                [] mouse.write_cmd = "set_res" -> {<<[mouse EXCEPT !.write_cmd = "none"], 1>>}
                [] mouse.write_cmd = "none" /\ mouse.wrap ->
                     {<<[mouse EXCEPT !.wrap = FALSE], 1>>, <<mouse, 1>>, MouseReset(mouse)}
                [] OTHER -> MouseCommands(mouse) \cup {MouseReset(mouse)} :
       /\ mouse' = [r[1] EXCEPT !.queue = Queued(@, r[2])]
       /\ kbc' = Ps2Queue([kbc EXCEPT !.write_cmd = "none"], "aux", mouse.queue, r[2])
  /\ UNCHANGED <<kbd, reset_request, keys>>

(***************************************************************************)
(* Events from the frontend, and kbd_step.                                 *)
(***************************************************************************)
\* ps2_mouse_event: movement, until it is sent, adds up; all of it is sent at once, in as
\* many packets as it takes, if the queue has the reserve at that moment.
MouseEvent ==
  /\ mouse.enabled
  /\ \E delta \in 0 .. MaxDelta :
       LET sent  == ~mouse.remote /\ mouse.queue < QueueSize - Reserve
           bytes == (IF delta = 0 THEN 1 ELSE delta) * PacketSize(mouse)
       IN  IF sent
           THEN /\ mouse' = [mouse EXCEPT !.delta = 0, !.queue = Queued(@, bytes)]
                /\ kbc' = Ps2Queue(kbc, "aux", mouse.queue, bytes)
                /\ keys' = [keys EXCEPT !.packet_torn =
                               @ \/ (bytes <= Reserve /\ mouse.queue + bytes > QueueSize)]
           ELSE /\ mouse' = [mouse EXCEPT !.delta = delta]
                /\ UNCHANGED <<kbc, keys>>
  /\ UNCHANGED <<kbd, reset_request>>

\* The history of a scan code byte that reaches the queue, or finds it full.
Noted(h, byte, full) ==
  [h EXCEPT !.full = @ \/ full,
            !.prefix = byte = "prefix",
            !.torn = @ \/ (h.prefix # (byte = "code"))]

\* Mutant: a code still held back is given up for the next key.
FlushDrops(k, c, h) == << [k EXCEPT !.delay = FALSE], c, h >>

\* The second byte of an extended code that is still held back.
Flush(k, c, h) ==
  IF k.delay THEN << [k EXCEPT !.delay = FALSE, !.queue = Queued(@, 1)],
                     Ps2Queue(c, "kbd", k.queue, 1), Noted(h, "code", k.queue = QueueSize) >>
             ELSE << k, c, h >>

\* ps2_put_keycode: an extended key is a prefix now and a code later.
PutKeycode(extended) ==
  LET f == Flush(kbd, kbc, keys)
      k == f[1]
  IN  /\ kbd' = [k EXCEPT !.queue = Queued(@, 1), !.delay = extended]
      /\ kbc' = Ps2Queue(f[2], "kbd", k.queue, 1)
      /\ keys' = Noted(f[3], IF extended THEN "prefix" ELSE "plain", k.queue = QueueSize)
      /\ UNCHANGED <<mouse, reset_request>>

\* kbd_step, once delay_time has come.
KbdStep ==
  /\ kbd.delay
  /\ LET f == Flush(kbd, kbc, keys) IN kbd' = f[1] /\ kbc' = f[2] /\ keys' = f[3]
  /\ UNCHANGED <<mouse, reset_request>>

\* pc_step: the processor alone is reset, the controller keeps its state.
SystemReset ==
  /\ reset_request
  /\ reset_request' = FALSE
  /\ UNCHANGED <<kbc, kbd, mouse, keys>>

\* A guest that works with the controller and the keyboard.
KeyboardNext ==
  \/ \E a \in ControllerArgs \ {"write_mouse"} : ExpectArgument(a)
  \/ ControllerAnswer
  \/ \E disable \in BOOLEAN : SetKbdDisabled(disable)
  \/ ReadData \/ WriteKeyboard \/ WriteArgument \/ KbdStep
  \/ ResetCommand \/ SystemReset
  \/ \E extended \in BOOLEAN : PutKeycode(extended)

\* A guest that works with the mouse while keys are pressed.
MouseNext ==
  \/ ExpectArgument("write_mouse")
  \/ WriteMouse \/ MouseEvent \/ ReadData
  \/ PutKeycode(FALSE)

\* A guest that works with both at once.
KbSpec == KbInit /\ [][KeyboardNext \/ MouseNext]_kbVars

(***************************************************************************)
(* Properties.                                                             *)
(***************************************************************************)
\* kbd_update_irq: whatever was queued, read, enabled or disabled in whatever order, the
\* status shows data exactly while a queue has some, attributed to the device the data port
\* will read, and the line of that device is up if its interrupts are on.
DataAnnounced ==
  /\ kbc.obf = (kbd.queue + mouse.queue > 0)
  /\ kbc.mouse_obf = (kbd.queue = 0 /\ mouse.queue > 0)
  /\ kbc.irq1 = (kbd.queue > 0 /\ kbc.mode \cap {"kbd_int", "disable_kbd"} = {"kbd_int"})
  /\ kbc.irq12 = (kbc.mouse_obf /\ "mouse_int" \in kbc.mode)

\* ps2_put_keycode, kbd_step, ps2_mouse_event: as long as the keyboard's queue never
\* overflowed, every prefix is followed by its own code before the next key's bytes; and
\* movement that fits the reserve is queued in whole packets.
StreamsWhole ==
  /\ ~keys.full => ~keys.torn
  /\ ~keys.packet_torn
==============================================================================
