------------------------------ MODULE VgaScreen ------------------------------
(***************************************************************************)
(* The VGA (vga.c) and what the calculator shows of it: guest registers    *)
(* and video memory, the renderers with the caches that let them draw less *)
(* than a whole frame, the frame buffer they draw in, and the native       *)
(* front end's redraw queue that copies it to the LCD                      *)
(* (winspire-ndless/main.c).                                               *)
(*                                                                         *)
(* Video memory is counted in 32-bit words: a word is a text cell, the     *)
(* four planes of eight pixels, or four chained pixels, and a visible line *)
(* is one word of graphics.  The DAC, the attribute controller and the     *)
(* font are versions: what is drawn remembers which one it was drawn with. *)
(* What the latches, rotation, set/reset and bit masks make of a written   *)
(* byte is left open: the word becomes any word.                           *)
(***************************************************************************)
EXTENDS Integers, FiniteSets

CONSTANTS
  VramWords,   \* size of video memory
  Words,       \* values of a word
  LcdRows,     \* rows of the LCD (240)
  BandRows,    \* rows of mode 13h on it (200)
  Heights,     \* lines of the planar modes (350..480)
  TextCols,    \* columns of the text screen
  TextRows,    \* rows of the text screen
  QuietPolls,  \* palette_quiet_polls after a DAC write (2 in the native build)
  FastPlanar,  \* TINY386_ENABLE_FAST_PLANAR_REFRESH (native build)
  ForceEvery,  \* 64: VBE presents between forced redraws
  PollReads,   \* NSPIRE_RETRACE_POLL_READS
  HoldFrames   \* text_hold_default

\* Every picture fits the LCD.
ASSUME VgaAssumption ==
  /\ {VramWords, LcdRows, BandRows, TextCols, TextRows, ForceEvery, PollReads} \subseteq Nat \ {0}
  /\ BandRows <= LcdRows /\ TextRows <= LcdRows
  /\ Heights \subseteq 2 .. 2 * LcdRows /\ 2 * BandRows \in Heights
  /\ QuietPolls \in Nat /\ HoldFrames \in 0 .. 255 /\ FastPlanar \in BOOLEAN
  /\ Words \subseteq Nat /\ 0 \in Words

VARIABLES
  vr,          \* registers
  vc,          \* what the renderers remember
  vram,        \* video memory
  fb,          \* frame buffer
  lcd,         \* the LCD
  front,       \* the front end's redraw queue
  shown        \* history: what the last refresh drew, what it could not know

vgaVars == <<vr, vc, vram, fb, lcd, front, shown>>

LcdLines == 0 .. LcdRows - 1
Blank == <<"blank">>
Dark == [y \in LcdLines |-> Blank]
Clean == [min |-> LcdRows, max |-> -1]
Cells == 0 .. TextCols * TextRows - 1
Forced == -1      \* (uint16_t)-1 in last_ch_attr
HoldForever == 255

\* The registers as vga_initmode, or the mode set of the video BIOS, leaves them.
ModeRegs(m) ==
  [on |-> TRUE, gfx |-> m # "text", shift |-> IF m \in {"band", "vbe"} THEN 2 ELSE 0,
   chain |-> m \in {"band", "vbe"}, planes |-> TRUE,
   geo |-> IF m = "band" THEN "low" ELSE "high",
   start |-> 0, line |-> IF m = "text" THEN TextCols ELSE 1, tall |-> 2 * BandRows,
   vbe |-> m = "vbe", vstart |-> 0, vline |-> 1, bpp8 |-> TRUE,
   dac |-> 0, attr |-> 0, font |-> 0, cursor |-> 0, shape |-> 1, phase |-> 0, reads |-> 0]

\* pc->vga_refresh_pending is not initialised.
VgaInit(m) ==
  /\ vr = ModeRegs(m)
  /\ vc = [mode |-> 0, palDirty |-> FALSE, forceFull |-> FALSE, quiet |-> 0,
           pal256 |-> -1, pal16 |-> <<-1, -1>>, sums |-> <<-1, -1>>, gpal |-> <<-1>>,
           d13 |-> Clean, d640 |-> Clean, rows640 |-> {},
           key640 |-> <<>>, prints |-> <<>>, keyVbe |-> <<>>, presents |-> 0,
           ch |-> [c \in Cells |-> 0], layout |-> <<>>, cur |-> <<0, 0>>, blink |-> TRUE,
           hold |-> 0, written |-> FALSE]
  /\ vram = [a \in 0 .. VramWords - 1 |-> 0]
  /\ fb = Dark
  /\ lcd = Dark
  /\ \E p \in BOOLEAN :
       front = [ready |-> FALSE, active |-> FALSE, modeChanged |-> FALSE, pending |-> p]
  /\ shown = [by |-> "none", band |-> FALSE, pair |-> FALSE, text |-> FALSE, age |-> 0, lost |-> FALSE]

\* No display is looked at.
VgaIdle ==
  /\ vr = << >> /\ vc = << >> /\ vram = << >> /\ fb = << >> /\ lcd = << >>
  /\ front = << >> /\ shown = << >>

\* The state a refresh works on; rows collects the arguments of its redraw calls.
Frame == [r |-> vr, c |-> vc, ram |-> vram, fb |-> fb, rows |-> {}, s |-> shown]

(***************************************************************************)
(* Which renderer draws (vga_refresh, vga_graphic_refresh and the early    *)
(* returns of the fast ones).                                              *)
(***************************************************************************)
GraphicMode(r) == IF ~r.on THEN 0 ELSE IF r.gfx THEN 2 ELSE 1

InRam(last) == last < VramWords

Renderer(r) ==
  CASE r.vbe /\ r.geo = "high" /\ InRam(r.vstart + r.vline * (2 * LcdRows - 1)) -> "vbe"
    [] /\ ~r.vbe /\ r.shift = 2 /\ r.chain /\ r.planes /\ r.geo \in {"low", "high"}
       /\ r.line > 0 /\ InRam(r.start + r.line * (BandRows - 1)) -> "mode13"
    [] /\ FastPlanar /\ ~r.vbe /\ r.shift = 0 /\ r.geo = "high"
       /\ r.line > 0 /\ InRam(r.start + r.line * (r.tall - 1)) -> "planar"
    [] OTHER -> "fallback"

Colours16(r) == <<r.dac, r.attr>>

Top(n) == (LcdRows - n) \div 2

(***************************************************************************)
(* The pictures: what each renderer would draw from nothing.               *)
(***************************************************************************)
BandRow(r, ram, pal, y) == <<"band", ram[r.start + r.line * y], pal>>

PairRow(r, ram, sums, y) ==
  <<"pair", ram[r.start + r.line * 2 * y], ram[r.start + r.line * (2 * y + 1)], sums>>

VbeRow(r, ram, y) ==
  <<"vbe", ram[r.vstart + r.vline * 2 * y], ram[r.vstart + r.vline * (2 * y + 1)],
    IF r.bpp8 THEN r.dac ELSE 0>>

CellAddr(r, c) == r.start + (c \div TextCols) * r.line + (c % TextCols)

\* A glyph, with the cursor over it or not.
Glyph(r, ram, pal, blink, c) ==
  <<ram[CellAddr(r, c) % VramWords], pal, r.font,
    IF r.cursor = CellAddr(r, c) /\ r.shape # 0 /\ blink THEN r.shape ELSE 0>>

TextRow(r, ram, pal, blink, y) ==
  [x \in 0 .. TextCols - 1 |-> Glyph(r, ram, pal, blink, y * TextCols + x)]

Centred(n, Row(_)) ==
  [y \in LcdLines |-> IF y - Top(n) \in 0 .. n - 1 THEN Row(y - Top(n)) ELSE Blank]

(***************************************************************************)
(* vga_mode13_draw: the dirty band, or everything.                         *)
(***************************************************************************)
Mode13Draw(f, full) ==
  LET pal == IF f.c.palDirty \/ f.c.pal256 = -1 THEN f.r.dac ELSE f.c.pal256
      force == full \/ f.c.palDirty \/ f.c.pal256 = -1
      ys == IF force THEN 0 .. BandRows - 1 ELSE f.c.d13.min .. f.c.d13.max
      row(y) == BandRow(f.r, f.ram, pal, y)
      band == Centred(BandRows, row) IN
  [f EXCEPT !.c.pal256 = pal, !.c.palDirty = FALSE, !.c.d13 = Clean, !.c.key640 = <<>>,
            !.fb = [y \in LcdLines |-> IF force \/ y - Top(BandRows) \in ys THEN band[y] ELSE @[y]],
            !.rows = IF force THEN LcdLines ELSE {y + Top(BandRows) : y \in ys},
            !.s.band = @ /\ ~force]

(***************************************************************************)
(* vga_planar16_draw: the dirty rows, each averaging two lines.            *)
(***************************************************************************)
PlanarDraw(f, full) ==
  LET colours == Colours16(f.r)
      out == f.r.tall \div 2
      key == <<f.r.start, f.r.line, f.r.tall>>
      force == full \/ f.c.pal16 # colours \/ f.c.key640 # key
      ys == IF force THEN 0 .. out - 1
            ELSE {y \in f.c.rows640 : y >= f.c.d640.min /\ y <= f.c.d640.max /\ y < out}
      row(y) == PairRow(f.r, f.ram, colours, y)
      picture == Centred(out, row) IN
  [f EXCEPT !.c.pal16 = colours, !.c.sums = colours, !.c.key640 = key,
            !.c.rows640 = @ \ ys, !.c.d640 = Clean,
            !.fb = [y \in LcdLines |-> IF force \/ y - Top(out) \in ys THEN picture[y] ELSE @[y]],
            !.rows = IF force THEN LcdLines
                     ELSE {y \in LcdLines : \E a, b \in ys : a + Top(out) <= y /\ y <= b + Top(out)},
            !.s.band = TRUE, !.s.pair = @ /\ ~force]

(***************************************************************************)
(* vga_vbe_scale2: the rows whose fingerprint changed.  Two pairs of lines *)
(* may have the same fingerprint; every ForceEvery presents all are drawn. *)
(***************************************************************************)
Fingerprint(r, ram, y) == ram[r.vstart + r.vline * 2 * y] + ram[r.vstart + r.vline * (2 * y + 1)]

VbeDraw(f, full) ==
  LET key == <<f.r.vstart, f.r.vline, f.r.bpp8>>
      presents == (f.c.presents + 1) % ForceEvery
      prints == [y \in LcdLines |-> Fingerprint(f.r, f.ram, y)]
      force == full \/ f.c.keyVbe # key \/ presents = 0
      ys == IF force THEN LcdLines ELSE {y \in LcdLines : f.c.prints[y] # prints[y]} IN
  [f EXCEPT !.c.prints = prints, !.c.keyVbe = key, !.c.presents = presents,
            !.c.key640 = <<>>,
            !.fb = [y \in LcdLines |-> IF y \in ys THEN VbeRow(f.r, f.ram, y) ELSE @[y]],
            !.rows = {y \in LcdLines : \E a, b \in ys : a <= y /\ y <= b},
            !.s.band = TRUE, !.s.age = IF @ < ForceEvery THEN @ + 1 ELSE @]

\* The pixel by pixel renderer draws everything, every time.
FallbackDraw(f) ==
  [f EXCEPT !.c.key640 = <<>>, !.fb = [y \in LcdLines |-> <<"fallback">>], !.rows = LcdLines,
            !.s.band = TRUE]

\* graphic_palette, brought up to date before any renderer runs.
GraphicPalette(r, old) ==
  CASE r.vbe /\ ~r.bpp8 -> old
    [] ~r.vbe /\ r.shift \in {0, 1} -> Colours16(r)
    [] OTHER -> <<r.dac>>

\* vga_graphic_refresh.
GraphicRefresh(f, full) ==
  LET by == Renderer(f.r)
      gpal == GraphicPalette(f.r, f.c.gpal)
      g == [f EXCEPT !.s.by = by, !.c.gpal = gpal] IN
  CASE by = "vbe" -> VbeDraw(g, full \/ f.c.gpal # gpal)
    [] by = "mode13" -> Mode13Draw(g, full)
    [] by = "planar" -> PlanarDraw(g, full)
    [] OTHER -> FallbackDraw(g)

(***************************************************************************)
(* vga_text_refresh and vga_text_scale2: the cells that differ from the    *)
(* last ones drawn, and the one under the cursor.  A refresh that was      *)
(* ordered to draw everything does not call update_palette16: it draws     *)
(* with the colours of the refresh before it.  Unusual layouts are drawn   *)
(* whole, over what lies around them.                                      *)
(***************************************************************************)
TextRefresh(f, full, tick) ==
  LET blink == IF tick THEN ~f.c.blink ELSE f.c.blink
      colours == IF full THEN f.c.pal16 ELSE Colours16(f.r)
      full1 == full \/ f.c.pal16 # colours
      layout == <<f.r.line, f.r.start>>
      odd == f.r.geo = "odd"
      all == full1 \/ f.c.layout # layout \/ odd
      offset == f.r.cursor - f.r.start
      cur == <<offset, f.r.shape>>
      moved == IF f.c.cur = cur THEN {} ELSE {f.c.cur[1], offset}
      ch == [c \in Cells |-> IF c \in moved THEN Forced ELSE f.c.ch[c]]
      word(c) == f.ram[CellAddr(f.r, c) % VramWords]
      draw == {c \in Cells : all \/ word(c) # ch[c] \/ f.r.cursor = CellAddr(f.r, c)}
      cell(c) == Glyph(f.r, f.ram, colours, blink, c)
      top == Top(TextRows)
      base == IF all /\ ~odd THEN Dark ELSE f.fb IN
  IF f.r.geo = "big"
  THEN \* not enough space: nothing is drawn, and the order to draw everything is forgotten
       [f EXCEPT !.c.blink = blink, !.c.pal16 = colours, !.s.text = @ \/ full1, !.s.by = "none"]
  ELSE [f EXCEPT !.c.blink = blink, !.c.pal16 = colours, !.c.layout = layout, !.c.cur = cur,
                 !.c.ch = [c \in Cells |-> IF c \in draw THEN word(c) ELSE ch[c]],
                 !.fb = [y \in LcdLines |->
                           IF y - top \in 0 .. TextRows - 1
                           THEN [x \in 0 .. TextCols - 1 |->
                                   IF (y - top) * TextCols + x \in draw
                                   THEN cell((y - top) * TextCols + x)
                                   ELSE IF base[y] = Blank THEN Blank ELSE base[y][x]]
                           ELSE base[y]],
                 !.rows = IF all THEN LcdLines
                          ELSE {y \in LcdLines : \E a, b \in draw :
                                  top + (a \div TextCols) <= y /\ y <= top + (b \div TextCols)},
                 !.s.by = IF full THEN "ordered" ELSE "text", !.s.text = @ /\ (odd \/ ~all)]

(***************************************************************************)
(* vga_refresh.                                                            *)
(***************************************************************************)
\* A change of mode clears the frame buffer, unless the last graphic frame is to be held.
ModeChange(f) ==
  LET mode == GraphicMode(f.r)
      g == [f EXCEPT !.c.mode = mode]
      cleared == [g EXCEPT !.c.hold = 0, !.fb = Dark, !.s.text = FALSE] IN
  CASE mode = f.c.mode -> f
    [] mode # f.c.mode /\ f.c.mode = 2 /\ HoldFrames > 0 ->
         [g EXCEPT !.c.written = FALSE, !.c.hold = HoldFrames]
    [] mode # f.c.mode /\ f.c.mode = 0 /\ mode = 1 /\ f.c.hold > 0 -> g
    [] OTHER -> cleared

\* vga_refresh in text mode while the last graphic frame is held.
HeldRefresh(f, tick) ==
  IF f.c.hold = HoldForever THEN f
  ELSE IF f.c.written \/ f.c.hold = 1
  THEN TextRefresh([f EXCEPT !.c.hold = 0, !.fb = Dark, !.s.text = FALSE], TRUE, tick)
  ELSE [f EXCEPT !.c.hold = @ - 1]

Refresh(f0, full0, tick) ==
  LET f == [ModeChange(f0) EXCEPT !.s.by = "none"]
      full == full0 \/ f.c.mode # f0.c.mode IN
  CASE f.c.mode = 2 /\ f.c.quiet > 0 -> [f EXCEPT !.c.quiet = @ - 1]
    [] f.c.mode = 2 /\ f.c.quiet = 0 ->
         GraphicRefresh([f EXCEPT !.c.forceFull = FALSE], full \/ f.c.forceFull)
    [] f.c.mode = 1 /\ f.c.hold > 0 -> HeldRefresh(f, tick)
    [] f.c.mode = 1 /\ f.c.hold = 0 -> TextRefresh(f, full, tick)
    [] OTHER -> f

(***************************************************************************)
(* The front end: one redraw call at most reaches the queue in a poll, so  *)
(* the queue's rectangle is that call's.                                   *)
(***************************************************************************)
\* claim_lcd: lcd_init is called when the LCD is not known to be ours, or after LCD_RETRY_MS.
Claimed(active, force, retry, ok) == IF force \/ ~active \/ retry THEN ok ELSE TRUE

\* redraw, flush_redraw and keep_lcd after a refresh; keep says LCD_POLL_MS have passed.
Present(f, ok, retry, keep) ==
  LET changed == front.modeChanged \/ f.c.mode # vc.mode
      called == f.rows # {}
      full == called /\ (changed \/ 4 * Cardinality(f.rows) >= 3 * LcdRows)
      first == called /\ ~front.ready
      drawn == called /\ Claimed(front.active, first, retry, ok)
      active == IF called THEN drawn ELSE front.active
      reclaim == /\ front.ready \/ called
                 /\ ~(changed /\ ~called) /\ keep /\ ~drawn /\ (~active \/ retry) /\ ok IN
  /\ lcd' = IF reclaim \/ (drawn /\ (first \/ full)) THEN f.fb
            ELSE IF drawn THEN [y \in LcdLines |-> IF y \in f.rows THEN f.fb[y] ELSE lcd[y]]
            ELSE lcd
  /\ front' = [ready |-> front.ready \/ called, active |-> active \/ reclaim,
               modeChanged |-> changed /\ ~called, pending |-> FALSE]
  /\ shown' = [f.s EXCEPT !.lost = ~reclaim /\ ~(drawn /\ (first \/ full))
                                   /\ (@ \/ (called /\ ~drawn))]
  /\ vr' = f.r /\ vc' = f.c /\ fb' = f.fb
  /\ UNCHANGED vram

\* vga_refresh as the front ends call it directly; tick says the cursor's time has come.
VgaRefresh(full, tick, ok, retry, keep) == Present(Refresh(Frame, full, tick), ok, retry, keep)

(***************************************************************************)
(* The retrace: vga_step at every poll, and every PollReads-th read of     *)
(* port 0x3da.                                                             *)
(***************************************************************************)
NextPhase(r) == [r EXCEPT !.phase = (@ + 1) % 3]

\* pc_vga_step_display: the retrace asks for a refresh only when vga_step itself enters it.
StepDisplay(render, full, tick) ==
  LET pending == front.pending \/ vr.phase = 1
      f == [Frame EXCEPT !.r = NextPhase(@)] IN
  IF render /\ pending THEN Present(Refresh(f, full, tick), TRUE, FALSE, FALSE)
  ELSE /\ vr' = NextPhase(vr)
       /\ front' = [front EXCEPT !.pending = pending]
       /\ UNCHANGED <<vc, vram, fb, lcd, shown>>

\* vga_ioport_read of 0x3da.
ReadInputStatus ==
  /\ vr' = IF vr.reads + 1 >= PollReads THEN [NextPhase(vr) EXCEPT !.reads = 0]
           ELSE [vr EXCEPT !.reads = @ + 1]
  /\ UNCHANGED <<vc, vram, fb, lcd, front, shown>>

(***************************************************************************)
(* The guest: registers (vga_ioport_write, vbe_write).                     *)
(***************************************************************************)
Unseen == [shown EXCEPT !.by = "none", !.age = 0]

\* Between the usual and the unusual layouts the width of a cell may be all that changes.
Reshaped(r) == (r.geo = "odd") # (vr.geo = "odd")

Registers(r) ==
  /\ vr' = r
  /\ shown' = [Unseen EXCEPT !.band = @ \/ r.start # vr.start \/ r.line # vr.line,
                             !.text = \/ @ \/ r.font # vr.font \/ Reshaped(r)
                                      \/ /\ r.cursor # vr.cursor
                                         /\ vc.layout # <<>> /\ vc.layout[1] # TextCols]
  /\ UNCHANGED <<vram, fb, lcd, front>>

WriteRegisters(r) == Registers(r) /\ UNCHANGED vc

\* vga_dirty_palette.
DirtyPalette(c) == [c EXCEPT !.palDirty = TRUE, !.forceFull = TRUE, !.quiet = QuietPolls]

\* The third byte of a colour written to port 0x3c9.
WriteDac(v) == Registers([vr EXCEPT !.dac = v]) /\ vc' = DirtyPalette(vc)

\* VBE_DISPI_INDEX_ENABLE: fixup, the VGA registers, and the screen cleared.
VbeEnable(on, high, clear, v) ==
  /\ vr' = IF on THEN [vr EXCEPT !.vbe = TRUE, !.gfx = TRUE, !.shift = 2, !.chain = TRUE,
                                 !.planes = TRUE, !.line = vr.vline, !.dac = v,
                                 !.vstart = IF vr.vbe THEN @ ELSE 0,
                                 !.geo = IF high THEN "high" ELSE "odd"]
           ELSE [vr EXCEPT !.vbe = FALSE, !.dac = v]
  /\ vc' = IF v # vr.dac THEN DirtyPalette(vc) ELSE vc
  /\ vram' = IF clear THEN [a \in DOMAIN vram |-> 0] ELSE vram
  /\ shown' = [Unseen EXCEPT !.band = TRUE, !.pair = TRUE, !.text = @ \/ Reshaped(vr')]
  /\ UNCHANGED <<fb, lcd, front>>

(***************************************************************************)
(* The guest: video memory.                                                *)
(***************************************************************************)
Covered(a, n) == a .. a + n - 1

Poked(a, n, w) == [x \in DOMAIN vram |-> IF x \in Covered(a, n) THEN w ELSE vram[x]]

\* The lines a write touches, counted from the display start, in units of k lines.
Lines(r, a, n, k) ==
  {((x - r.start) \div r.line) \div k : x \in {y \in Covered(a, n) : y >= r.start}}

Widened(d, ys) ==
  IF ys = {} THEN d
  ELSE LET lo == CHOOSE y \in ys : \A z \in ys : y <= z
           hi == CHOOSE y \in ys : \A z \in ys : z <= y IN
       [min |-> IF lo < d.min THEN lo ELSE d.min, max |-> IF hi > d.max THEN hi ELSE d.max]

\* Mutant: the last line of a write that crosses lines is not marked.
DirtyMode13Short(c, r, a, n) ==
  IF r.line = 0 THEN c
  ELSE [c EXCEPT !.d13 = Widened(@, Lines(r, a, 1, 1) \cap 0 .. BandRows - 1)]

\* vga_dirty_mode13.
DirtyMode13(c, r, a, n) ==
  IF r.line = 0 THEN c
  ELSE [c EXCEPT !.d13 = Widened(@, Lines(r, a, n, 1) \cap 0 .. BandRows - 1)]

\* vga_dirty_planar640.
DirtyPlanar640(c, r, a, n) ==
  LET ys == Lines(r, a, n, 2) \cap LcdLines IN
  IF r.line = 0 THEN c ELSE [c EXCEPT !.d640 = Widened(@, ys), !.rows640 = @ \cup ys]

Wrote(c) == [c EXCEPT !.written = @ \/ HoldFrames > 0]

\* Chain 4: vga_mem_write, vga_mem_write16, vga_mem_write32 and vga_mem_write_string.
ChainWrite(a, n, w) ==
  /\ vr.chain /\ a + n <= VramWords
  /\ vram' = Poked(a, n, w)
  /\ vc' = Wrote(DirtyMode13(vc, vr, a, n))
  /\ shown' = [Unseen EXCEPT !.pair = TRUE]
  /\ UNCHANGED <<vr, fb, lcd, front>>

\* Odd/even and latched writes, and vga_planar_write.
PlaneWrite(a, n, w) ==
  /\ ~vr.chain /\ a + n <= VramWords
  /\ vram' = Poked(a, n, w)
  /\ vc' = Wrote(DirtyPlanar640(vc, vr, a, n))
  /\ shown' = [Unseen EXCEPT !.band = TRUE, !.pair = @ \/ vc.key640 # <<vr.start, vr.line, vr.tall>>]
  /\ UNCHANGED <<vr, fb, lcd, front>>

\* Through the linear frame buffer (iomem_write8 .. iomem_write_string of pc.c).
LfbWrite(a, n, w) ==
  /\ a + n <= VramWords
  /\ vram' = Poked(a, n, w)
  /\ shown' = [Unseen EXCEPT !.band = TRUE, !.pair = TRUE]
  /\ UNCHANGED <<vr, vc, fb, lcd, front>>

\* TI-OS takes the LCD back.
LcdTaken ==
  /\ lcd' = [y \in LcdLines |-> <<"os">>]
  /\ shown' = [shown EXCEPT !.lost = TRUE]
  /\ UNCHANGED <<vr, vc, vram, fb, front>>

(***************************************************************************)
(* Guests: what each may do, the other registers staying as they are.      *)
(***************************************************************************)
RefreshSome == \E full \in BOOLEAN : VgaRefresh(full, FALSE, TRUE, FALSE, FALSE)

BandNext ==
  \/ \E a \in 0 .. 2, n \in {1, 2} : ChainWrite(a, n, 1 - vram[a])
  \/ LfbWrite(1, 1, 1 - vram[1])
  \/ \E s \in {0, 1} : WriteRegisters([vr EXCEPT !.start = s])
  \/ WriteDac(1 - vr.dac)
  \/ RefreshSome

PlanarNext ==
  \/ \E a \in {0, 1, 2}, n \in {1, 2} : PlaneWrite(a, n, 1 - vram[a])
  \/ \E s \in {0, 1} : WriteRegisters([vr EXCEPT !.start = s])
  \/ \E h \in Heights : WriteRegisters([vr EXCEPT !.tall = h])
  \/ WriteRegisters([vr EXCEPT !.attr = 1 - @])
  \/ RefreshSome

TextNext ==
  \/ \E a \in {0, 2} : PlaneWrite(a, 1, 1 - vram[a])
  \/ \E c \in 0 .. 2 : WriteRegisters([vr EXCEPT !.cursor = c])
  \/ \E h \in {0, 1} : WriteRegisters([vr EXCEPT !.shape = h])
  \/ \E s \in {0, 1} : WriteRegisters([vr EXCEPT !.start = s])
  \/ WriteRegisters([vr EXCEPT !.attr = 1 - @])
  \/ \E full, tick \in BOOLEAN : VgaRefresh(full, tick, TRUE, FALSE, FALSE)

\* A mode set is several port writes; a refresh may come between any two of them.
ModesNext ==
  \/ \E b \in BOOLEAN : \/ WriteRegisters([vr EXCEPT !.on = b])
                       \/ WriteRegisters([vr EXCEPT !.gfx = b])
                       \/ WriteRegisters([vr EXCEPT !.chain = b])
  \/ \E s \in {0, 2} : WriteRegisters([vr EXCEPT !.shift = s])
  \/ ChainWrite(0, 1, 1 - vram[0]) \/ PlaneWrite(0, 1, 1 - vram[0])
  \/ VgaRefresh(FALSE, FALSE, TRUE, FALSE, FALSE)

VbeNext ==
  \/ \E a \in {0, 1} : LfbWrite(a, 1, 1 - vram[a])
  \/ \E on \in BOOLEAN : VbeEnable(on, on, TRUE, vr.dac)
  \/ VbeEnable(TRUE, TRUE, FALSE, 1 - vr.dac)
  \/ \E b \in BOOLEAN : WriteRegisters([vr EXCEPT !.bpp8 = b])
  \/ VgaRefresh(FALSE, FALSE, TRUE, FALSE, FALSE)

LcdNext ==
  \/ \E a \in 0 .. 1, w \in Words : ChainWrite(a, 1, w)
  \/ LcdTaken
  \/ \E full, ok, retry, keep \in BOOLEAN : VgaRefresh(full, FALSE, ok, retry, keep)

RetraceNext ==
  \/ ReadInputStatus
  \/ \E render, full \in BOOLEAN : StepDisplay(render, full, FALSE)
  \/ \E w \in Words : PlaneWrite(0, 1, w)
  \/ \E g \in {"high", "odd", "big"} : WriteRegisters([vr EXCEPT !.geo = g])

\* Any guest: whatever it writes to registers and memory, whenever the display is polled.
VgaRegs ==
  [on : BOOLEAN, gfx : BOOLEAN, shift : 0 .. 3, chain : BOOLEAN, planes : BOOLEAN,
   geo : {"low", "high", "odd", "big"}, start : Nat, line : Nat, tall : Heights,
   vbe : BOOLEAN, vstart : Nat, vline : Nat, bpp8 : BOOLEAN, dac : Nat, attr : Nat,
   font : Nat, cursor : Nat, shape : Nat, phase : 0 .. 2, reads : Nat]

VgaNext ==
  \/ \E r \in VgaRegs : r.dac = vr.dac /\ r.vbe = vr.vbe /\ WriteRegisters(r)
  \/ \E v \in Nat : WriteDac(v)
  \/ \E on, high, clear \in BOOLEAN, v \in Nat : VbeEnable(on, high, clear, v)
  \/ \E a \in 0 .. VramWords - 1, n \in 1 .. VramWords, w \in Words :
       ChainWrite(a, n, w) \/ PlaneWrite(a, n, w) \/ LfbWrite(a, n, w)
  \/ ReadInputStatus \/ LcdTaken
  \/ \E full, tick, ok, retry, keep \in BOOLEAN : VgaRefresh(full, tick, ok, retry, keep)
  \/ \E render, full, tick \in BOOLEAN : StepDisplay(render, full, tick)

VgaSpec == (\E m \in {"band", "planar", "text", "vbe"} : VgaInit(m)) /\ [][VgaNext]_vgaVars

(***************************************************************************)
(* Properties.                                                             *)
(***************************************************************************)
\* What the LCD should show for what the guest programmed.
Wanted ==
  LET band(y) == BandRow(vr, vram, vr.dac, y)
      pair(y) == PairRow(vr, vram, Colours16(vr), y)
      text(y) == TextRow(vr, vram, Colours16(vr), vc.blink, y)
      stale(y) == TextRow(vr, vram, vc.pal16, vc.blink, y) IN
  CASE shown.by = "mode13" -> Centred(BandRows, band)
    [] shown.by = "planar" -> Centred(vr.tall \div 2, pair)
    [] shown.by = "vbe" -> [y \in LcdLines |-> VbeRow(vr, vram, y)]
    [] shown.by = "text" -> Centred(TextRows, text)
    [] shown.by = "ordered" -> Centred(TextRows, stale)
    [] OTHER -> lcd

\* After a refresh the LCD shows what the guest programmed, although the fast renderers
\* (vga_mode13_draw, vga_planar16_draw, vga_vbe_scale2, vga_text_scale2) redraw only what
\* their dirty rows, fingerprints and remembered cells say has changed, palettes change
\* without touching memory, and a palette burst or a held text screen postpones the drawing.
\* A text refresh that was ordered to draw everything shows all of it but in the colours
\* of the refresh before (update_palette16 is skipped): the next one owes the new colours.
\* Left out is what the code cannot notice: `band`, `pair` and `text` record it, a VBE
\* picture is due only after ForceEvery presents, `lost` says TI-OS took the LCD.
ScreenShows ==
  \/ shown = << >>
  \/ shown.lost
  \/ shown.by = "mode13" /\ shown.band
  \/ shown.by = "planar" /\ shown.pair
  \/ shown.by \in {"text", "ordered"} /\ shown.text
  \/ shown.by = "vbe" /\ shown.age < ForceEvery
  \/ lcd = Wanted
=============================================================================
