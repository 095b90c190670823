---------------------------- MODULE Screen_proofs ----------------------------
(***************************************************************************)
(* Proofs about the screen: whatever the guest writes to the registers and *)
(* the memory of the VGA, and whenever the display is polled, the LCD      *)
(* shows after a refresh what a renderer that draws everything would draw. *)
(***************************************************************************)
EXTENDS VgaScreen, WellFoundedInduction, TLAPS

(***************************************************************************)
(* Quotients, remainders and least members, for lines and columns.         *)
(***************************************************************************)
\* Quotient and remainder.
LEMMA DivMod ==
  ASSUME NEW a \in Int, NEW b \in Nat \ {0}
  PROVE  a \div b \in Int /\ a % b \in 0 .. b - 1 /\ a = b * (a \div b) + (a % b)
BY SMT

\* They are the only such pair.
LEMMA DivUnique ==
  ASSUME NEW b \in Nat \ {0}, NEW q \in Int, NEW r \in 0 .. b - 1, NEW a \in Int, a = b * q + r
  PROVE  a \div b = q /\ a % b = r
<1> DEFINE p == a \div b
<1>1. p \in Int /\ a % b \in 0 .. b - 1 /\ a = b * p + (a % b)
  BY DivMod
<1> HIDE DEF p
<1>2. ASSUME p < q PROVE FALSE
  <2>1. p + 1 <= q /\ b * (p + 1) = b * p + b
    BY <1>1, <1>2, SMT
  <2>2. b * (p + 1) <= b * q
    BY <1>1, <2>1, SMT
  <2> QED
    BY <1>1, <2>1, <2>2, SMT
<1>3. ASSUME q < p PROVE FALSE
  <2>1. q + 1 <= p /\ b * (q + 1) = b * q + b
    BY <1>1, <1>3, SMT
  <2>2. b * (q + 1) <= b * p
    BY <1>1, <2>1, SMT
  <2> QED
    BY <1>1, <2>1, <2>2, SMT
<1>4. p = q
  BY <1>1, <1>2, <1>3
<1> QED
  BY <1>1, <1>4, SMT DEF p

\* The quotient of what is at most k divisors.
LEMMA QuotientBound ==
  ASSUME NEW n \in Nat \ {0}, NEW k \in Nat, NEW a \in 0 .. k * n
  PROVE  a \div n \in 0 .. k
<1> DEFINE q == a \div n
           r == a % n
<1>1. q \in Int /\ r \in 0 .. n - 1 /\ a = n * q + r /\ a \in Int
  BY DivMod
<1> HIDE DEF q, r
<1>2. ASSUME q < 0 PROVE FALSE
  <2>1. n * q <= n * (-1)
    BY <1>1, <1>2, SMT
  <2> QED
    BY <1>1, <2>1, SMT
<1>3. ASSUME q > k PROVE FALSE
  <2>1. n * q >= n * (k + 1) /\ n * (k + 1) = k * n + n
    BY <1>1, <1>3, SMT
  <2> QED
    BY <1>1, <2>1, SMT
<1>4. q \in 0 .. k
  BY <1>1, <1>2, <1>3
<1> QED
  BY <1>4 DEF q

\* What becomes of a number that is reduced.
LEMMA ModType ==
  ASSUME NEW a \in Int, NEW b \in Nat \ {0}
  PROVE  a % b \in Nat /\ a % b < b
BY DivMod

\* A product of numbers that grow.
LEMMA ProductMonotone ==
  ASSUME NEW a \in Int, NEW b \in Int, NEW k \in Nat, a <= b
  PROVE  a * k <= b * k
BY SMT

\* A quotient and what it is the quotient of.
LEMMA QuotientLess ==
  ASSUME NEW n \in Nat \ {0}, NEW a \in Nat, NEW k \in Int
  PROVE  /\ a \div n \in Nat /\ (a \div n) * n <= a /\ a < ((a \div n) + 1) * n
         /\ a < k * n <=> a \div n < k
<1> DEFINE q == a \div n
           r == a % n
<1>1. q \in Int /\ r \in 0 .. n - 1 /\ a = n * q + r
  BY DivMod
<1>2. a \in 0 .. a * n
  BY SMT
<1>3. q \in 0 .. a
  BY <1>2, QuotientBound
<1> HIDE DEF q, r
<1>4. q \in Nat /\ n * q = q * n /\ (q + 1) * n = q * n + n
  BY <1>1, <1>3, SMT
<1>5. q * n <= a /\ a < (q + 1) * n
  BY <1>1, <1>4
<1>6. ASSUME a < k * n, k <= q PROVE FALSE
  <2>1. k * n <= q * n
    BY <1>4, <1>6, ProductMonotone
  <2>2. k * n \in Int /\ q * n \in Int
    BY <1>4
  <2> QED
    BY <1>5, <1>6, <2>1, <2>2
<1>7. ASSUME q < k, k * n <= a PROVE FALSE
  <2>1. q + 1 <= k /\ q + 1 \in Int
    BY <1>4, <1>7
  <2>2. (q + 1) * n <= k * n
    BY <2>1, ProductMonotone
  <2>3. k * n \in Int /\ (q + 1) * n \in Int
    BY <1>4
  <2> QED
    BY <1>5, <1>7, <2>2, <2>3
<1>8. a < k * n <=> q < k
  BY <1>4, <1>6, <1>7
<1> QED
  BY <1>4, <1>5, <1>8 DEF q

\* A set of naturals has a least member.
LEMMA LeastOf ==
  ASSUME NEW T, T \subseteq Nat, T # {}
  PROVE  \E x \in T : \A y \in T : x <= y
<1>1. PICK x \in T : \A y \in T : ~ (<<y, x>> \in OpToRel(<, Nat))
  BY NatLessThanWellFounded, WFMin, Zenon
<1>2. \A y \in T : ~(y < x)
  BY <1>1 DEF OpToRel
<1> QED
  BY <1>2, SMT

\* A bounded one has a greatest.
LEMMA GreatestOf ==
  ASSUME NEW N \in Nat, NEW T, T \subseteq 0 .. N, T # {}
  PROVE  \E x \in T : \A y \in T : y <= x
<1> DEFINE U == {N - y : y \in T}
<1>1. U \subseteq Nat /\ U # {}
  <2>1. \A y \in T : N - y \in Nat
    BY SMT
  <2>2. PICK y \in T : TRUE
    OBVIOUS
  <2>3. N - y \in U
    BY <2>2
  <2> QED
    BY <2>1, <2>3
<1>2. PICK u \in U : \A v \in U : u <= v
  BY <1>1, LeastOf
<1>3. PICK x \in T : u = N - x
  BY <1>2
<1>4. \A y \in T : u <= N - y
  BY <1>2
<1> QED
  BY <1>3, <1>4, SMT

-----------------------------------------------------------------------------
(***************************************************************************)
(* The inductive invariant: for each renderer, the frame buffer holds its  *)
(* picture but for what its dirty lines, fingerprints or cells name.       *)
(***************************************************************************)
\* The frame a refresh works on, field by field.
RegFields ==
  {"on", "gfx", "shift", "chain", "planes", "geo", "start", "line", "tall", "vbe", "vstart",
   "vline", "bpp8", "dac", "attr", "font", "cursor", "shape", "phase", "reads"}
CacheFields ==
  {"mode", "palDirty", "forceFull", "quiet", "pal256", "pal16", "sums", "gpal", "d13", "d640",
   "rows640", "key640", "prints", "keyVbe", "presents", "ch", "layout", "cur", "blink", "hold",
   "written"}
ShownFields == {"by", "band", "pair", "text", "age", "lost"}

IsFrame(f) ==
  /\ DOMAIN f = {"r", "c", "ram", "fb", "rows", "s"}
  /\ DOMAIN f.r = RegFields /\ DOMAIN f.c = CacheFields /\ DOMAIN f.s = ShownFields

\* A band of dirty lines.
IsSpan(d) == d.min \in Int /\ d.max \in Int

RegsOk(r) ==
  /\ r.start \in Nat /\ r.line \in Nat /\ r.tall \in Heights /\ r.vstart \in Nat /\ r.vline \in Nat
  /\ r.dac \in Nat /\ r.cursor \in Nat

CachesOk(c) ==
  /\ c.mode \in 0 .. 2 /\ c.quiet \in Nat /\ c.hold \in 0 .. 255
  /\ c.presents \in 0 .. ForceEvery - 1
  /\ c.palDirty \in BOOLEAN /\ c.forceFull \in BOOLEAN
  /\ c.pal256 \in Int
  /\ IsSpan(c.d13) /\ IsSpan(c.d640)
  /\ c.ch \in [Cells -> Int]
  /\ c.cur[1] \in Int
  /\ c.layout = <<>> \/ c.layout \in Nat \X Nat
  /\ c.key640 = <<>> \/ c.key640 \in Nat \X Nat \X Heights

ShownOk(s) ==
  /\ s.band \in BOOLEAN /\ s.pair \in BOOLEAN /\ s.text \in BOOLEAN /\ s.lost \in BOOLEAN
  /\ s.age \in Nat

IsPicture(p) == DOMAIN p = LcdLines /\ p = [y \in LcdLines |-> p[y]]

VgaShape(f) ==
  /\ IsFrame(f) /\ RegsOk(f.r) /\ CachesOk(f.c) /\ ShownOk(f.s)
  /\ f.ram \in [0 .. VramWords - 1 -> Words]
  /\ IsPicture(f.fb)

\* The frame buffer holds the band but for its dirty lines.
BandShown(f) ==
  /\ f.r.line > 0 /\ InRam(f.r.start + f.r.line * (BandRows - 1))
  /\ \A y \in LcdLines :
       IF y - Top(BandRows) \in 0 .. BandRows - 1
       THEN \/ y - Top(BandRows) \in f.c.d13.min .. f.c.d13.max
            \/ f.fb[y] = BandRow(f.r, f.ram, f.c.pal256, y - Top(BandRows))
       ELSE f.fb[y] = Blank

BandKept(f) == f.c.mode = 2 /\ ~f.c.forceFull /\ ~f.s.band => BandShown(f)

\* The same for the pairs of lines of the planar picture drawn last.
KeyRow(ram, k, colours, y) ==
  <<"pair", ram[k[1] + k[2] * 2 * y], ram[k[1] + k[2] * (2 * y + 1)], colours>>

DirtyPair(c, y) == y \in c.rows640 /\ y >= c.d640.min /\ y <= c.d640.max

PairShown(f) ==
  LET k == f.c.key640
      out == k[3] \div 2 IN
  /\ k[2] > 0 /\ InRam(k[1] + k[2] * (k[3] - 1))
  /\ \A y \in LcdLines :
       IF y - Top(out) \in 0 .. out - 1
       THEN DirtyPair(f.c, y - Top(out)) \/ f.fb[y] = KeyRow(f.ram, k, f.c.pal16, y - Top(out))
       ELSE f.fb[y] = Blank

PairKept(f) ==
  f.c.mode = 2 /\ ~f.c.forceFull /\ ~f.s.pair /\ f.c.key640 # <<>> => PairShown(f)

\* The VBE picture, or not all presents since the last change were partial.
VbePicture(f) == [y \in LcdLines |-> VbeRow(f.r, f.ram, y)]

VbeKept(f) ==
  f.s.age > 0 =>
    /\ Renderer(f.r) = "vbe" /\ GraphicMode(f.r) = 2 /\ f.c.mode = 2
    /\ f.fb = VbePicture(f) \/ f.c.presents >= f.s.age

\* The remembered cells are on the screen, but for the one the cursor was on.
UnderCursor(c, i) == c.cur[1] = (i \div TextCols) * c.layout[1] + (i % TextCols)

TextShown(f) ==
  /\ f.c.layout # <<>>
  /\ f.c.layout[1] = TextCols \/ f.r.cursor - f.c.layout[2] = f.c.cur[1]
  /\ \A y \in LcdLines :
       IF y - Top(TextRows) \in 0 .. TextRows - 1
       THEN \E p : /\ f.fb[y] = [x \in 0 .. TextCols - 1 |-> p[x]]
                   /\ \A x \in 0 .. TextCols - 1 :
                        LET i == (y - Top(TextRows)) * TextCols + x IN
                        UnderCursor(f.c, i) \/ p[x] = <<f.c.ch[i], f.c.pal16, f.r.font, 0>>
       ELSE f.fb[y] = Blank

TextKept(f) == f.c.mode = 1 /\ f.c.hold = 0 /\ ~f.s.text => TextShown(f)

\* What the last refresh drew is the picture.
BandPicture(f) == LET row(y) == BandRow(f.r, f.ram, f.r.dac, y) IN Centred(BandRows, row)
PairPicture(f) == LET row(y) == PairRow(f.r, f.ram, Colours16(f.r), y) IN Centred(f.r.tall \div 2, row)
TextPicture(f, colours) ==
  LET row(y) == TextRow(f.r, f.ram, colours, f.c.blink, y) IN Centred(TextRows, row)

Drawn(f) ==
  /\ f.s.by \in {"mode13", "planar", "vbe"} => f.c.mode = 2 /\ ~f.c.forceFull
  /\ f.s.by \in {"text", "ordered"} => f.c.mode = 1 /\ f.c.hold = 0
  /\ f.s.by = "vbe" => f.s.age > 0
  /\ f.s.by = "mode13" /\ ~f.s.band => f.fb = BandPicture(f)
  /\ f.s.by = "planar" /\ ~f.s.pair => f.fb = PairPicture(f)
  /\ f.s.by = "text" /\ ~f.s.text => f.fb = TextPicture(f, Colours16(f.r))
  /\ f.s.by = "ordered" /\ ~f.s.text => f.fb = TextPicture(f, f.c.pal16)

\* What is remembered of orders to draw everything.
Orders(f) ==
  /\ f.c.quiet > 0 => f.c.forceFull
  /\ f.c.palDirty \/ f.c.pal256 = -1 \/ f.c.pal256 = f.r.dac
  /\ f.c.hold > 0 => f.c.mode # 2

\* A redraw of everything is still to come.
Owing(f) ==
  /\ f.c.mode = 2 => f.c.forceFull
  /\ f.c.mode = 1 => f.c.hold > 0 \/ f.s.text

VgaGood(f) ==
  /\ VgaShape(f)
  /\ BandKept(f) /\ PairKept(f) /\ VbeKept(f) /\ TextKept(f)
  /\ Drawn(f) /\ Orders(f)

\* The LCD and the front end.
FrontKept ==
  /\ DOMAIN front = {"ready", "active", "modeChanged", "pending"}
  /\ front.modeChanged \in BOOLEAN
  /\ front.modeChanged => Owing(Frame)
  /\ vc.hold > 0 => front.modeChanged
  /\ ~shown.lost /\ ~front.modeChanged /\ ~(vc.mode = 1 /\ shown.text) => lcd = fb

VgaInv == VgaGood(Frame) /\ FrontKept

\* Widening a band of dirty lines keeps what was in it and takes in the new lines.
LEMMA WidenedSpan ==
  ASSUME NEW d, IsSpan(d), NEW N \in Nat, NEW ys, ys \subseteq 0 .. N
  PROVE  /\ IsSpan(Widened(d, ys))
         /\ \A y \in ys : Widened(d, ys).min <= y /\ y <= Widened(d, ys).max
         /\ Widened(d, ys).min <= d.min /\ d.max <= Widened(d, ys).max
<1>1. CASE ys = {}
  BY <1>1 DEF Widened, IsSpan
<1>2. CASE ys # {}
  <2> DEFINE lo == CHOOSE y \in ys : \A z \in ys : y <= z
             hi == CHOOSE y \in ys : \A z \in ys : z <= y
  <2>1. lo \in ys /\ \A z \in ys : lo <= z
    <3>0. ys \subseteq Nat
      BY SMT
    <3>1. \E y \in ys : \A z \in ys : y <= z
      BY <1>2, <3>0, LeastOf
    <3> QED
      BY <3>1
  <2>2. hi \in ys /\ \A z \in ys : z <= hi
    <3>1. \E y \in ys : \A z \in ys : z <= y
      BY <1>2, GreatestOf
    <3> QED
      BY <3>1
  <2> DEFINE m == IF lo < d.min THEN lo ELSE d.min
             x == IF hi > d.max THEN hi ELSE d.max
  <2>3. Widened(d, ys) = [min |-> m, max |-> x]
    BY <1>2 DEF Widened
  <2> HIDE DEF lo, hi
  <2>4. lo \in Int /\ hi \in Int /\ d.min \in Int /\ d.max \in Int
    BY <2>1, <2>2 DEF IsSpan
  <2>5. /\ m \in Int /\ x \in Int /\ m <= lo /\ hi <= x /\ m <= d.min /\ d.max <= x
    BY <2>4
  <2>6. Widened(d, ys).min = m /\ Widened(d, ys).max = x
    BY <2>3
  <2> HIDE DEF m, x
  <2>7. \A y \in ys : m <= y /\ y <= x
    <3> TAKE y \in ys
    <3>1. y \in Int /\ lo <= y /\ y <= hi
      BY <2>1, <2>2
    <3> QED
      BY <2>4, <2>5, <3>1
  <2> QED
    BY <2>5, <2>6, <2>7 DEF IsSpan
<1> QED
  BY <1>1, <1>2

\* A written word of a line marks the line.
LEMMA LineMarked ==
  ASSUME NEW r, r.start \in Nat, r.line \in Nat \ {0}, NEW y \in Nat, NEW a, NEW n,
         r.start + r.line * y \in Covered(a, n)
  PROVE  y \in Lines(r, a, n, 1)
<1> DEFINE x == r.start + r.line * y
           e == r.line * y
<1>1. e \in Nat /\ x \in Nat /\ x >= r.start /\ x - r.start = e
  BY SMT
<1>2. e \div r.line = y
  <2>1. e \in Int /\ 0 \in 0 .. r.line - 1 /\ e = r.line * y + 0
    BY <1>1
  <2> HIDE DEF e
  <2> QED
    BY <2>1, DivUnique
<1>3. y \div 1 = y
  BY SMT
<1>4. x \in {z \in Covered(a, n) : z >= r.start}
  BY <1>1
<1> HIDE DEF x, e
<1>5. ((x - r.start) \div r.line) \div 1 = y
  BY <1>1, <1>2, <1>3
<1> QED
  BY <1>4, <1>5 DEF Lines

\* A written word of either line of a pair marks the pair.
LEMMA PairMarked ==
  ASSUME NEW r, r.start \in Nat, r.line \in Nat \ {0}, NEW y \in Nat, NEW b \in {0, 1}, NEW a, NEW n,
         r.start + r.line * (2 * y + b) \in Covered(a, n)
  PROVE  y \in Lines(r, a, n, 2)
<1> DEFINE w == 2 * y + b
           e == r.line * w
           x == r.start + e
<1>1. w \in Nat
  OBVIOUS
<1>2. e \in Nat /\ x \in Nat /\ x >= r.start /\ x - r.start = e
  <2> HIDE DEF w
  <2> QED
    BY <1>1, SMT
<1>3. e \div r.line = w
  <2>1. e \in Int /\ 0 \in 0 .. r.line - 1 /\ e = r.line * w + 0 /\ w \in Int
    BY <1>1, <1>2
  <2> HIDE DEF e, w
  <2> QED
    BY <2>1, DivUnique
<1>4. w \div 2 = y
  BY SMT
<1>5. x \in {z \in Covered(a, n) : z >= r.start}
  BY <1>2
<1> HIDE DEF x, e, w
<1>6. ((x - r.start) \div r.line) \div 2 = y
  BY <1>2, <1>3, <1>4
<1> QED
  BY <1>5, <1>6 DEF Lines

\* Addresses of the lines of a picture that ends in memory.
LEMMA LineInRam ==
  ASSUME NEW s \in Nat, NEW l \in Nat, NEW n \in Nat, InRam(s + l * n), NEW y \in 0 .. n
  PROVE  s + l * y \in 0 .. VramWords - 1
<1>1. y * l <= n * l
  BY ProductMonotone
<1>2. l * y <= l * n /\ l * y \in Nat /\ l * n \in Nat /\ VramWords \in Nat
  BY <1>1, VgaAssumption, SMT
<1> QED
  BY <1>2 DEF InRam

\* Memory that a write leaves alone.
LEMMA PokedElsewhere ==
  ASSUME vram \in [0 .. VramWords - 1 -> Words], NEW a, NEW n, NEW w, NEW x \in 0 .. VramWords - 1,
         x \notin Covered(a, n)
  PROVE  Poked(a, n, w)[x] = vram[x]
BY DEF Poked

\* Written memory is memory.
LEMMA PokedType ==
  ASSUME vram \in [0 .. VramWords - 1 -> Words], NEW a, NEW n, NEW w \in Words
  PROVE  Poked(a, n, w) \in [0 .. VramWords - 1 -> Words]
BY DEF Poked

-----------------------------------------------------------------------------
(***************************************************************************)
(* The renderers of graphics.                                              *)
(***************************************************************************)
\* What the renderers are called with, and what they leave.
DrawPre(f, full) ==
  /\ VgaShape(f) /\ VbeKept(f) /\ Orders(f)
  /\ full \in BOOLEAN
  /\ f.c.mode = 2 /\ ~f.c.forceFull /\ GraphicMode(f.r) = 2
  /\ f.s.by = Renderer(f.r)
  /\ ~full /\ ~f.s.band => BandShown(f)
  /\ ~full /\ ~f.s.pair /\ f.c.key640 # <<>> => PairShown(f)

Drew(f, g) ==
  /\ VgaGood(g)
  /\ g.r = f.r /\ g.ram = f.ram /\ g.s.lost = f.s.lost /\ g.c.mode = f.c.mode

SameElsewhere(f, g) == \A y \in LcdLines : y \in g.rows \/ g.fb[y] = f.fb[y]

DrawPost(f, g, full) == Drew(f, g) /\ SameElsewhere(f, g) /\ (full => g.rows = LcdLines)

\* The constants, one by one.
LEMMA VgaTypes ==
  /\ VramWords \in Nat \ {0} /\ LcdRows \in Nat \ {0} /\ BandRows \in Nat \ {0}
  /\ TextCols \in Nat \ {0} /\ TextRows \in Nat \ {0} /\ ForceEvery \in Nat \ {0}
  /\ \A h \in Heights : h \in Int /\ 2 <= h /\ h <= 2 * LcdRows
<1>1. /\ VramWords \in Nat \ {0} /\ LcdRows \in Nat \ {0} /\ BandRows \in Nat \ {0}
      /\ TextCols \in Nat \ {0} /\ TextRows \in Nat \ {0} /\ ForceEvery \in Nat \ {0}
  BY VgaAssumption
<1>2. Heights \subseteq 2 .. 2 * LcdRows
  BY VgaAssumption
<1> QED
  BY <1>1, <1>2, SMT

\* Which renderer draws, and what it found.
LEMMA RendererIs ==
  ASSUME NEW r
  PROVE  /\ Renderer(r) \in {"vbe", "mode13", "planar", "fallback"}
         /\ Renderer(r) = "planar" => r.line > 0 /\ InRam(r.start + r.line * (r.tall - 1))
         /\ Renderer(r) = "vbe" => InRam(r.vstart + r.vline * (2 * LcdRows - 1))
<1> DEFINE p == r.vbe /\ r.geo = "high" /\ InRam(r.vstart + r.vline * (2 * LcdRows - 1))
           q == /\ ~r.vbe /\ r.shift = 2 /\ r.chain /\ r.planes /\ r.geo \in {"low", "high"}
                /\ r.line > 0 /\ InRam(r.start + r.line * (BandRows - 1))
           s == /\ FastPlanar /\ ~r.vbe /\ r.shift = 0 /\ r.geo = "high"
                /\ r.line > 0 /\ InRam(r.start + r.line * (r.tall - 1))
<1>1. Renderer(r) = CASE p -> "vbe" [] q -> "mode13" [] s -> "planar" [] OTHER -> "fallback"
  BY DEF Renderer
<1>2. /\ p => InRam(r.vstart + r.vline * (2 * LcdRows - 1))
      /\ s => r.line > 0 /\ InRam(r.start + r.line * (r.tall - 1))
  OBVIOUS
<1> HIDE DEF p, q, s
<1> QED
  BY <1>1, <1>2

\* No line is dirty.
LEMMA CleanSpan == IsSpan(Clean) /\ Clean.min = LcdRows /\ Clean.max = -1
BY VgaAssumption DEF Clean, IsSpan

\* Where the picture of n lines begins.
LEMMA TopType ==
  ASSUME NEW n \in Int
  PROVE  Top(n) \in Int
BY VgaAssumption DEF Top

\* vga_mode13_draw.
LEMMA BandDraws ==
  ASSUME NEW f, NEW full, DrawPre(f, full), Renderer(f.r) = "mode13"
  PROVE  DrawPost(f, Mode13Draw(f, full), full)
<1> DEFINE g == Mode13Draw(f, full)
           fresh == f.c.palDirty \/ f.c.pal256 = -1
           pal == IF fresh THEN f.r.dac ELSE f.c.pal256
           force == full \/ f.c.palDirty \/ f.c.pal256 = -1
           ys == IF force THEN 0 .. BandRows - 1 ELSE f.c.d13.min .. f.c.d13.max
           row(y) == BandRow(f.r, f.ram, pal, y)
           band == Centred(BandRows, row)
           new == [y \in LcdLines |-> IF force \/ y - Top(BandRows) \in ys THEN band[y] ELSE f.fb[y]]
           rows == IF force THEN LcdLines ELSE {y + Top(BandRows) : y \in ys}
           marked == f.s.band /\ ~force
<1>0. /\ DOMAIN f = {"r", "c", "ram", "fb", "rows", "s"}
      /\ DOMAIN f.r = RegFields /\ DOMAIN f.c = CacheFields /\ DOMAIN f.s = ShownFields
  BY DEF DrawPre, VgaShape, IsFrame
<1>1. g = [f EXCEPT !.c.pal256 = pal, !.c.palDirty = FALSE, !.c.d13 = Clean, !.c.key640 = <<>>,
                    !.fb = new, !.rows = rows, !.s.band = marked]
  BY DEF Mode13Draw, g
<1> HIDE DEF g, pal, force, ys, new, rows, band, marked
<1>2. /\ IsFrame(g) /\ g.r = f.r /\ g.ram = f.ram /\ g.fb = new /\ g.rows = rows
      /\ g.c.pal256 = pal /\ ~g.c.palDirty /\ g.c.palDirty \in BOOLEAN
      /\ g.c.d13 = Clean /\ g.c.key640 = <<>>
  BY <1>0, <1>1 DEF IsFrame, CacheFields, ShownFields
<1>3. /\ g.c.mode = f.c.mode /\ g.c.forceFull = f.c.forceFull /\ g.c.quiet = f.c.quiet
      /\ g.c.hold = f.c.hold /\ g.c.presents = f.c.presents /\ g.c.d640 = f.c.d640
      /\ g.c.ch = f.c.ch /\ g.c.cur = f.c.cur /\ g.c.layout = f.c.layout
  BY <1>0, <1>1 DEF CacheFields
<1>4. /\ g.s.band = marked /\ g.s.by = f.s.by /\ g.s.pair = f.s.pair /\ g.s.text = f.s.text
      /\ g.s.age = f.s.age /\ g.s.lost = f.s.lost
  BY <1>0, <1>1 DEF ShownFields
<1>5. /\ f.r.dac \in Nat /\ pal = f.r.dac /\ f.c.mode = 2 /\ ~f.c.forceFull
      /\ force \in BOOLEAN /\ marked \in BOOLEAN
      /\ f.s.by = "mode13" /\ f.s.age = 0 /\ f.s.age \in Nat
  BY DEF DrawPre, VgaShape, RegsOk, CachesOk, ShownOk, Orders, VbeKept, pal, force, marked
<1>6. f.r.line > 0 /\ InRam(f.r.start + f.r.line * (BandRows - 1))
  BY DEF Renderer
<1>7. /\ \A y \in LcdLines : band[y] = IF y - Top(BandRows) \in 0 .. BandRows - 1
                                     THEN row(y - Top(BandRows)) ELSE Blank
      /\ \A y \in LcdLines : new[y] = IF force \/ y - Top(BandRows) \in ys THEN band[y] ELSE f.fb[y]
  BY DEF band, Centred, new
<1>8. ASSUME ~marked, NEW y \in LcdLines
      PROVE  new[y] = IF y - Top(BandRows) \in 0 .. BandRows - 1
                      THEN row(y - Top(BandRows)) ELSE Blank
  <2>1. CASE force
    BY <1>7, <2>1
  <2>2. CASE ~force
    <3>1. BandShown(f) /\ pal = f.c.pal256 /\ ys = f.c.d13.min .. f.c.d13.max
      BY <1>8, <2>2 DEF DrawPre, marked, force, pal, ys
    <3>2. \/ y - Top(BandRows) \in ys
          \/ f.fb[y] = IF y - Top(BandRows) \in 0 .. BandRows - 1
                       THEN row(y - Top(BandRows)) ELSE Blank
      BY <3>1 DEF BandShown
    <3> QED
      BY <1>7, <3>2
  <2> QED
    BY <2>1, <2>2
<1>9. IsPicture(g.fb)
  BY <1>2 DEF IsPicture, new
<1>10. VgaShape(g)
  <2>1. RegsOk(g.r) /\ ShownOk(g.s)
    BY <1>2, <1>4, <1>5 DEF DrawPre, VgaShape, ShownOk
  <2>2. CachesOk(g.c)
    BY <1>2, <1>3, <1>5, CleanSpan DEF DrawPre, VgaShape, CachesOk
  <2> QED
    BY <1>2, <1>9, <2>1, <2>2 DEF DrawPre, VgaShape
<1>11. BandKept(g)
  BY <1>2, <1>4, <1>5, <1>6, <1>8 DEF BandKept, BandShown
<1>12. PairKept(g) /\ VbeKept(g) /\ TextKept(g) /\ Orders(g)
  BY <1>2, <1>3, <1>4, <1>5 DEF PairKept, VbeKept, TextKept, Orders, DrawPre
<1>13. ASSUME ~marked PROVE new = BandPicture(g)
  BY <1>2, <1>5, <1>8, <1>13 DEF BandPicture, Centred, new
<1>14. Drawn(g)
  BY <1>2, <1>3, <1>4, <1>5, <1>13 DEF Drawn
<1>15. \A y \in LcdLines : y \in rows \/ new[y] = f.fb[y]
  <2> TAKE y \in LcdLines
  <2>1. CASE force
    BY <2>1 DEF rows
  <2>2. CASE ~force /\ y - Top(BandRows) \in ys
    <3>1. y \in Int /\ Top(BandRows) \in Int
      BY VgaAssumption, TopType DEF LcdLines
    <3>2. y = (y - Top(BandRows)) + Top(BandRows)
      BY <3>1
    <3> QED
      BY <2>2, <3>2 DEF rows
  <2>3. CASE ~force /\ y - Top(BandRows) \notin ys
    BY <1>7, <2>3
  <2> QED
    BY <2>1, <2>2, <2>3
<1>16. full => rows = LcdLines
  BY DEF rows, force
<1>17. VgaGood(g)
  BY <1>10, <1>11, <1>12, <1>14 DEF VgaGood
<1>18. DrawPost(f, g, full)
  BY <1>2, <1>3, <1>4, <1>15, <1>16, <1>17 DEF DrawPost, Drew, SameElsewhere
<1> QED
  BY <1>18 DEF g

\* The row of a pair under its key.
LEMMA KeyOfRow ==
  ASSUME NEW r, NEW ram, NEW colours, NEW y
  PROVE  KeyRow(ram, <<r.start, r.line, r.tall>>, colours, y) = PairRow(r, ram, colours, y)
BY DEF KeyRow, PairRow

\* vga_planar16_draw.
LEMMA PairsDraw ==
  ASSUME NEW f, NEW full, DrawPre(f, full), Renderer(f.r) = "planar"
  PROVE  DrawPost(f, PlanarDraw(f, full), full)
<1> DEFINE g == PlanarDraw(f, full)
           colours == Colours16(f.r)
           out == f.r.tall \div 2
           key == <<f.r.start, f.r.line, f.r.tall>>
           force == full \/ f.c.pal16 # colours \/ f.c.key640 # key
           ys == IF force THEN 0 .. out - 1
                 ELSE {y \in f.c.rows640 : y >= f.c.d640.min /\ y <= f.c.d640.max /\ y < out}
           row(y) == PairRow(f.r, f.ram, colours, y)
           picture == Centred(out, row)
           left == f.c.rows640 \ ys
           new == [y \in LcdLines |-> IF force \/ y - Top(out) \in ys THEN picture[y] ELSE f.fb[y]]
           rows == IF force THEN LcdLines
                   ELSE {y \in LcdLines : \E a, b \in ys : a + Top(out) <= y /\ y <= b + Top(out)}
           marked == f.s.pair /\ ~force
<1>0. /\ DOMAIN f = {"r", "c", "ram", "fb", "rows", "s"}
      /\ DOMAIN f.r = RegFields /\ DOMAIN f.c = CacheFields /\ DOMAIN f.s = ShownFields
  BY DEF DrawPre, VgaShape, IsFrame
<1>1. g = [f EXCEPT !.c.pal16 = colours, !.c.sums = colours, !.c.key640 = key,
                    !.c.rows640 = @ \ ys, !.c.d640 = Clean, !.fb = new, !.rows = rows,
                    !.s.band = TRUE, !.s.pair = @ /\ ~force]
  BY DEF PlanarDraw, g
<1> HIDE DEF g, colours, key, force, ys, new, rows, picture, out
<1>2. g = [f EXCEPT !.c.pal16 = colours, !.c.sums = colours, !.c.key640 = key,
                    !.c.rows640 = left, !.c.d640 = Clean, !.fb = new, !.rows = rows,
                    !.s.band = TRUE, !.s.pair = marked]
  BY <1>0, <1>1 DEF CacheFields, ShownFields
<1> HIDE DEF left, marked
<1>2a. /\ g.c = [f.c EXCEPT !.pal16 = colours, !.sums = colours, !.key640 = key,
                            !.rows640 = left, !.d640 = Clean]
       /\ g.s = [f.s EXCEPT !.band = TRUE, !.pair = marked]
       /\ g.r = f.r /\ g.ram = f.ram /\ g.fb = new /\ g.rows = rows
       /\ DOMAIN g = {"r", "c", "ram", "fb", "rows", "s"}
  BY <1>0, <1>2
<1>3. /\ IsFrame(g) /\ g.r = f.r /\ g.ram = f.ram /\ g.fb = new /\ g.rows = rows
      /\ g.c.pal16 = colours /\ g.c.key640 = key /\ g.c.d640 = Clean
  BY <1>0, <1>2a DEF IsFrame, CacheFields, ShownFields
<1>4. /\ g.c.mode = f.c.mode /\ g.c.forceFull = f.c.forceFull /\ g.c.quiet = f.c.quiet
      /\ g.c.hold = f.c.hold /\ g.c.presents = f.c.presents /\ g.c.d13 = f.c.d13
      /\ g.c.palDirty = f.c.palDirty /\ g.c.pal256 = f.c.pal256
      /\ g.c.ch = f.c.ch /\ g.c.cur = f.c.cur /\ g.c.layout = f.c.layout
  BY <1>0, <1>2a DEF CacheFields
<1>5. /\ g.s.band = TRUE /\ g.s.pair = marked /\ g.s.by = f.s.by /\ g.s.text = f.s.text
      /\ g.s.age = f.s.age /\ g.s.lost = f.s.lost
  BY <1>0, <1>2a DEF ShownFields
<1>6. /\ f.c.mode = 2 /\ ~f.c.forceFull /\ f.r.tall \in Heights
      /\ force \in BOOLEAN /\ marked \in BOOLEAN
      /\ f.s.by = "planar" /\ f.s.age = 0 /\ f.s.age \in Nat
  <2>1. force \in BOOLEAN /\ marked \in BOOLEAN
    BY DEF force, marked
  <2> QED
    BY <2>1 DEF DrawPre, VgaShape, RegsOk, CachesOk, ShownOk, VbeKept
<1>7. /\ f.r.line > 0 /\ InRam(f.r.start + f.r.line * (f.r.tall - 1))
      /\ f.r.start \in Nat /\ f.r.line \in Nat
  BY RendererIs DEF DrawPre, VgaShape, RegsOk
<1>8. out \in Int /\ Top(out) \in Int
  <2>1. f.r.tall \in Int
    BY <1>6, VgaTypes
  <2>2. out \in Int
    BY <2>1 DEF out
  <2> QED
    BY <2>2, TopType
<1>9. key # <<>> /\ key \in Nat \X Nat \X Heights /\ key[1] = f.r.start /\ key[2] = f.r.line /\ key[3] = f.r.tall
  BY <1>6, <1>7 DEF key
<1>10. /\ \A y \in LcdLines : picture[y] = IF y - Top(out) \in 0 .. out - 1
                                           THEN row(y - Top(out)) ELSE Blank
       /\ \A y \in LcdLines : new[y] = IF force \/ y - Top(out) \in ys THEN picture[y] ELSE f.fb[y]
  BY DEF picture, Centred, new
<1>11. ASSUME ~marked, NEW y \in LcdLines
       PROVE  new[y] = IF y - Top(out) \in 0 .. out - 1 THEN row(y - Top(out)) ELSE Blank
  <2>1. CASE force
    BY <1>10, <2>1
  <2>2. CASE ~force
    <3>1. /\ PairShown(f) /\ f.c.key640 = key /\ f.c.pal16 = colours
          /\ ys = {z \in f.c.rows640 : z >= f.c.d640.min /\ z <= f.c.d640.max /\ z < out}
      BY <1>9, <1>11, <2>2 DEF DrawPre, marked, force, ys
    <3>2. IF y - Top(out) \in 0 .. out - 1
          THEN DirtyPair(f.c, y - Top(out)) \/ f.fb[y] = KeyRow(f.ram, key, colours, y - Top(out))
          ELSE f.fb[y] = Blank
      BY <1>9, <3>1 DEF PairShown, out
    <3>3. KeyRow(f.ram, key, colours, y - Top(out)) = row(y - Top(out))
      BY KeyOfRow DEF key
    <3>4. y \in Int
      BY VgaAssumption DEF LcdLines
    <3>5. y - Top(out) \in 0 .. out - 1 /\ DirtyPair(f.c, y - Top(out)) => y - Top(out) \in ys
      BY <1>8, <3>1, <3>4 DEF DirtyPair
    <3>6. y - Top(out) \notin 0 .. out - 1 => new[y] = Blank
      BY <1>10, <3>2, <2>2
    <3> HIDE DEF row
    <3>7. y - Top(out) \in 0 .. out - 1 => new[y] = row(y - Top(out))
      BY <1>10, <3>2, <3>3, <3>5, <2>2
    <3> QED
      BY <3>6, <3>7
  <2> QED
    BY <2>1, <2>2
<1>12. IsPicture(g.fb)
  BY <1>3 DEF IsPicture, new
<1>13. VgaShape(g)
  <2>1. RegsOk(g.r) /\ ShownOk(g.s)
    BY <1>3, <1>5, <1>6 DEF DrawPre, VgaShape, ShownOk
  <2>2. CachesOk(g.c)
    BY <1>3, <1>4, <1>6, <1>9, CleanSpan DEF DrawPre, VgaShape, CachesOk
  <2> QED
    BY <1>3, <1>12, <2>1, <2>2 DEF DrawPre, VgaShape
<1>14. PairKept(g)
  <2> SUFFICES ASSUME ~marked PROVE PairShown(g)
    BY <1>5 DEF PairKept
  <2>1. \A y \in LcdLines :
          IF y - Top(out) \in 0 .. out - 1
          THEN DirtyPair(g.c, y - Top(out)) \/ g.fb[y] = KeyRow(g.ram, key, colours, y - Top(out))
          ELSE g.fb[y] = Blank
    <3> TAKE y \in LcdLines
    <3>1. KeyRow(f.ram, key, colours, y - Top(out)) = row(y - Top(out))
      BY KeyOfRow DEF key
    <3> HIDE DEF row
    <3> QED
      BY <1>3, <1>11, <3>1
  <2>2. key[3] \div 2 = out /\ key[2] > 0 /\ InRam(key[1] + key[2] * (key[3] - 1))
    BY <1>7, <1>9 DEF out
  <2> QED
    BY <1>3, <2>1, <2>2 DEF PairShown
<1>15. BandKept(g) /\ VbeKept(g) /\ TextKept(g) /\ Orders(g)
  BY <1>3, <1>4, <1>5, <1>6 DEF BandKept, VbeKept, TextKept, Orders, DrawPre
<1>16. ASSUME ~marked PROVE new = PairPicture(g)
  BY <1>3, <1>11, <1>16 DEF PairPicture, Centred, new, colours, out
<1>17. Drawn(g)
  BY <1>3, <1>4, <1>5, <1>6, <1>16 DEF Drawn
<1>18. \A y \in LcdLines : y \in rows \/ new[y] = f.fb[y]
  <2> TAKE y \in LcdLines
  <2>1. CASE force
    BY <2>1 DEF rows
  <2>2. CASE ~force /\ y - Top(out) \in ys
    <3>1. y \in Int /\ Top(out) \in Int
      BY <1>8, VgaAssumption DEF LcdLines
    <3> DEFINE a == y - Top(out)
    <3>2. a + Top(out) <= y /\ y <= a + Top(out)
      BY <3>1
    <3> HIDE DEF a
    <3>3. a \in ys
      BY <2>2 DEF a
    <3> QED
      BY <2>2, <3>2, <3>3 DEF rows
  <2>3. CASE ~force /\ y - Top(out) \notin ys
    BY <1>10, <2>3
  <2> QED
    BY <2>1, <2>2, <2>3
<1>19. full => rows = LcdLines
  BY DEF rows, force
<1>20. VgaGood(g)
  BY <1>13, <1>14, <1>15, <1>17 DEF VgaGood
<1>21. DrawPost(f, g, full)
  BY <1>3, <1>4, <1>5, <1>18, <1>19, <1>20 DEF DrawPost, Drew, SameElsewhere
<1> QED
  BY <1>21 DEF g

\* vga_vbe_scale2.
LEMMA VbeDraws ==
  ASSUME NEW f, NEW full, DrawPre(f, full), Renderer(f.r) = "vbe"
  PROVE  DrawPost(f, VbeDraw(f, full), full)
<1> DEFINE g == VbeDraw(f, full)
           key == <<f.r.vstart, f.r.vline, f.r.bpp8>>
           presents == (f.c.presents + 1) % ForceEvery
           prints == [y \in LcdLines |-> Fingerprint(f.r, f.ram, y)]
           force == full \/ f.c.keyVbe # key \/ presents = 0
           ys == IF force THEN LcdLines ELSE {y \in LcdLines : f.c.prints[y] # prints[y]}
           new == [y \in LcdLines |-> IF y \in ys THEN VbeRow(f.r, f.ram, y) ELSE f.fb[y]]
           rows == {y \in LcdLines : \E a, b \in ys : a <= y /\ y <= b}
           age == IF f.s.age < ForceEvery THEN f.s.age + 1 ELSE f.s.age
<1>0. /\ DOMAIN f = {"r", "c", "ram", "fb", "rows", "s"}
      /\ DOMAIN f.r = RegFields /\ DOMAIN f.c = CacheFields /\ DOMAIN f.s = ShownFields
  BY DEF DrawPre, VgaShape, IsFrame
<1>1. g = [f EXCEPT !.c.prints = prints, !.c.keyVbe = key, !.c.presents = presents,
                    !.c.key640 = <<>>, !.fb = new, !.rows = rows, !.s.band = TRUE,
                    !.s.age = IF @ < ForceEvery THEN @ + 1 ELSE @]
  BY DEF VbeDraw, g
<1> HIDE DEF g, key, presents, prints, force, ys, new, rows
<1>2. /\ g.c = [f.c EXCEPT !.prints = prints, !.keyVbe = key, !.presents = presents,
                           !.key640 = <<>>]
      /\ g.s = [f.s EXCEPT !.band = TRUE, !.age = age]
      /\ g.r = f.r /\ g.ram = f.ram /\ g.fb = new /\ g.rows = rows
      /\ DOMAIN g = {"r", "c", "ram", "fb", "rows", "s"}
  BY <1>0, <1>1 DEF ShownFields
<1> HIDE DEF age
<1>3. IsFrame(g) /\ g.c.presents = presents /\ g.c.key640 = <<>>
  BY <1>0, <1>2 DEF IsFrame, CacheFields, ShownFields
<1>4. /\ g.c.mode = f.c.mode /\ g.c.forceFull = f.c.forceFull /\ g.c.quiet = f.c.quiet
      /\ g.c.hold = f.c.hold /\ g.c.d13 = f.c.d13 /\ g.c.d640 = f.c.d640
      /\ g.c.palDirty = f.c.palDirty /\ g.c.pal256 = f.c.pal256
      /\ g.c.ch = f.c.ch /\ g.c.cur = f.c.cur /\ g.c.layout = f.c.layout
  BY <1>0, <1>2 DEF CacheFields
<1>5. /\ g.s.band = TRUE /\ g.s.age = age /\ g.s.by = f.s.by /\ g.s.text = f.s.text
      /\ g.s.pair = f.s.pair /\ g.s.lost = f.s.lost
  BY <1>0, <1>2 DEF ShownFields
<1>6. /\ f.c.mode = 2 /\ ~f.c.forceFull /\ f.s.by = "vbe" /\ GraphicMode(f.r) = 2
      /\ f.s.age \in Nat /\ f.c.presents \in 0 .. ForceEvery - 1 /\ ForceEvery \in Nat \ {0}
  BY VgaTypes DEF DrawPre, VgaShape, CachesOk, ShownOk
<1>7. age \in Nat /\ age > 0 /\ age <= f.s.age + 1
  BY <1>6 DEF age
<1>8. presents \in 0 .. ForceEvery - 1 /\ (presents # 0 => presents = f.c.presents + 1)
  <2>1. CASE f.c.presents + 1 < ForceEvery
    <3>1. (f.c.presents + 1) % ForceEvery = f.c.presents + 1
      BY <1>6, <2>1
    <3> QED
      BY <1>6, <2>1, <3>1 DEF presents
  <2>2. CASE f.c.presents + 1 = ForceEvery
    <3>1. ForceEvery % ForceEvery = 0
      <4>1. 0 \in 0 .. ForceEvery - 1 /\ ForceEvery \in Int /\ 1 \in Int /\ ForceEvery = ForceEvery * 1 + 0
        BY <1>6
      <4> QED
        BY <1>6, <4>1, DivUnique
    <3> QED
      BY <1>6, <2>2, <3>1 DEF presents
  <2> QED
    BY <1>6, <2>1, <2>2
<1>9. \A y \in LcdLines : new[y] = IF y \in ys THEN VbeRow(f.r, f.ram, y) ELSE f.fb[y]
  BY DEF new
<1>10. new = VbePicture(g) \/ presents >= age
  <2>1. CASE force
    <3>1. ys = LcdLines
      BY <2>1 DEF ys
    <3> QED
      BY <1>2, <3>1 DEF VbePicture, new
  <2>2. CASE ~force /\ f.s.age > 0 /\ f.fb = VbePicture(f)
    <3>1. \A y \in LcdLines : f.fb[y] = VbeRow(f.r, f.ram, y)
      BY <2>2 DEF VbePicture
    <3> QED
      BY <1>2, <3>1 DEF VbePicture, new
  <2>3. CASE ~force /\ (f.s.age = 0 \/ f.c.presents >= f.s.age)
    <3>1. presents # 0
      BY <2>3 DEF force
    <3> QED
      BY <1>6, <1>7, <1>8, <2>3, <3>1
  <2>4. f.s.age = 0 \/ f.fb = VbePicture(f) \/ f.c.presents >= f.s.age
    BY <1>6 DEF DrawPre, VbeKept
  <2> QED
    BY <1>6, <2>1, <2>2, <2>3, <2>4
<1>11. IsPicture(g.fb)
  BY <1>2 DEF IsPicture, new
<1>12. VgaShape(g)
  <2>1. RegsOk(g.r) /\ ShownOk(g.s)
    BY <1>2, <1>5, <1>7 DEF DrawPre, VgaShape, ShownOk
  <2>2. CachesOk(g.c)
    BY <1>3, <1>4, <1>8 DEF DrawPre, VgaShape, CachesOk
  <2> QED
    BY <1>2, <1>3, <1>11, <2>1, <2>2 DEF DrawPre, VgaShape
<1>13. VbeKept(g)
  BY <1>2, <1>3, <1>4, <1>5, <1>6, <1>10 DEF VbeKept
<1>14. BandKept(g) /\ PairKept(g) /\ TextKept(g) /\ Orders(g)
  BY <1>2, <1>3, <1>4, <1>5, <1>6 DEF BandKept, PairKept, TextKept, Orders, DrawPre
<1>15. Drawn(g)
  BY <1>4, <1>5, <1>6, <1>7 DEF Drawn
<1>16. \A y \in LcdLines : y \in rows \/ new[y] = f.fb[y]
  <2> TAKE y \in LcdLines
  <2>1. y <= y
    BY VgaTypes DEF LcdLines
  <2> QED
    BY <1>9, <2>1 DEF rows
<1>17. full => rows = LcdLines
  <2> SUFFICES ASSUME full PROVE \A y \in LcdLines : y \in rows
    BY DEF rows
  <2>1. ys = LcdLines
    BY DEF ys, force
  <2> TAKE y \in LcdLines
  <2>2. y <= y
    BY VgaTypes DEF LcdLines
  <2> QED
    BY <2>1, <2>2 DEF rows
<1>18. VgaGood(g)
  BY <1>12, <1>13, <1>14, <1>15 DEF VgaGood
<1>19. DrawPost(f, g, full)
  BY <1>2, <1>4, <1>5, <1>16, <1>17, <1>18 DEF DrawPost, Drew, SameElsewhere
<1> QED
  BY <1>19 DEF g

\* The pixel by pixel renderer.
LEMMA FallbackDraws ==
  ASSUME NEW f, NEW full, DrawPre(f, full), Renderer(f.r) = "fallback"
  PROVE  DrawPost(f, FallbackDraw(f), full)
<1> DEFINE g == FallbackDraw(f)
           new == [y \in LcdLines |-> <<"fallback">>]
<1>0. /\ DOMAIN f = {"r", "c", "ram", "fb", "rows", "s"}
      /\ DOMAIN f.r = RegFields /\ DOMAIN f.c = CacheFields /\ DOMAIN f.s = ShownFields
  BY DEF DrawPre, VgaShape, IsFrame
<1>1. g = [f EXCEPT !.c.key640 = <<>>, !.fb = new, !.rows = LcdLines, !.s.band = TRUE]
  BY DEF FallbackDraw, g
<1> HIDE DEF g, new
<1>2. /\ g.c = [f.c EXCEPT !.key640 = <<>>]
      /\ g.s = [f.s EXCEPT !.band = TRUE]
      /\ g.r = f.r /\ g.ram = f.ram /\ g.fb = new /\ g.rows = LcdLines
      /\ DOMAIN g = {"r", "c", "ram", "fb", "rows", "s"}
  BY <1>0, <1>1 DEF CacheFields
<1>3. IsFrame(g) /\ g.c.presents = f.c.presents /\ g.c.key640 = <<>>
  BY <1>0, <1>2 DEF IsFrame, CacheFields, ShownFields
<1>4. /\ g.c.mode = f.c.mode /\ g.c.forceFull = f.c.forceFull /\ g.c.quiet = f.c.quiet
      /\ g.c.hold = f.c.hold /\ g.c.d13 = f.c.d13 /\ g.c.d640 = f.c.d640
      /\ g.c.palDirty = f.c.palDirty /\ g.c.pal256 = f.c.pal256
      /\ g.c.ch = f.c.ch /\ g.c.cur = f.c.cur /\ g.c.layout = f.c.layout
  BY <1>0, <1>2 DEF CacheFields
<1>5. /\ g.s.band = TRUE /\ g.s.age = f.s.age /\ g.s.by = f.s.by /\ g.s.text = f.s.text
      /\ g.s.pair = f.s.pair /\ g.s.lost = f.s.lost
  BY <1>0, <1>2 DEF ShownFields
<1>6. /\ f.c.mode = 2 /\ ~f.c.forceFull /\ f.s.by = "fallback" /\ f.s.age = 0
  BY DEF DrawPre, VgaShape, ShownOk, VbeKept
<1>7. IsPicture(g.fb)
  BY <1>2 DEF IsPicture, new
<1>8. VgaShape(g)
  <2>1. RegsOk(g.r) /\ ShownOk(g.s)
    BY <1>2, <1>5 DEF DrawPre, VgaShape, ShownOk
  <2>2. CachesOk(g.c)
    BY <1>3, <1>4 DEF DrawPre, VgaShape, CachesOk
  <2> QED
    BY <1>2, <1>3, <1>7, <2>1, <2>2 DEF DrawPre, VgaShape
<1>9. BandKept(g) /\ PairKept(g) /\ VbeKept(g) /\ TextKept(g) /\ Orders(g) /\ Drawn(g)
  BY <1>2, <1>3, <1>4, <1>5, <1>6 DEF BandKept, PairKept, VbeKept, TextKept, Orders, Drawn, DrawPre
<1>10. VgaGood(g)
  BY <1>8, <1>9 DEF VgaGood
<1>11. DrawPost(f, g, full)
  BY <1>2, <1>4, <1>5, <1>10 DEF DrawPost, Drew, SameElsewhere
<1> QED
  BY <1>11 DEF g

\* vga_graphic_refresh, called with the state before it and full as DrawPre has them.
LEMMA GraphicDraws ==
  ASSUME NEW f, NEW full, DrawPre([f EXCEPT !.s.by = Renderer(f.r)], full), IsFrame(f)
  PROVE  /\ DrawPost(f, GraphicRefresh(f, full), full)
<1> DEFINE by == Renderer(f.r)
           gpal == GraphicPalette(f.r, f.c.gpal)
           e == [f EXCEPT !.s.by = by]
           h == [f EXCEPT !.s.by = by, !.c.gpal = gpal]
           order == full \/ f.c.gpal # gpal
<1>1. by \in {"vbe", "mode13", "planar", "fallback"}
  BY RendererIs
<1>2. /\ by = "vbe" => GraphicRefresh(f, full) = VbeDraw(h, order)
      /\ by = "mode13" => GraphicRefresh(f, full) = Mode13Draw(h, full)
      /\ by = "planar" => GraphicRefresh(f, full) = PlanarDraw(h, full)
      /\ by = "fallback" => GraphicRefresh(f, full) = FallbackDraw(h)
  <2> HIDE DEF h, order, gpal
  <2> QED
    BY DEF GraphicRefresh, by, h, order, gpal
<1> HIDE DEF gpal
<1>3. /\ e.r = f.r /\ e.ram = f.ram /\ e.fb = f.fb /\ e.c = f.c /\ e.rows = f.rows
      /\ e.s = [f.s EXCEPT !.by = by]
  BY DEF IsFrame, ShownFields
<1>4. /\ h.r = f.r /\ h.ram = f.ram /\ h.fb = f.fb /\ h.c = [f.c EXCEPT !.gpal = gpal]
      /\ h.s = e.s /\ h.rows = f.rows /\ DOMAIN h = {"r", "c", "ram", "fb", "rows", "s"}
  BY <1>3 DEF IsFrame, ShownFields
<1>5. DrawPre(e, full)
  OBVIOUS
<1> HIDE DEF h, e, by
<1>6. /\ DOMAIN h.c = CacheFields /\ DOMAIN f.c = CacheFields
      /\ h.c.mode = f.c.mode /\ h.c.forceFull = f.c.forceFull /\ h.c.quiet = f.c.quiet
      /\ h.c.hold = f.c.hold /\ h.c.d13 = f.c.d13 /\ h.c.d640 = f.c.d640
      /\ h.c.palDirty = f.c.palDirty /\ h.c.pal256 = f.c.pal256 /\ h.c.pal16 = f.c.pal16
  BY <1>4 DEF IsFrame, CacheFields
<1>7. /\ h.c.ch = f.c.ch /\ h.c.cur = f.c.cur /\ h.c.layout = f.c.layout
      /\ h.c.presents = f.c.presents /\ h.c.key640 = f.c.key640 /\ h.c.rows640 = f.c.rows640
  BY <1>4, <1>6 DEF CacheFields
<1>8. VgaShape(h)
  <2>1. VgaShape(e)
    BY <1>5 DEF DrawPre
  <2>2. CachesOk(h.c)
    <3>1. CachesOk(f.c)
      BY <1>3, <2>1 DEF VgaShape
    <3> QED
      BY <1>6, <1>7, <3>1, ZenonT(40) DEF CachesOk
  <2>3. IsFrame(h)
    BY <1>3, <1>4, <1>6, <2>1 DEF VgaShape, IsFrame
  <2> QED
    BY <1>3, <1>4, <2>1, <2>2, <2>3 DEF VgaShape
<1>9. /\ VbeKept(h) /\ Orders(h)
  <2>1. VbeKept(e) /\ Orders(e)
    BY <1>5 DEF DrawPre
  <2>2. VbePicture(h) = VbePicture(e)
    BY <1>3, <1>4 DEF VbePicture
  <2> QED
    BY <1>3, <1>4, <1>6, <1>7, <2>1, <2>2 DEF VbeKept, Orders
<1>10. (BandShown(e) => BandShown(h)) /\ (PairShown(e) => PairShown(h))
  BY <1>3, <1>4, <1>6, <1>7 DEF BandShown, PairShown, DirtyPair
<1>11. ASSUME NEW how \in BOOLEAN, full => how
       PROVE  DrawPre(h, how)
  BY <1>3, <1>4, <1>5, <1>6, <1>7, <1>8, <1>9, <1>10, <1>11 DEF DrawPre
<1>12. full \in BOOLEAN /\ order \in BOOLEAN /\ (full => order) /\ Renderer(h.r) = by
  BY <1>4, <1>5 DEF DrawPre, by
<1> HIDE DEF order
<1>13. DrawPre(h, full) /\ DrawPre(h, order)
  BY <1>11, <1>12
<1>14. DrawPost(h, GraphicRefresh(f, full), full)
  <2>1. CASE by = "vbe"
    <3>1. DrawPost(h, GraphicRefresh(f, full), order)
      BY <1>2, <1>12, <1>13, <2>1, VbeDraws
    <3> QED
      BY <1>12, <3>1 DEF DrawPost
  <2>2. CASE by # "vbe"
    BY <1>1, <1>2, <1>12, <1>13, <2>2, BandDraws, PairsDraw, FallbackDraws
  <2> QED
    BY <2>1, <2>2
<1>15. h.s.lost = f.s.lost
  BY <1>3, <1>4 DEF IsFrame, ShownFields
<1> QED
  BY <1>4, <1>6, <1>14, <1>15 DEF DrawPost, Drew, SameElsewhere

-----------------------------------------------------------------------------
(***************************************************************************)
(* The renderer of text.                                                   *)
(***************************************************************************)
\* Nothing is drawn around the text.
MarginBlank(f) ==
  \A y \in LcdLines : y - Top(TextRows) \notin 0 .. TextRows - 1 => f.fb[y] = Blank

TextPre(f, full) ==
  /\ VgaShape(f) /\ VbeKept(f) /\ Orders(f)
  /\ full \in BOOLEAN
  /\ f.c.mode = 1 /\ f.c.hold = 0
  /\ f.s.by = "none"
  /\ ~full /\ ~f.s.text => TextShown(f)
  /\ ~f.s.text => MarginBlank(f)

TextPost(f, g, full) ==
  /\ Drew(f, g) /\ g.c.hold = 0
  /\ g.s.text \/ SameElsewhere(f, g)
  /\ g.rows = LcdLines \/ (full \/ f.s.text => g.s.text)

\* The cell at a place of the screen.
LEMMA CellPlace ==
  ASSUME NEW y \in 0 .. TextRows - 1, NEW x \in 0 .. TextCols - 1
  PROVE  /\ y * TextCols + x \in Cells
         /\ (y * TextCols + x) \div TextCols = y
         /\ (y * TextCols + x) % TextCols = x
<1> DEFINE i == y * TextCols + x
<1>1. i \in Int /\ y \in Int /\ y \in Nat /\ TextCols \in Nat \ {0} /\ TextRows \in Nat \ {0} /\ i = TextCols * y + x
  BY VgaTypes, SMT
<1>2. i \div TextCols = y /\ i % TextCols = x
  <2> HIDE DEF i
  <2> QED
    BY <1>1, DivUnique
<1>3. y * TextCols \in Nat /\ y * TextCols <= (TextRows - 1) * TextCols
  <2>1. TextRows - 1 \in Int /\ y <= TextRows - 1 /\ TextCols \in Nat
    BY <1>1
  <2>2. y * TextCols <= (TextRows - 1) * TextCols
    BY <1>1, <2>1, ProductMonotone
  <2>3. y * TextCols \in Nat
    BY <1>1, SMT
  <2> QED
    BY <2>2, <2>3
<1>4. (TextRows - 1) * TextCols = TextCols * TextRows - TextCols /\ TextCols * TextRows \in Int
  BY <1>1, SMT
<1>5. i >= 0 /\ i <= TextCols * TextRows - 1
  BY <1>1, <1>3, <1>4
<1> QED
  BY <1>1, <1>2, <1>4, <1>5 DEF Cells

\* The word of a cell.
LEMMA CellWord ==
  ASSUME NEW r, RegsOk(r), NEW ram \in [0 .. VramWords - 1 -> Words], NEW i \in Cells
  PROVE  /\ i \div TextCols \in Nat /\ i % TextCols \in Nat
         /\ CellAddr(r, i) \in Nat
         /\ ram[CellAddr(r, i) % VramWords] \in Nat
<1>1. TextCols \in Nat \ {0} /\ VramWords \in Nat \ {0} /\ TextRows \in Nat \ {0}
  BY VgaTypes
<1>2. i \in Nat
  BY <1>1 DEF Cells
<1>3. i \div TextCols \in Nat /\ i % TextCols \in Nat
  <2>1. i \div TextCols \in Nat
    BY <1>1, <1>2, QuotientLess, 0 \in Int
  <2>2. i % TextCols \in Nat
    BY <1>1, <1>2, ModType
  <2> QED
    BY <2>1, <2>2
<1> DEFINE q == i \div TextCols
           m == i % TextCols
           a == CellAddr(r, i)
<1>4. a = r.start + q * r.line + m
  BY DEF CellAddr
<1> HIDE DEF q, m, a
<1>5. q * r.line \in Nat /\ r.start \in Nat
  BY <1>3, SMT DEF q, RegsOk
<1>6. a \in Nat
  BY <1>3, <1>4, <1>5 DEF m
<1>7. a % VramWords \in 0 .. VramWords - 1
  BY <1>1, <1>6, DivMod
<1>8. ram[a % VramWords] \in Words
  BY <1>7
<1>9. ram[a % VramWords] \in Nat
  BY <1>8, VgaAssumption
<1> QED
  BY <1>3, <1>6, <1>9 DEF a

\* A row of text is not a blank one.
LEMMA RowNotBlank ==
  ASSUME NEW p
  PROVE  [x \in 0 .. TextCols - 1 |-> p[x]] # Blank
<1>1. 0 \in DOMAIN [x \in 0 .. TextCols - 1 |-> p[x]]
  BY VgaTypes
<1>2. 0 \notin DOMAIN Blank
  BY DEF Blank
<1> QED
  BY <1>1, <1>2

\* What the text on the screen depends on.
LEMMA TextSame ==
  ASSUME NEW f, NEW g, TextShown(f), g.fb = f.fb, g.r.font = f.r.font,
         g.c.layout = f.c.layout, g.c.cur = f.c.cur, g.c.ch = f.c.ch, g.c.pal16 = f.c.pal16,
         f.c.layout[1] = TextCols \/ g.r.cursor = f.r.cursor
  PROVE  TextShown(g)
<1>1. \A i : UnderCursor(g.c, i) <=> UnderCursor(f.c, i)
  BY DEF UnderCursor
<1>2. /\ g.c.layout # <<>>
      /\ g.c.layout[1] = TextCols \/ g.r.cursor - g.c.layout[2] = g.c.cur[1]
  BY DEF TextShown
<1>3. ASSUME NEW y \in LcdLines
      PROVE  IF y - Top(TextRows) \in 0 .. TextRows - 1
             THEN \E p : /\ g.fb[y] = [x \in 0 .. TextCols - 1 |-> p[x]]
                         /\ \A x \in 0 .. TextCols - 1 :
                              LET i == (y - Top(TextRows)) * TextCols + x IN
                              UnderCursor(g.c, i) \/ p[x] = <<g.c.ch[i], g.c.pal16, g.r.font, 0>>
             ELSE g.fb[y] = Blank
  <2>1. CASE y - Top(TextRows) \in 0 .. TextRows - 1
    <3>1. PICK p : /\ f.fb[y] = [x \in 0 .. TextCols - 1 |-> p[x]]
                   /\ \A x \in 0 .. TextCols - 1 :
                        LET i == (y - Top(TextRows)) * TextCols + x IN
                        UnderCursor(f.c, i) \/ p[x] = <<f.c.ch[i], f.c.pal16, f.r.font, 0>>
      BY <1>3, <2>1, Zenon DEF TextShown
    <3>2. \A x \in 0 .. TextCols - 1 :
            LET i == (y - Top(TextRows)) * TextCols + x IN
            UnderCursor(g.c, i) \/ p[x] = <<g.c.ch[i], g.c.pal16, g.r.font, 0>>
      BY <1>1, <3>1, Zenon
    <3> QED
      BY <2>1, <3>1, <3>2, Zenon
  <2>2. CASE y - Top(TextRows) \notin 0 .. TextRows - 1
    BY <1>3, <2>2, Zenon DEF TextShown
  <2> QED
    BY <2>1, <2>2
<1> QED
  BY <1>2, <1>3, Zenon DEF TextShown

\* vga_text_refresh, when the screen is too large.
LEMMA TextTooBig ==
  ASSUME NEW f, NEW full, NEW tick, TextPre(f, full), f.r.geo = "big"
  PROVE  TextPost(f, TextRefresh(f, full, tick), full)
<1> DEFINE g == TextRefresh(f, full, tick)
           blink == IF tick THEN ~f.c.blink ELSE f.c.blink
           colours == IF full THEN f.c.pal16 ELSE Colours16(f.r)
           full1 == full \/ f.c.pal16 # colours
           marked == f.s.text \/ full1
<1>0. /\ DOMAIN f = {"r", "c", "ram", "fb", "rows", "s"}
      /\ DOMAIN f.r = RegFields /\ DOMAIN f.c = CacheFields /\ DOMAIN f.s = ShownFields
  BY DEF TextPre, VgaShape, IsFrame
<1>1. g = [f EXCEPT !.c.blink = blink, !.c.pal16 = colours, !.s.text = @ \/ full1, !.s.by = "none"]
  BY DEF TextRefresh, g
<1> HIDE DEF g, blink, colours, full1
<1>2. /\ g.c = [f.c EXCEPT !.blink = blink, !.pal16 = colours]
      /\ g.s = [f.s EXCEPT !.text = marked, !.by = "none"]
      /\ g.r = f.r /\ g.ram = f.ram /\ g.fb = f.fb /\ g.rows = f.rows
      /\ DOMAIN g = {"r", "c", "ram", "fb", "rows", "s"}
  BY <1>0, <1>1 DEF ShownFields
<1> HIDE DEF marked
<1>3. IsFrame(g) /\ g.c.presents = f.c.presents /\ g.c.key640 = f.c.key640 /\ g.c.pal16 = colours
  BY <1>0, <1>2 DEF IsFrame, CacheFields, ShownFields
<1>4. /\ g.c.mode = f.c.mode /\ g.c.forceFull = f.c.forceFull /\ g.c.quiet = f.c.quiet
      /\ g.c.hold = f.c.hold /\ g.c.d13 = f.c.d13 /\ g.c.d640 = f.c.d640
      /\ g.c.palDirty = f.c.palDirty /\ g.c.pal256 = f.c.pal256
      /\ g.c.ch = f.c.ch /\ g.c.cur = f.c.cur /\ g.c.layout = f.c.layout
  BY <1>0, <1>2 DEF CacheFields
<1>5. /\ g.s.band = f.s.band /\ g.s.age = f.s.age /\ g.s.by = "none" /\ g.s.text = marked
      /\ g.s.pair = f.s.pair /\ g.s.lost = f.s.lost
  BY <1>0, <1>2 DEF ShownFields
<1>6. f.c.mode = 1 /\ f.c.hold = 0 /\ f.s.age = 0 /\ marked \in BOOLEAN
  BY DEF TextPre, VgaShape, ShownOk, VbeKept, marked, full1
<1>7. VgaShape(g)
  <2>1. RegsOk(g.r) /\ ShownOk(g.s)
    BY <1>2, <1>5, <1>6 DEF TextPre, VgaShape, ShownOk
  <2>2. CachesOk(g.c)
    BY <1>3, <1>4 DEF TextPre, VgaShape, CachesOk
  <2> QED
    BY <1>2, <1>3, <2>1, <2>2 DEF TextPre, VgaShape
<1>8. TextKept(g)
  <2> SUFFICES ASSUME ~marked PROVE TextShown(g)
    BY <1>5 DEF TextKept
  <2>1. TextShown(f) /\ f.c.pal16 = colours
    BY DEF TextPre, marked, full1
  <2> QED
    BY <1>2, <1>3, <1>4, <2>1, TextSame
<1>9. BandKept(g) /\ PairKept(g) /\ VbeKept(g) /\ Orders(g) /\ Drawn(g)
  BY <1>2, <1>3, <1>4, <1>5, <1>6 DEF BandKept, PairKept, VbeKept, Orders, Drawn, TextPre
<1>10. VgaGood(g)
  BY <1>7, <1>8, <1>9 DEF VgaGood
<1>11. full \/ f.s.text => marked
  BY DEF marked, full1
<1>12. TextPost(f, g, full)
  BY <1>2, <1>4, <1>5, <1>6, <1>10, <1>11 DEF TextPost, Drew, SameElsewhere
<1> QED
  BY <1>12 DEF g

\* A cell that is not drawn again is on the screen as it should be: it holds the word that is
\* remembered, and the cursor was not on it.
LEMMA SpareCell ==
  ASSUME NEW f, RegsOk(f.r), CachesOk(f.c), TextShown(f), f.c.layout = <<f.r.line, f.r.start>>,
         f.ram \in [0 .. VramWords - 1 -> Words],
         NEW offset, offset = f.r.cursor - f.r.start,
         NEW cur, cur = <<offset, f.r.shape>>,
         NEW moved, moved = IF f.c.cur = cur THEN {} ELSE {f.c.cur[1], offset},
         NEW i \in Cells, i \notin moved,
         f.r.cursor # CellAddr(f.r, i)
  PROVE  ~UnderCursor(f.c, i)
<1> SUFFICES ASSUME UnderCursor(f.c, i) PROVE FALSE
  OBVIOUS
<1>1. f.c.layout[1] = f.r.line /\ f.c.layout[2] = f.r.start
  OBVIOUS
<1> DEFINE q == i \div TextCols
           m == i % TextCols
           e == q * f.r.line
<1>2. q \in Nat /\ m \in Nat /\ f.r.line \in Nat /\ f.r.start \in Nat /\ f.r.cursor \in Nat
  BY CellWord DEF RegsOk
<1>3. CellAddr(f.r, i) = f.r.start + e + m
  BY DEF CellAddr
<1>4. f.c.cur[1] = e + m
  BY <1>1 DEF UnderCursor
<1>5. e \in Nat /\ TextCols \in Nat \ {0} /\ i \in Int
  <2> HIDE DEF q, m
  <2>1. e \in Nat
    BY <1>2, SMT
  <2>2. TextCols \in Nat \ {0} /\ TextRows \in Nat \ {0}
    BY VgaTypes
  <2> QED
    BY <2>1, <2>2 DEF Cells
<1>6. f.c.cur[1] # f.r.cursor - f.r.start
  <2>1. f.r.cursor # f.r.start + e + m
    BY <1>3
  <2> HIDE DEF q, m, e
  <2>2. \A s, k, u, v \in Int : u # s + k + v => k + v # u - s
    BY SMT
  <2>3. f.r.start \in Int /\ e \in Int /\ f.r.cursor \in Int /\ m \in Int
    BY <1>2, <1>5
  <2> QED
    BY <1>4, <2>1, <2>2, <2>3, Zenon
<1>7. f.c.cur # cur /\ f.c.cur[1] # i
  BY <1>6
<1>8. f.r.line = TextCols
  BY <1>1, <1>6 DEF TextShown
<1>9. i = TextCols * q + m
  BY <1>5, DivMod
<1>10. e = TextCols * q
  BY <1>2, <1>8, SMT
<1> QED
  BY <1>4, <1>7, <1>9, <1>10

\* vga_text_refresh, when it draws.
LEMMA TextDraws ==
  ASSUME NEW f, NEW full, NEW tick, TextPre(f, full), f.r.geo # "big"
  PROVE  TextPost(f, TextRefresh(f, full, tick), full)
<1> DEFINE g == TextRefresh(f, full, tick)
           blink == IF tick THEN ~f.c.blink ELSE f.c.blink
           colours == IF full THEN f.c.pal16 ELSE Colours16(f.r)
           full1 == full \/ f.c.pal16 # colours
           layout == <<f.r.line, f.r.start>>
           odd == f.r.geo = "odd"
           all == full1 \/ f.c.layout # layout \/ odd
           offset == f.r.cursor - f.r.start
           cur == <<offset, f.r.shape>>
           moved == IF f.c.cur = cur THEN {} ELSE {f.c.cur[1], offset}
           kept == [c \in Cells |-> IF c \in moved THEN Forced ELSE f.c.ch[c]]
           word(c) == f.ram[CellAddr(f.r, c) % VramWords]
           draw == {c \in Cells : all \/ word(c) # kept[c] \/ f.r.cursor = CellAddr(f.r, c)}
           cell(c) == Glyph(f.r, f.ram, colours, blink, c)
           line(y) == [x \in 0 .. TextCols - 1 |-> cell(y * TextCols + x)]
           top == Top(TextRows)
           base == IF all /\ ~odd THEN Dark ELSE f.fb
           newch == [c \in Cells |-> IF c \in draw THEN word(c) ELSE kept[c]]
           new == [y \in LcdLines |->
                     IF y - top \in 0 .. TextRows - 1
                     THEN [x \in 0 .. TextCols - 1 |->
                             IF (y - top) * TextCols + x \in draw
                             THEN cell((y - top) * TextCols + x)
                             ELSE IF base[y] = Blank THEN Blank ELSE base[y][x]]
                     ELSE base[y]]
           rows == IF all THEN LcdLines
                   ELSE {y \in LcdLines : \E a, b \in draw :
                           top + (a \div TextCols) <= y /\ y <= top + (b \div TextCols)}
           marked == f.s.text /\ (odd \/ ~all)
           by == IF full THEN "ordered" ELSE "text"
<1>0. /\ DOMAIN f = {"r", "c", "ram", "fb", "rows", "s"}
      /\ DOMAIN f.r = RegFields /\ DOMAIN f.c = CacheFields /\ DOMAIN f.s = ShownFields
  BY DEF TextPre, VgaShape, IsFrame
<1>1. g = [f EXCEPT !.c.blink = blink, !.c.pal16 = colours, !.c.layout = layout, !.c.cur = cur,
                    !.c.ch = newch, !.fb = new, !.rows = rows, !.s.by = by,
                    !.s.text = @ /\ (odd \/ ~all)]
  BY DEF TextRefresh, g
<1> HIDE DEF g, by, odd, blink, colours, full1, layout, all, cur, moved, kept, draw, base, newch, new, rows
<1>2. /\ g.c = [f.c EXCEPT !.blink = blink, !.pal16 = colours, !.layout = layout, !.cur = cur,
                           !.ch = newch]
      /\ g.s = [f.s EXCEPT !.by = by, !.text = marked]
      /\ g.r = f.r /\ g.ram = f.ram /\ g.fb = new /\ g.rows = rows
      /\ DOMAIN g = {"r", "c", "ram", "fb", "rows", "s"}
  BY <1>0, <1>1 DEF ShownFields
<1> HIDE DEF marked
<1>3. /\ IsFrame(g) /\ g.c.blink = blink /\ g.c.pal16 = colours /\ g.c.layout = layout
      /\ g.c.cur = cur /\ g.c.ch = newch
  BY <1>0, <1>2 DEF IsFrame, CacheFields, ShownFields
<1>4. /\ g.c.mode = f.c.mode /\ g.c.forceFull = f.c.forceFull /\ g.c.quiet = f.c.quiet
      /\ g.c.hold = f.c.hold /\ g.c.d13 = f.c.d13 /\ g.c.d640 = f.c.d640
      /\ g.c.palDirty = f.c.palDirty /\ g.c.pal256 = f.c.pal256
      /\ g.c.presents = f.c.presents /\ g.c.key640 = f.c.key640
  BY <1>0, <1>2 DEF CacheFields
<1>5. /\ g.s.band = f.s.band /\ g.s.age = f.s.age /\ g.s.by = by /\ g.s.text = marked
      /\ g.s.pair = f.s.pair /\ g.s.lost = f.s.lost
  BY <1>0, <1>2 DEF ShownFields
<1>6. /\ f.c.mode = 1 /\ f.c.hold = 0 /\ f.s.age = 0 /\ f.s.age \in Nat /\ marked \in BOOLEAN
      /\ RegsOk(f.r) /\ CachesOk(f.c) /\ f.ram \in [0 .. VramWords - 1 -> Words]
      /\ f.c.ch \in [Cells -> Int]
  BY DEF TextPre, VgaShape, ShownOk, CachesOk, VbeKept, marked, all, full1
<1>7. \A i \in Cells : word(i) \in Nat
  BY <1>6, CellWord
<1> HIDE DEF word
\* The cells that are drawn, and the others.
<1>8. ASSUME NEW i \in Cells
      PROVE  /\ newch[i] = word(i)
             /\ i \notin draw => /\ ~all /\ f.c.ch[i] = word(i) /\ i \notin moved
                                 /\ f.r.cursor # CellAddr(f.r, i)
  <2>1. newch[i] = IF i \in draw THEN word(i) ELSE kept[i]
    BY <1>8 DEF newch
  <2>2. kept[i] = IF i \in moved THEN Forced ELSE f.c.ch[i]
    BY <1>8 DEF kept
  <2>3. i \notin draw => ~all /\ word(i) = kept[i] /\ f.r.cursor # CellAddr(f.r, i)
    BY <1>8 DEF draw
  <2>4. word(i) # Forced
    <3>1. word(i) \in Nat
      BY <1>7, <1>8
    <3> QED
      BY <3>1 DEF Forced
  <2> QED
    BY <2>1, <2>2, <2>3, <2>4
<1>9. ASSUME NEW i \in Cells, i \notin draw, ~marked
      PROVE  ~UnderCursor(f.c, i) /\ f.c.pal16 = colours /\ TextShown(f)
  <2>1. ~all /\ i \notin moved /\ f.r.cursor # CellAddr(f.r, i)
    BY <1>8, <1>9
  <2>2. TextShown(f) /\ f.c.layout = layout /\ f.c.pal16 = colours
    BY <1>9, <2>1 DEF TextPre, marked, all, full1
  <2>3. /\ f.c.layout = <<f.r.line, f.r.start>> /\ cur = <<offset, f.r.shape>>
        /\ moved = IF f.c.cur = cur THEN {} ELSE {f.c.cur[1], offset}
    BY <2>2 DEF layout, cur, moved
  <2>4. offset = f.r.cursor - f.r.start
    OBVIOUS
  <2> HIDE DEF offset
  <2>5. ~UnderCursor(f.c, i)
    BY <1>6, <1>9, <2>1, <2>2, <2>3, <2>4, SpareCell
  <2> QED
    BY <2>2, <2>5
<1>10. \A i : cell(i) = <<word(i), colours, f.r.font,
                           IF f.r.cursor = CellAddr(f.r, i) /\ f.r.shape # 0 /\ blink
                           THEN f.r.shape ELSE 0>>
  BY DEF Glyph, word
<1> HIDE DEF cell
<1>11. top \in Int /\ LcdLines \subseteq Int
  <2>1. TextRows \in Int /\ LcdRows \in Int
    BY VgaTypes
  <2> QED
    BY <2>1, TopType DEF LcdLines
\* The screen after the refresh, row by row.
<1>12. ASSUME NEW y \in LcdLines, y - top \in 0 .. TextRows - 1, ~marked
       PROVE  new[y] = line(y - top)
  <2> DEFINE at(x) == (y - top) * TextCols + x
             old(x) == IF base[y] = Blank THEN Blank ELSE base[y][x]
  <2>1. new[y] = [x \in 0 .. TextCols - 1 |-> IF at(x) \in draw THEN cell(at(x)) ELSE old(x)]
    BY <1>12 DEF new
  <2>2. ASSUME NEW x \in 0 .. TextCols - 1
        PROVE  (IF at(x) \in draw THEN cell(at(x)) ELSE old(x)) = cell(at(x))
    <3>1. CASE at(x) \in draw
      BY <3>1
    <3>2. CASE at(x) \notin draw
      <4>1. at(x) \in Cells
        BY <1>12, <2>2, CellPlace
      <4> DEFINE i == at(x)
      <4>2. i \in Cells /\ i \notin draw
        BY <3>2, <4>1
      <4> HIDE DEF i
      <4>3. /\ ~all /\ f.c.ch[i] = word(i) /\ f.r.cursor # CellAddr(f.r, i)
            /\ ~UnderCursor(f.c, i) /\ f.c.pal16 = colours /\ TextShown(f)
        BY <1>8, <1>9, <1>12, <4>2
      <4>4. PICK p : /\ f.fb[y] = [z \in 0 .. TextCols - 1 |-> p[z]]
                     /\ \A z \in 0 .. TextCols - 1 :
                          LET j == (y - Top(TextRows)) * TextCols + z IN
                          UnderCursor(f.c, j) \/ p[z] = <<f.c.ch[j], f.c.pal16, f.r.font, 0>>
        BY <1>12, <4>3, Zenon DEF TextShown
      <4>5. UnderCursor(f.c, i) \/ p[x] = <<f.c.ch[i], f.c.pal16, f.r.font, 0>>
        BY <2>2, <4>4, Zenon DEF i
      <4>6. p[x] = cell(i)
        BY <1>10, <4>3, <4>5
      <4>7. base[y] = [z \in 0 .. TextCols - 1 |-> p[z]]
        BY <4>3, <4>4 DEF base
      <4>8. base[y] # Blank
        BY <4>7, RowNotBlank
      <4>9. base[y][x] = p[x]
        BY <2>2, <4>7
      <4>10. old(x) = cell(i)
        BY <4>6, <4>8, <4>9
      <4> QED
        BY <3>2, <4>10 DEF i
    <3> QED
      BY <3>1, <3>2
  <2> HIDE DEF old
  <2> QED
    BY <2>1, <2>2
<1>13. ASSUME NEW y \in LcdLines, y - top \notin 0 .. TextRows - 1, ~marked
       PROVE  new[y] = Blank
  <2>1. new[y] = base[y]
    BY <1>13 DEF new
  <2>2. CASE all /\ ~odd
    BY <1>13, <2>1, <2>2 DEF base, Dark
  <2>2a. CASE all /\ odd
    <3>1. MarginBlank(f)
      BY <1>13, <2>2a DEF TextPre, marked
    <3>2. f.fb[y] = Blank
      BY <1>13, <3>1 DEF MarginBlank
    <3> QED
      BY <2>1, <2>2a, <3>2 DEF base
  <2>3. CASE ~all
    <3>1. TextShown(f)
      BY <1>13, <2>3 DEF TextPre, marked, all, full1
    <3>2. f.fb[y] = Blank
      BY <1>13, <3>1, Zenon DEF TextShown
    <3> QED
      BY <2>1, <2>3, <3>2 DEF base
  <2> QED
    BY <2>2, <2>2a, <2>3
<1>14. IsPicture(g.fb)
  BY <1>2 DEF IsPicture, new
<1>15. VgaShape(g)
  <2>1. RegsOk(g.r) /\ ShownOk(g.s)
    BY <1>2, <1>5, <1>6 DEF TextPre, VgaShape, ShownOk
  <2>2. newch \in [Cells -> Int]
    <3>1. DOMAIN newch = Cells /\ newch = [i \in Cells |-> newch[i]]
      BY DEF newch
    <3>2. \A i \in Cells : newch[i] \in Int
      BY <1>7, <1>8
    <3> QED
      BY <3>1, <3>2, Zenon
  <2>3. layout \in Nat \X Nat /\ cur[1] \in Int
    BY <1>6 DEF RegsOk, layout, cur
  <2>4. CachesOk(g.c)
    BY <1>3, <1>4, <1>6, <2>2, <2>3 DEF CachesOk
  <2> QED
    BY <1>2, <1>3, <1>6, <1>14, <2>1, <2>4 DEF VgaShape
<1>16. ASSUME ~marked PROVE TextShown(g)
  <2>1. g.c.layout # <<>> /\ g.r.cursor - g.c.layout[2] = g.c.cur[1]
    BY <1>2, <1>3 DEF layout, cur
  <2>2. ASSUME NEW y \in LcdLines, y - Top(TextRows) \in 0 .. TextRows - 1
        PROVE  \E p : /\ g.fb[y] = [x \in 0 .. TextCols - 1 |-> p[x]]
                      /\ \A x \in 0 .. TextCols - 1 :
                           LET i == (y - Top(TextRows)) * TextCols + x IN
                           UnderCursor(g.c, i) \/ p[x] = <<g.c.ch[i], g.c.pal16, g.r.font, 0>>
    <3> DEFINE at(x) == (y - top) * TextCols + x
               p == [x \in 0 .. TextCols - 1 |-> cell(at(x))]
    <3>1. g.fb[y] = [x \in 0 .. TextCols - 1 |-> p[x]]
      BY <1>2, <1>12, <1>16, <2>2
    <3>2. ASSUME NEW x \in 0 .. TextCols - 1
          PROVE  UnderCursor(g.c, at(x)) \/ p[x] = <<g.c.ch[at(x)], g.c.pal16, g.r.font, 0>>
      <4> DEFINE i == at(x)
      <4>1. i \in Cells /\ p[x] = cell(i)
        BY <2>2, <3>2, CellPlace
      <4> HIDE DEF i, p
      <4>2. g.c.ch[i] = word(i)
        BY <1>3, <1>8, <4>1
      <4>3. CASE f.r.cursor = CellAddr(f.r, i)
        <5> DEFINE q == i \div TextCols
                   m == i % TextCols
                   e == q * f.r.line
        <5>1. q \in Nat /\ m \in Nat /\ f.r.line \in Nat /\ f.r.start \in Nat
          BY <1>6, <4>1, CellWord DEF RegsOk
        <5>2. CellAddr(f.r, i) = f.r.start + e + m
          BY DEF CellAddr
        <5>3. e \in Nat
          <6> HIDE DEF q
          <6> QED
            BY <5>1, SMT
        <5>4. f.r.cursor - f.r.start = e + m
          <6>1. f.r.cursor = f.r.start + e + m
            BY <4>3, <5>2
          <6> HIDE DEF q, m, e
          <6> QED
            BY <5>1, <5>3, <6>1
        <5>5. g.c.cur[1] = e + m
          BY <1>3, <5>4 DEF cur
        <5>6. g.c.layout[1] = f.r.line
          BY <1>3 DEF layout
        <5>7. UnderCursor(g.c, i)
          BY <5>5, <5>6 DEF UnderCursor
        <5> QED
          BY <5>7 DEF i
      <4>4. CASE f.r.cursor # CellAddr(f.r, i)
        <5>1. cell(i) = <<word(i), colours, f.r.font, 0>>
          BY <1>10, <4>4
        <5>2. p[x] = <<g.c.ch[i], g.c.pal16, g.r.font, 0>>
          BY <1>2, <1>3, <4>1, <4>2, <5>1
        <5> QED
          BY <5>2 DEF i
      <4> QED
        BY <4>3, <4>4
    <3> HIDE DEF p
    <3> QED
      BY <3>1, <3>2
  <2>3. ASSUME NEW y \in LcdLines, y - Top(TextRows) \notin 0 .. TextRows - 1
        PROVE  g.fb[y] = Blank
    BY <1>2, <1>13, <1>16, <2>3
  <2> QED
    BY <2>1, <2>2, <2>3, Zenon DEF TextShown
<1>17. ASSUME ~marked PROVE new = TextPicture(g, colours)
  <2>1. \A y : TextRow(g.r, g.ram, colours, g.c.blink, y) = line(y)
    BY <1>2, <1>3 DEF TextRow, cell
  <2> DEFINE row(y) == TextRow(g.r, g.ram, colours, g.c.blink, y)
  <2>2. TextPicture(g, colours) = [y \in LcdLines |-> IF y - top \in 0 .. TextRows - 1 THEN row(y - top) ELSE Blank]
    BY DEF TextPicture, Centred
  <2>3. \A y \in LcdLines : new[y] = IF y - top \in 0 .. TextRows - 1 THEN row(y - top) ELSE Blank
    <3> HIDE DEF line, row
    <3>1. \A y : row(y) = line(y)
      BY <2>1 DEF row
    <3> QED
      BY <1>12, <1>13, <1>17, <3>1
  <2>4. new = [y \in LcdLines |-> new[y]]
    BY DEF new
  <2> HIDE DEF row
  <2> QED
    BY <2>2, <2>3, <2>4
<1>18. TextKept(g)
  BY <1>5, <1>16 DEF TextKept
<1>19. BandKept(g) /\ PairKept(g) /\ VbeKept(g) /\ Orders(g)
  BY <1>2, <1>4, <1>5, <1>6 DEF BandKept, PairKept, VbeKept, Orders, TextPre
<1>20. Drawn(g)
  <2>1. by \in {"text", "ordered"} /\ (by = "text" => colours = Colours16(f.r))
    BY DEF by, colours
  <2> QED
    BY <1>2, <1>3, <1>4, <1>5, <1>6, <1>17, <2>1 DEF Drawn
<1>21. VgaGood(g)
  BY <1>15, <1>18, <1>19, <1>20 DEF VgaGood
<1>22. ASSUME ~marked, NEW y \in LcdLines
       PROVE  y \in rows \/ new[y] = f.fb[y]
  <2>1. CASE all
    BY <1>22, <2>1 DEF rows
  <2>2. CASE ~all /\ y - top \notin 0 .. TextRows - 1
    BY <1>22, <2>2 DEF new, base
  <2>3. CASE ~all /\ y - top \in 0 .. TextRows - 1 /\ \E x \in 0 .. TextCols - 1 : (y - top) * TextCols + x \in draw
    <3>1. PICK x \in 0 .. TextCols - 1 : (y - top) * TextCols + x \in draw
      BY <2>3
    <3> DEFINE i == (y - top) * TextCols + x
    <3>2. i \div TextCols = y - top
      BY <2>3, <3>1, CellPlace
    <3>3. y \in Int
      BY <1>11, <1>22
    <3> HIDE DEF i
    <3>4. top + (i \div TextCols) <= y /\ y <= top + (i \div TextCols)
      <4> HIDE DEF top
      <4> QED
        BY <1>11, <3>2, <3>3
    <3>5. i \in draw
      BY <3>1 DEF i
    <3> QED
      BY <1>22, <2>3, <3>4, <3>5 DEF rows
  <2>4. CASE ~all /\ y - top \in 0 .. TextRows - 1 /\ \A x \in 0 .. TextCols - 1 : (y - top) * TextCols + x \notin draw
    <3>1. TextShown(f)
      BY <1>22, <2>4 DEF TextPre, marked, all, full1
    <3>2. PICK p : f.fb[y] = [x \in 0 .. TextCols - 1 |-> p[x]]
      BY <1>22, <2>4, <3>1, Zenon DEF TextShown
    <3>3. f.fb[y] # Blank
      BY <3>2, RowNotBlank
    <3>4. new[y] = [x \in 0 .. TextCols - 1 |-> f.fb[y][x]]
      BY <1>22, <2>4, <3>3 DEF new, base
    <3> QED
      BY <3>2, <3>4
  <2> QED
    BY <2>1, <2>2, <2>3, <2>4
<1>23. rows = LcdLines \/ (full \/ f.s.text => marked)
  BY DEF rows, marked, all, full1
<1>24. TextPost(f, g, full)
  BY <1>2, <1>4, <1>5, <1>6, <1>21, <1>22, <1>23 DEF TextPost, Drew, SameElsewhere
<1> QED
  BY <1>24 DEF g

\* vga_text_refresh.
LEMMA TextRefreshes ==
  ASSUME NEW f, NEW full, NEW tick, TextPre(f, full)
  PROVE  TextPost(f, TextRefresh(f, full, tick), full)
BY TextTooBig, TextDraws

-----------------------------------------------------------------------------
(***************************************************************************)
(* vga_refresh: the change of mode, the hold, and the renderer called.     *)
(***************************************************************************)
\* The frame after vga_refresh has looked at the mode.
Turned(f) == [ModeChange(f) EXCEPT !.s.by = "none"]

\* Off, text or graphics.
LEMMA GraphicModeType ==
  ASSUME NEW r
  PROVE  GraphicMode(r) \in 0 .. 2
BY DEF GraphicMode

\* Every row is blank.
LEMMA DarkPicture == IsPicture(Dark)
BY DEF Dark, IsPicture

\* What a change of mode leaves alone, and what it changes.
TurnedOk(f, h) ==
  /\ VgaShape(h) /\ VbeKept(h) /\ Orders(h)
  /\ h.r = f.r /\ h.ram = f.ram /\ h.rows = f.rows
  /\ h.c.mode = GraphicMode(f.r) /\ h.c.quiet = f.c.quiet /\ h.c.forceFull = f.c.forceFull
  /\ h.s.by = "none" /\ h.s.band = f.s.band /\ h.s.pair = f.s.pair /\ h.s.lost = f.s.lost
  /\ h.c.mode = f.c.mode => h.c = f.c /\ h.fb = f.fb /\ h.s.text = f.s.text
  /\ h.c.mode # f.c.mode /\ h.c.mode = 1 /\ h.c.hold = 0 => h.fb = Dark
  /\ h.c.mode # f.c.mode /\ h.c.hold > 0 => h.c.mode # 2

\* The frame h that vga_refresh goes on with has the caches c, shows the picture, and
\* text says whether it may be out of step with the text screen.
TurnsInto(f, h, c, picture, text) ==
  /\ c.hold \in 0 .. 255 /\ IsPicture(picture) /\ text \in BOOLEAN
  /\ DOMAIN c = CacheFields /\ c.mode = GraphicMode(f.r)
  /\ \A x \in CacheFields : x \notin {"mode", "hold", "written"} => c[x] = f.c[x]
  /\ h.c = c /\ h.fb = picture /\ h.r = f.r /\ h.ram = f.ram /\ h.rows = f.rows
  /\ DOMAIN h.s = ShownFields /\ h.s.by = "none" /\ h.s.text = text /\ h.s.band = f.s.band
  /\ h.s.pair = f.s.pair /\ h.s.age = f.s.age /\ h.s.lost = f.s.lost
  /\ DOMAIN h = {"r", "c", "ram", "fb", "rows", "s"}
  /\ c.mode = f.c.mode => c = f.c /\ picture = f.fb /\ text = f.s.text
  /\ c.mode # f.c.mode /\ c.mode = 1 /\ c.hold = 0 => picture = Dark
  /\ c.mode # f.c.mode /\ c.hold > 0 => c.mode # 2

\* ModeChange does so.
LEMMA ModeTurns ==
  ASSUME NEW f, VgaGood(f)
  PROVE  TurnedOk(f, Turned(f))
<1> DEFINE mode == GraphicMode(f.r)
           g == [f EXCEPT !.c.mode = mode]
           held == [g EXCEPT !.c.written = FALSE, !.c.hold = HoldFrames]
           cleared == [g EXCEPT !.c.hold = 0, !.fb = Dark, !.s.text = FALSE]
           h == Turned(f)
<1> SUFFICES TurnedOk(f, h)
  OBVIOUS
<1>0. /\ DOMAIN f = {"r", "c", "ram", "fb", "rows", "s"}
      /\ DOMAIN f.r = RegFields /\ DOMAIN f.c = CacheFields /\ DOMAIN f.s = ShownFields
      /\ f.c.hold \in 0 .. 255 /\ f.c.mode \in 0 .. 2 /\ f.s.age \in Nat /\ f.c.presents \in 0 .. ForceEvery - 1
      /\ f.s.text \in BOOLEAN /\ HoldFrames \in 0 .. 255
  BY VgaAssumption DEF VgaGood, VgaShape, IsFrame, CachesOk, ShownOk
<1>1. mode \in 0 .. 2
  BY GraphicModeType
<1>2. /\ mode = f.c.mode => ModeChange(f) = f
      /\ mode # f.c.mode /\ f.c.mode = 2 /\ HoldFrames > 0 => ModeChange(f) = held
      /\ mode # f.c.mode /\ f.c.mode = 0 /\ mode = 1 /\ f.c.hold > 0 => ModeChange(f) = g
      /\ mode # f.c.mode /\ ~(f.c.mode = 2 /\ HoldFrames > 0) /\ ~(f.c.mode = 0 /\ mode = 1 /\ f.c.hold > 0)
           => ModeChange(f) = cleared
  <2> HIDE DEF mode, g, held, cleared
  <2> QED
    BY DEF ModeChange, mode, g, held, cleared
<1> HIDE DEF mode
<1>3. ASSUME NEW c, NEW picture, NEW text, TurnsInto(f, h, c, picture, text)
      PROVE  TurnedOk(f, h)
  <2> HIDE DEF h
  <2>0. /\ c.hold \in 0 .. 255 /\ IsPicture(picture) /\ DOMAIN c = CacheFields /\ c.mode = mode
        /\ \A x \in CacheFields : x \notin {"mode", "hold", "written"} => c[x] = f.c[x]
        /\ h.c = c /\ h.fb = picture /\ h.r = f.r /\ h.ram = f.ram /\ h.rows = f.rows
        /\ DOMAIN h.s = ShownFields /\ h.s.by = "none" /\ h.s.text = text /\ h.s.band = f.s.band
        /\ h.s.pair = f.s.pair /\ h.s.age = f.s.age /\ h.s.lost = f.s.lost
        /\ DOMAIN h = {"r", "c", "ram", "fb", "rows", "s"}
        /\ text \in BOOLEAN
        /\ mode = f.c.mode => c = f.c /\ picture = f.fb /\ text = f.s.text
        /\ mode # f.c.mode /\ mode = 1 /\ c.hold = 0 => picture = Dark
        /\ mode # f.c.mode /\ c.hold > 0 => mode # 2
    BY <1>3 DEF TurnsInto, mode
  <2>1. /\ c.quiet = f.c.quiet /\ c.forceFull = f.c.forceFull /\ c.presents = f.c.presents
        /\ c.palDirty = f.c.palDirty /\ c.pal256 = f.c.pal256 /\ c.d13 = f.c.d13 /\ c.d640 = f.c.d640
    BY <2>0 DEF CacheFields
  <2>2. c.ch = f.c.ch /\ c.cur = f.c.cur /\ c.layout = f.c.layout /\ c.key640 = f.c.key640
    BY <2>0 DEF CacheFields
  <2>3. /\ h.s.by = "none" /\ h.s.band = f.s.band /\ h.s.pair = f.s.pair /\ h.s.text = text
        /\ h.s.lost = f.s.lost /\ h.s.age = f.s.age /\ DOMAIN h.s = ShownFields
    BY <2>0
  <2>4. CachesOk(c)
    BY <1>1, <2>0, <2>1, <2>2 DEF VgaGood, VgaShape, CachesOk
  <2>5. RegsOk(h.r) /\ ShownOk(h.s) /\ IsFrame(h)
    BY <1>0, <2>0, <2>3 DEF VgaGood, VgaShape, ShownOk, IsFrame
  <2>6. VgaShape(h)
    BY <2>0, <2>4, <2>5 DEF VgaGood, VgaShape
  <2>7. VbeKept(h)
    <3> SUFFICES ASSUME f.s.age > 0 PROVE VbeKept(h)
      BY <2>3 DEF VbeKept
    <3>1. mode = f.c.mode
      BY DEF VgaGood, VbeKept, mode
    <3>2. h.c = f.c /\ h.fb = f.fb /\ h.r = f.r /\ h.ram = f.ram /\ h.s.age = f.s.age
      BY <2>0, <2>3, <3>1
    <3> QED
      BY <3>2 DEF VgaGood, VbeKept, VbePicture
  <2>8. Orders(h)
    BY <1>0, <2>0, <2>1 DEF VgaGood, Orders
  <2> QED
    BY <2>0, <2>1, <2>3, <2>6, <2>7, <2>8 DEF TurnedOk, mode
<1>4. CASE mode = f.c.mode
  <2>1. ModeChange(f) = f
    BY <1>2, <1>4
  <2>2. h = [f EXCEPT !.s.by = "none"]
    BY <2>1 DEF h, Turned
  <2> HIDE DEF h
  <2>3. /\ h.c = f.c /\ h.fb = f.fb /\ h.r = f.r /\ h.ram = f.ram /\ h.rows = f.rows
        /\ DOMAIN h.s = ShownFields /\ h.s.by = "none" /\ h.s.text = f.s.text /\ h.s.band = f.s.band
        /\ h.s.pair = f.s.pair /\ h.s.age = f.s.age /\ h.s.lost = f.s.lost
        /\ DOMAIN h = {"r", "c", "ram", "fb", "rows", "s"}
    BY <1>0, <2>2 DEF ShownFields
  <2>4. IsPicture(f.fb) /\ f.c.mode = mode
    BY <1>4 DEF VgaGood, VgaShape
  <2>5. TurnsInto(f, h, f.c, f.fb, f.s.text)
    BY <1>0, <1>4, <2>3, <2>4 DEF TurnsInto, mode
  <2> QED
    BY <1>3, <2>5
<1>5. CASE mode # f.c.mode /\ f.c.mode = 2 /\ HoldFrames > 0
  <2>1. h = [held EXCEPT !.s.by = "none"]
    BY <1>2, <1>5 DEF h, Turned
  <2> DEFINE c == [f.c EXCEPT !.mode = mode, !.written = FALSE, !.hold = HoldFrames]
  <2> HIDE DEF h
  <2>2. /\ h.c = c /\ h.fb = f.fb /\ h.r = f.r /\ h.ram = f.ram /\ h.rows = f.rows
        /\ DOMAIN h.s = ShownFields /\ h.s.by = "none" /\ h.s.text = f.s.text /\ h.s.band = f.s.band
        /\ h.s.pair = f.s.pair /\ h.s.age = f.s.age /\ h.s.lost = f.s.lost
        /\ DOMAIN h = {"r", "c", "ram", "fb", "rows", "s"}
    BY <1>0, <2>1 DEF CacheFields, ShownFields
  <2>3. /\ DOMAIN c = CacheFields /\ c.mode = mode /\ c.hold = HoldFrames
        /\ \A x \in CacheFields : x \notin {"mode", "hold", "written"} => c[x] = f.c[x]
    BY <1>0 DEF CacheFields
  <2>4. IsPicture(f.fb)
    BY DEF VgaGood, VgaShape
  <2> HIDE DEF c
  <2>5. /\ HoldFrames \in 0 .. 255 /\ mode # f.c.mode
        /\ mode # f.c.mode /\ HoldFrames > 0 => mode # 2
        /\ HoldFrames # 0
    BY <1>0, <1>5
  <2>6. TurnsInto(f, h, c, f.fb, f.s.text)
    BY <1>0, <2>2, <2>3, <2>4, <2>5 DEF TurnsInto, mode
  <2> QED
    BY <1>3, <2>6
<1>6. CASE mode # f.c.mode /\ f.c.mode = 0 /\ mode = 1 /\ f.c.hold > 0
  <2>1. h = [g EXCEPT !.s.by = "none"]
    BY <1>2, <1>6 DEF h, Turned
  <2> DEFINE c == [f.c EXCEPT !.mode = mode]
  <2> HIDE DEF h
  <2>2. /\ h.c = c /\ h.fb = f.fb /\ h.r = f.r /\ h.ram = f.ram /\ h.rows = f.rows
        /\ DOMAIN h.s = ShownFields /\ h.s.by = "none" /\ h.s.text = f.s.text /\ h.s.band = f.s.band
        /\ h.s.pair = f.s.pair /\ h.s.age = f.s.age /\ h.s.lost = f.s.lost
        /\ DOMAIN h = {"r", "c", "ram", "fb", "rows", "s"}
    BY <1>0, <2>1 DEF CacheFields, ShownFields
  <2>3. /\ DOMAIN c = CacheFields /\ c.mode = mode /\ c.hold = f.c.hold
        /\ \A x \in CacheFields : x \notin {"mode", "hold", "written"} => c[x] = f.c[x]
    BY <1>0 DEF CacheFields
  <2>4. IsPicture(f.fb)
    BY DEF VgaGood, VgaShape
  <2> HIDE DEF c
  <2>5. /\ f.c.hold \in 0 .. 255 /\ mode # f.c.mode
        /\ mode # f.c.mode /\ f.c.hold > 0 => mode # 2
        /\ f.c.hold # 0
    BY <1>0, <1>6
  <2>6. TurnsInto(f, h, c, f.fb, f.s.text)
    BY <1>0, <2>2, <2>3, <2>4, <2>5 DEF TurnsInto, mode
  <2> QED
    BY <1>3, <2>6
<1>7. CASE mode # f.c.mode /\ ~(f.c.mode = 2 /\ HoldFrames > 0) /\ ~(f.c.mode = 0 /\ mode = 1 /\ f.c.hold > 0)
  <2>1. h = [cleared EXCEPT !.s.by = "none"]
    BY <1>2, <1>7 DEF h, Turned
  <2> DEFINE c == [f.c EXCEPT !.mode = mode, !.hold = 0]
             no == FALSE
  <2> HIDE DEF h
  <2>2. /\ h.c = c /\ h.fb = Dark /\ h.r = f.r /\ h.ram = f.ram /\ h.rows = f.rows
        /\ DOMAIN h.s = ShownFields /\ h.s.by = "none" /\ h.s.text = no /\ h.s.band = f.s.band
        /\ h.s.pair = f.s.pair /\ h.s.age = f.s.age /\ h.s.lost = f.s.lost
        /\ DOMAIN h = {"r", "c", "ram", "fb", "rows", "s"}
    BY <1>0, <2>1 DEF CacheFields, ShownFields
  <2> DEFINE none == 0
  <2>3. /\ DOMAIN c = CacheFields /\ c.mode = mode /\ c.hold = none
        /\ \A x \in CacheFields : x \notin {"mode", "hold", "written"} => c[x] = f.c[x]
    BY <1>0 DEF CacheFields
  <2> HIDE DEF c
  <2>4. none \in 0 .. 255 /\ ~(none > 0) /\ no \in BOOLEAN
    OBVIOUS
  <2> HIDE DEF none, no
  <2>5. mode # f.c.mode /\ IsPicture(h.fb)
    BY <1>7, <2>2, DarkPicture
  <2>6. TurnsInto(f, h, c, Dark, no)
    BY <1>0, <2>2, <2>3, <2>4, <2>5 DEF TurnsInto, mode
  <2> QED
    BY <1>3, <2>6
<1> HIDE DEF h
<1> QED
  BY <1>4, <1>5, <1>6, <1>7

\* What vga_refresh leaves.
RefreshPost(f, g) ==
  /\ VgaGood(g) /\ g.r = f.r /\ g.ram = f.ram /\ g.s.lost = f.s.lost
  /\ g.c.mode = f.c.mode /\ f.c.hold = 0 => SameElsewhere(f, g) \/ (g.c.mode = 1 /\ g.s.text)
  /\ g.c.mode # f.c.mode \/ Owing(f) => g.rows # {} \/ Owing(g)
  /\ g.c.hold > 0 => g.rows = {} /\ (g.c.mode # f.c.mode \/ f.c.hold > 0)
  /\ g.c.mode = 1 /\ ~g.s.text /\ f.c.mode = 1 /\ f.s.text /\ f.c.hold = 0 => g.rows = LcdLines

\* A full redraw is a redraw.
LEMMA SomeLines == LcdLines # {}
<1>1. 0 \in LcdLines
  BY VgaTypes DEF LcdLines
<1> QED
  BY <1>1

\* A refresh that draws nothing.
LEMMA NothingDrawn ==
  ASSUME NEW f, VgaGood(f), NEW h, TurnedOk(f, h), f.rows = {},
         NEW g, IsFrame(g), CachesOk(g.c), g.r = h.r /\ g.ram = h.ram /\ g.fb = h.fb /\ g.rows = h.rows /\ g.s = h.s,
         /\ g.c.mode = h.c.mode /\ g.c.forceFull = h.c.forceFull /\ g.c.presents = h.c.presents
         /\ g.c.palDirty = h.c.palDirty /\ g.c.pal256 = h.c.pal256,
         g.c.mode = 2 => g.c.forceFull,
         g.c.mode = 1 => g.c.hold > 0,
         g.c.quiet > 0 => g.c.forceFull,
         g.c.hold > 0 => g.c.mode # 2 /\ (g.c.mode # f.c.mode \/ f.c.hold > 0)
  PROVE  RefreshPost(f, g)
<1>0. h.s.by = "none" /\ VgaShape(h) /\ VbeKept(h) /\ Orders(h)
  BY DEF TurnedOk
<1>1. VgaShape(g)
  BY <1>0 DEF VgaShape
<1>2. /\ VbeKept(g) /\ Orders(g)
  BY <1>0 DEF VbeKept, VbePicture, Orders
<1>2a. BandKept(g) /\ PairKept(g) /\ Drawn(g)
  BY <1>0 DEF BandKept, PairKept, Drawn
<1>2b. TextKept(g)
  <2>1. g.c.hold \in 0 .. 255
    BY DEF CachesOk
  <2> QED
    BY <2>1 DEF TextKept
<1>3. VgaGood(g)
  BY <1>1, <1>2, <1>2a, <1>2b DEF VgaGood
<1>4. Owing(g) /\ g.rows = {} /\ g.s.lost = f.s.lost /\ g.r = f.r /\ g.ram = f.ram
  BY DEF Owing, TurnedOk
<1>5. g.c.mode = f.c.mode => SameElsewhere(f, g)
  BY DEF TurnedOk, SameElsewhere
<1>6. ~(g.c.mode = 1 /\ f.c.mode = 1 /\ f.c.hold = 0)
  OBVIOUS
<1> QED
  BY <1>3, <1>4, <1>5, <1>6 DEF RefreshPost

\* A refresh that draws graphics.
LEMMA GraphicsDrawn ==
  ASSUME NEW f, VgaGood(f), NEW h, TurnedOk(f, h), f.rows = {}, NEW full \in BOOLEAN,
         h.c.mode = 2, h.c.quiet = 0, h.c.mode # f.c.mode => full
  PROVE  RefreshPost(f, GraphicRefresh([h EXCEPT !.c.forceFull = FALSE], full \/ h.c.forceFull))
<1> DEFINE order == full \/ h.c.forceFull
           e == [h EXCEPT !.c.forceFull = FALSE]
           d == [e EXCEPT !.s.by = Renderer(e.r)]
           g == GraphicRefresh(e, order)
<1>0. /\ VgaShape(h) /\ VbeKept(h) /\ Orders(h) /\ h.r = f.r /\ h.ram = f.ram
      /\ GraphicMode(h.r) = 2
  BY DEF TurnedOk
<1>1. /\ DOMAIN h = {"r", "c", "ram", "fb", "rows", "s"}
      /\ DOMAIN h.r = RegFields /\ DOMAIN h.c = CacheFields /\ DOMAIN h.s = ShownFields
      /\ h.c.forceFull \in BOOLEAN
  BY <1>0 DEF VgaShape, IsFrame, CachesOk
<1>2. /\ e.c = [h.c EXCEPT !.forceFull = FALSE] /\ e.r = h.r /\ e.ram = h.ram /\ e.fb = h.fb
      /\ e.rows = h.rows /\ e.s = h.s /\ DOMAIN e = {"r", "c", "ram", "fb", "rows", "s"}
  BY <1>1
<1> HIDE DEF e
<1>3. /\ e.c.mode = h.c.mode /\ ~e.c.forceFull /\ e.c.forceFull \in BOOLEAN /\ e.c.quiet = h.c.quiet /\ e.c.hold = h.c.hold
      /\ e.c.presents = h.c.presents /\ e.c.palDirty = h.c.palDirty /\ e.c.pal256 = h.c.pal256
      /\ e.c.d13 = h.c.d13 /\ e.c.d640 = h.c.d640 /\ e.c.rows640 = h.c.rows640
      /\ DOMAIN e.c = CacheFields
  BY <1>1, <1>2 DEF CacheFields
<1>4. /\ e.c.key640 = h.c.key640 /\ e.c.pal16 = h.c.pal16 /\ e.c.ch = h.c.ch /\ e.c.cur = h.c.cur
      /\ e.c.layout = h.c.layout
  BY <1>1, <1>2 DEF CacheFields
<1>5. /\ d.c = e.c /\ d.r = e.r /\ d.ram = e.ram /\ d.fb = e.fb
      /\ d.s = [e.s EXCEPT !.by = Renderer(e.r)] /\ DOMAIN d = {"r", "c", "ram", "fb", "rows", "s"}
  BY <1>1, <1>2
<1> HIDE DEF d
<1>6. /\ d.s.by = Renderer(e.r) /\ d.s.band = h.s.band /\ d.s.pair = h.s.pair /\ d.s.text = h.s.text
      /\ d.s.lost = h.s.lost /\ d.s.age = h.s.age /\ DOMAIN d.s = ShownFields
  BY <1>1, <1>2, <1>5 DEF ShownFields
<1>7. VgaShape(d)
  <2>0. CachesOk(h.c)
    BY <1>0 DEF VgaShape
  <2>1. CachesOk(d.c)
    <3>1. CachesOk(e.c)
      BY <1>3, <1>4, <2>0, ZenonT(40) DEF CachesOk
    <3> QED
      BY <1>5, <3>1
  <2>2. ShownOk(d.s) /\ RegsOk(d.r)
    BY <1>0, <1>2, <1>5, <1>6 DEF VgaShape, ShownOk
  <2>3. IsFrame(d)
    BY <1>1, <1>2, <1>3, <1>5, <1>6 DEF IsFrame
  <2> QED
    BY <1>0, <1>2, <1>5, <2>1, <2>2, <2>3 DEF VgaShape
<1>8. VbeKept(d) /\ Orders(d)
  <2>1. VbeKept(d)
    <3>1. d.r = h.r /\ d.ram = h.ram /\ d.fb = h.fb /\ d.c.mode = h.c.mode /\ d.c.presents = h.c.presents
      BY <1>2, <1>3, <1>5
    <3>2. VbePicture(d) = VbePicture(h)
      BY <3>1 DEF VbePicture
    <3> QED
      BY <1>0, <1>6, <3>1, <3>2 DEF VbeKept
  <2>2. Orders(d)
    BY <1>0, <1>2, <1>3, <1>5 DEF Orders
  <2> QED
    BY <2>1, <2>2
<1>9. order \in BOOLEAN
  BY <1>1
<1>10. ASSUME ~order
       PROVE  h.c = f.c /\ h.fb = f.fb /\ ~f.c.forceFull /\ f.c.mode = 2
  BY <1>10 DEF TurnedOk
<1>11. ASSUME ~order, ~d.s.band PROVE BandShown(d)
  <2>1. BandShown(f)
    BY <1>6, <1>10, <1>11 DEF VgaGood, BandKept, TurnedOk
  <2> QED
    BY <1>0, <1>2, <1>3, <1>5, <1>10, <1>11, <2>1 DEF BandShown
<1>12. ASSUME ~order, ~d.s.pair, d.c.key640 # <<>> PROVE PairShown(d)
  <2>1. PairShown(f)
    BY <1>4, <1>5, <1>6, <1>10, <1>12 DEF VgaGood, PairKept, TurnedOk
  <2>2. /\ d.c.key640 = f.c.key640 /\ d.c.pal16 = f.c.pal16 /\ d.c.rows640 = f.c.rows640
        /\ d.c.d640 = f.c.d640 /\ d.fb = f.fb /\ d.ram = f.ram
    BY <1>0, <1>2, <1>3, <1>4, <1>5, <1>10, <1>12
  <2> QED
    BY <2>1, <2>2 DEF PairShown, DirtyPair
<1>13. DrawPre(d, order)
  <2>1. d.c.mode = 2 /\ ~d.c.forceFull /\ GraphicMode(d.r) = 2 /\ d.s.by = Renderer(d.r)
    BY <1>0, <1>2, <1>3, <1>5, <1>6
  <2> HIDE DEF order
  <2> QED
    BY <1>7, <1>8, <1>9, <1>11, <1>12, <2>1 DEF DrawPre
<1>14. IsFrame(e)
  BY <1>1, <1>2, <1>3 DEF IsFrame
<1> HIDE DEF order
<1>15. DrawPost(e, g, order)
  BY <1>13, <1>14, GraphicDraws DEF d
<1> HIDE DEF g
<1>16. /\ VgaGood(g) /\ g.r = f.r /\ g.ram = f.ram /\ g.s.lost = f.s.lost /\ g.c.mode = 2
       /\ order => g.rows = LcdLines
  BY <1>0, <1>2, <1>3, <1>15 DEF DrawPost, Drew, TurnedOk
<1>17. g.c.hold = 0
  <2>1. g.c.hold \in 0 .. 255 /\ ~(g.c.hold > 0)
    BY <1>16 DEF VgaGood, VgaShape, CachesOk, Orders
  <2> QED
    BY <2>1
<1>18. g.c.mode = f.c.mode => SameElsewhere(f, g)
  BY <1>2, <1>15, <1>16 DEF DrawPost, SameElsewhere, TurnedOk
<1>19. g.c.mode # f.c.mode \/ Owing(f) => order
  BY <1>16 DEF Owing, order, TurnedOk
<1>20. RefreshPost(f, g)
  BY <1>16, <1>17, <1>18, <1>19, SomeLines DEF RefreshPost
<1> QED
  BY <1>20 DEF g, e, order

\* A refresh that draws the text screen.
LEMMA TextDrawn ==
  ASSUME NEW f, VgaGood(f), NEW h, TurnedOk(f, h), NEW full \in BOOLEAN, NEW tick,
         h.c.mode = 1, h.c.hold = 0, h.c.mode # f.c.mode => full
  PROVE  RefreshPost(f, TextRefresh(h, full, tick))
<1> DEFINE g == TextRefresh(h, full, tick)
<1>0. /\ VgaShape(h) /\ VbeKept(h) /\ Orders(h) /\ h.s.by = "none"
  BY DEF TurnedOk
<1>1. ASSUME ~full, ~h.s.text PROVE TextShown(h)
  <2>1. h.c = f.c /\ h.fb = f.fb /\ h.r = f.r /\ f.c.mode = 1 /\ f.c.hold = 0 /\ ~f.s.text
    BY <1>1 DEF TurnedOk
  <2>2. TextShown(f)
    BY <2>1 DEF VgaGood, TextKept
  <2> QED
    BY <2>1, <2>2, TextSame
<1>1a. ASSUME ~h.s.text PROVE MarginBlank(h)
  <2>1. CASE h.c.mode = f.c.mode
    <3>1. h.c = f.c /\ h.fb = f.fb /\ f.c.mode = 1 /\ f.c.hold = 0 /\ ~f.s.text
      BY <1>1a, <2>1 DEF TurnedOk
    <3>2. TextShown(f)
      BY <3>1 DEF VgaGood, TextKept
    <3> QED
      BY <3>1, <3>2, Zenon DEF TextShown, MarginBlank
  <2>2. CASE h.c.mode # f.c.mode
    <3>1. h.fb = Dark
      BY <2>2 DEF TurnedOk
    <3> QED
      BY <3>1 DEF MarginBlank, Dark
  <2> QED
    BY <2>1, <2>2
<1>2. TextPre(h, full)
  BY <1>0, <1>1, <1>1a DEF TextPre
<1>3. TextPost(h, g, full)
  BY <1>2, TextRefreshes
<1> HIDE DEF g
<1>4. /\ VgaGood(g) /\ g.r = f.r /\ g.ram = f.ram /\ g.s.lost = f.s.lost
      /\ g.c.mode = 1 /\ g.c.hold = 0
  BY <1>3 DEF TextPost, Drew, TurnedOk
<1>5. g.c.mode = f.c.mode => SameElsewhere(f, g) \/ g.s.text
  BY <1>3, <1>4 DEF TextPost, SameElsewhere, TurnedOk
<1>6. g.c.mode # f.c.mode \/ Owing(f) => g.rows # {} \/ Owing(g)
  <2>1. CASE g.c.mode # f.c.mode
    <3>1. g.rows = LcdLines \/ g.s.text
      BY <1>3, <1>4, <2>1 DEF TextPost
    <3> QED
      BY <1>4, <3>1, SomeLines DEF Owing
  <2>2. CASE g.c.mode = f.c.mode /\ Owing(f)
    <3>1. f.s.text /\ h.s.text
      BY <1>4, <2>2 DEF Owing, TurnedOk
    <3>2. g.rows = LcdLines \/ g.s.text
      BY <1>3, <3>1 DEF TextPost
    <3> QED
      BY <1>4, <3>2, SomeLines DEF Owing
  <2> QED
    BY <2>1, <2>2
<1>7. ~g.s.text /\ f.s.text => g.rows = LcdLines
  <2>1. full \/ h.s.text = f.s.text
    BY DEF TurnedOk
  <2> QED
    BY <1>3, <2>1 DEF TextPost
<1>8. RefreshPost(f, g)
  BY <1>4, <1>5, <1>6, <1>7 DEF RefreshPost
<1> QED
  BY <1>8 DEF g

\* A refresh that ends the hold of the last graphic frame.
LEMMA HoldEnds ==
  ASSUME NEW f, VgaGood(f), NEW h, TurnedOk(f, h), NEW tick, h.c.mode = 1, h.c.hold > 0
  PROVE  RefreshPost(f, TextRefresh([h EXCEPT !.c.hold = 0, !.fb = Dark, !.s.text = FALSE], TRUE, tick))
<1> DEFINE none == 0
           no == FALSE
           e == [h EXCEPT !.c.hold = none, !.fb = Dark, !.s.text = no]
           g == TextRefresh(e, TRUE, tick)
<1>0. /\ VgaShape(h) /\ VbeKept(h) /\ Orders(h) /\ h.s.by = "none" /\ h.r = f.r /\ h.ram = f.ram
  BY DEF TurnedOk
<1>1. /\ DOMAIN h = {"r", "c", "ram", "fb", "rows", "s"}
      /\ DOMAIN h.r = RegFields /\ DOMAIN h.c = CacheFields /\ DOMAIN h.s = ShownFields
      /\ h.s.age \in Nat /\ none \in 0 .. 255 /\ ~(none > 0) /\ no \in BOOLEAN
  BY <1>0 DEF VgaShape, IsFrame, ShownOk
<1> HIDE DEF none, no
<1>2. /\ e.c = [h.c EXCEPT !.hold = none] /\ e.fb = Dark /\ e.r = h.r /\ e.ram = h.ram
      /\ e.rows = h.rows /\ e.s = [h.s EXCEPT !.text = no]
      /\ DOMAIN e = {"r", "c", "ram", "fb", "rows", "s"}
  BY <1>1
<1> HIDE DEF e
<1>2a. /\ DOMAIN e.s = ShownFields /\ e.s.text = no /\ e.s.by = h.s.by /\ e.s.band = h.s.band
       /\ e.s.pair = h.s.pair /\ e.s.age = h.s.age /\ e.s.lost = h.s.lost
  BY <1>1, <1>2 DEF ShownFields
<1>3. /\ e.c.mode = h.c.mode /\ e.c.forceFull = h.c.forceFull /\ e.c.quiet = h.c.quiet /\ e.c.hold = none
      /\ e.c.presents = h.c.presents /\ e.c.palDirty = h.c.palDirty /\ e.c.pal256 = h.c.pal256
      /\ e.c.d13 = h.c.d13 /\ e.c.d640 = h.c.d640
      /\ DOMAIN e.c = CacheFields
  BY <1>1, <1>2 DEF CacheFields
<1>4. /\ e.c.key640 = h.c.key640 /\ e.c.ch = h.c.ch /\ e.c.cur = h.c.cur
      /\ e.c.layout = h.c.layout
  BY <1>1, <1>2 DEF CacheFields
<1>5. VgaShape(e)
  <2>0. CachesOk(h.c)
    BY <1>0 DEF VgaShape
  <2>1. CachesOk(e.c)
    BY <1>1, <1>3, <1>4, <2>0, ZenonT(40) DEF CachesOk
  <2>2. IsFrame(e)
    BY <1>1, <1>2, <1>2a, <1>3 DEF IsFrame
  <2>3. ShownOk(e.s)
    BY <1>0, <1>1, <1>2a DEF VgaShape, ShownOk
  <2> QED
    BY <1>0, <1>2, <2>1, <2>2, <2>3, DarkPicture DEF VgaShape
<1>6. VbeKept(e) /\ Orders(e)
  BY <1>0, <1>1, <1>2, <1>2a, <1>3 DEF VbeKept, Orders
<1>7. TextPre(e, TRUE)
  <2>1. MarginBlank(e)
    BY <1>2 DEF MarginBlank, Dark
  <2> QED
    BY <1>0, <1>2, <1>2a, <1>3, <1>5, <1>6, <2>1 DEF TextPre, none
<1>8. TextPost(e, g, TRUE)
  BY <1>7, TextRefreshes
<1> HIDE DEF g
<1>9. /\ VgaGood(g) /\ g.r = f.r /\ g.ram = f.ram /\ g.s.lost = f.s.lost
      /\ g.c.mode = 1 /\ g.c.hold = 0
  BY <1>0, <1>2, <1>2a, <1>3, <1>8 DEF TextPost, Drew, TurnedOk
<1>10. g.rows = LcdLines \/ g.s.text
  BY <1>8 DEF TextPost
<1>11. g.rows # {} \/ Owing(g)
  BY <1>9, <1>10, SomeLines DEF Owing
<1>12. ~(f.c.mode = 1 /\ f.c.hold = 0)
  BY DEF TurnedOk
<1>13. RefreshPost(f, g)
  BY <1>9, <1>11, <1>12 DEF RefreshPost
<1> QED
  BY <1>13 DEF g, e, none, no

\* vga_refresh.
LEMMA Refreshes ==
  ASSUME NEW f, VgaGood(f), f.rows = {}, NEW full0 \in BOOLEAN, NEW tick
  PROVE  RefreshPost(f, Refresh(f, full0, tick))
<1> DEFINE h == Turned(f)
           full == full0 \/ h.c.mode # f.c.mode
           left == IF h.c.written THEN 0 ELSE h.c.hold - 1
           g == Refresh(f, full0, tick)
<1>1. TurnedOk(f, h)
  BY ModeTurns
<1>2. /\ h.c.mode = 2 /\ h.c.quiet > 0 => g = [h EXCEPT !.c.quiet = @ - 1]
      /\ h.c.mode = 2 /\ h.c.quiet = 0 => g = GraphicRefresh([h EXCEPT !.c.forceFull = FALSE], full \/ h.c.forceFull)
      /\ h.c.mode = 1 /\ h.c.hold = 0 => g = TextRefresh(h, full, tick)
      /\ h.c.mode = 1 /\ h.c.hold > 0 => g = HeldRefresh(h, tick)
      /\ h.c.mode = 0 => g = h
  <2> DEFINE a == [h EXCEPT !.c.quiet = @ - 1]
             b == GraphicRefresh([h EXCEPT !.c.forceFull = FALSE], full \/ h.c.forceFull)
             c == TextRefresh(h, full, tick)
             d == HeldRefresh(h, tick)
  <2>1. g = CASE h.c.mode = 2 /\ h.c.quiet > 0 -> a
              [] h.c.mode = 2 /\ h.c.quiet = 0 -> b
              [] h.c.mode = 1 /\ h.c.hold > 0 -> d
              [] h.c.mode = 1 /\ h.c.hold = 0 -> c
              [] OTHER -> h
    BY DEF Refresh, Turned
  <2>2. h.c.quiet \in Nat /\ h.c.hold \in 0 .. 255
    BY <1>1 DEF TurnedOk, VgaShape, CachesOk
  <2> DEFINE pa == h.c.mode = 2 /\ h.c.quiet > 0
             pb == h.c.mode = 2 /\ h.c.quiet = 0
             pc == h.c.mode = 1 /\ h.c.hold = 0
             pd == h.c.mode = 1 /\ h.c.hold > 0
             pf == h.c.mode = 0
  <2>3. g = CASE pa -> a [] pb -> b [] pd -> d [] pc -> c [] OTHER -> h
    BY <2>1
  <2> HIDE DEF g, h, a, b, c, d
  <2>4. /\ pa => ~pb /\ ~pc /\ ~pd
        /\ pb => ~pa /\ ~pc /\ ~pd
        /\ pc => ~pa /\ ~pb /\ ~pd
        /\ pd => ~pa /\ ~pb /\ ~pc
        /\ pf => ~pa /\ ~pb /\ ~pc /\ ~pd
    BY <2>2
  <2> HIDE DEF pa, pb, pc, pd, pf
  <2>5. /\ pa => g = a
        /\ pb => g = b
        /\ pc => g = c
        /\ pd => g = d
        /\ pf => g = h
    BY <2>3, <2>4, Zenon
  <2> QED
    BY <2>5 DEF a, b, c, d, pa, pb, pc, pd, pf
<1>3. /\ DOMAIN h = {"r", "c", "ram", "fb", "rows", "s"}
      /\ DOMAIN h.r = RegFields /\ DOMAIN h.c = CacheFields /\ DOMAIN h.s = ShownFields
      /\ h.c.quiet \in Nat /\ h.c.hold \in 0 .. 255 /\ h.c.mode \in 0 .. 2
  BY <1>1 DEF TurnedOk, VgaShape, IsFrame, CachesOk
<1>4. left \in 0 .. 255 \/ h.c.hold = 0
  BY <1>3 DEF HoldForever
<1>5. full \in BOOLEAN /\ (h.c.mode # f.c.mode => full)
  OBVIOUS
<1> SUFFICES RefreshPost(f, g)
  OBVIOUS
<1> HIDE DEF g, h, left, full
<1>6. CASE h.c.mode = 2 /\ h.c.quiet > 0
  <2>1. g = [h EXCEPT !.c.quiet = @ - 1]
    BY <1>2, <1>6
  <2> DEFINE less == h.c.quiet - 1
  <2>2. /\ g.c = [h.c EXCEPT !.quiet = less] /\ g.r = h.r /\ g.ram = h.ram /\ g.fb = h.fb
        /\ g.rows = h.rows /\ g.s = h.s /\ DOMAIN g = {"r", "c", "ram", "fb", "rows", "s"}
    BY <1>3, <2>1 DEF CacheFields
  <2>3. less \in Nat
    BY <1>3, <1>6
  <2> HIDE DEF less
  <2>4. /\ g.c.mode = h.c.mode /\ g.c.forceFull = h.c.forceFull /\ g.c.quiet = less /\ g.c.hold = h.c.hold
        /\ g.c.presents = h.c.presents /\ g.c.palDirty = h.c.palDirty /\ g.c.pal256 = h.c.pal256
        /\ g.c.d13 = h.c.d13 /\ g.c.d640 = h.c.d640 /\ DOMAIN g.c = CacheFields
    BY <1>3, <2>2 DEF CacheFields
  <2>5. /\ g.c.key640 = h.c.key640 /\ g.c.ch = h.c.ch /\ g.c.cur = h.c.cur
        /\ g.c.layout = h.c.layout
    BY <1>3, <2>2 DEF CacheFields
  <2>6. CachesOk(h.c) /\ Orders(h)
    BY <1>1 DEF TurnedOk, VgaShape
  <2>7. CachesOk(g.c)
    BY <2>3, <2>4, <2>5, <2>6, ZenonT(40) DEF CachesOk
  <2>8. IsFrame(g)
    BY <1>3, <2>2, <2>4 DEF IsFrame
  <2>9. g.c.forceFull /\ ~(g.c.hold > 0) /\ g.c.mode = 2
    BY <1>6, <2>4, <2>6 DEF Orders
  <2>10. /\ g.c.mode = 2 => g.c.forceFull
         /\ g.c.mode = 1 => g.c.hold > 0
         /\ g.c.quiet > 0 => g.c.forceFull
         /\ g.c.hold > 0 => g.c.mode # 2 /\ (g.c.mode # f.c.mode \/ f.c.hold > 0)
    BY <2>9
  <2> QED
    BY <1>1, <2>2, <2>4, <2>7, <2>8, <2>10, NothingDrawn, Zenon
<1>7. CASE h.c.mode = 2 /\ h.c.quiet = 0
  <2>1. g = GraphicRefresh([h EXCEPT !.c.forceFull = FALSE], full \/ h.c.forceFull)
    BY <1>2, <1>7
  <2> QED
    BY <1>1, <1>5, <1>7, <2>1, GraphicsDrawn
<1>8. CASE h.c.mode = 1 /\ h.c.hold = 0
  <2>1. g = TextRefresh(h, full, tick)
    BY <1>2, <1>8
  <2> QED
    BY <1>1, <1>5, <1>8, <2>1, TextDrawn
<1>9. CASE h.c.mode = 1 /\ h.c.hold > 0 /\ h.c.hold # HoldForever /\ left > 0
  <2>0. ~(h.c.written \/ h.c.hold = 1) /\ left = h.c.hold - 1
    BY <1>3, <1>9 DEF left
  <2>1. g = [h EXCEPT !.c.hold = left]
    <3>1. g = [h EXCEPT !.c.hold = @ - 1]
      BY <1>2, <1>9, <2>0 DEF HeldRefresh
    <3> QED
      BY <2>0, <3>1
  <2>2. /\ g.c = [h.c EXCEPT !.hold = left] /\ g.r = h.r /\ g.ram = h.ram /\ g.fb = h.fb
        /\ g.rows = h.rows /\ g.s = h.s /\ DOMAIN g = {"r", "c", "ram", "fb", "rows", "s"}
    BY <1>3, <2>1
  <2>3. left \in 0 .. 255
    BY <1>3, <1>4, <1>9
  <2>4. /\ g.c.mode = h.c.mode /\ g.c.forceFull = h.c.forceFull /\ g.c.quiet = h.c.quiet /\ g.c.hold = left
        /\ g.c.presents = h.c.presents /\ g.c.palDirty = h.c.palDirty /\ g.c.pal256 = h.c.pal256
        /\ g.c.d13 = h.c.d13 /\ g.c.d640 = h.c.d640 /\ DOMAIN g.c = CacheFields
    BY <1>3, <2>2 DEF CacheFields
  <2>5. /\ g.c.key640 = h.c.key640 /\ g.c.ch = h.c.ch /\ g.c.cur = h.c.cur
        /\ g.c.layout = h.c.layout
    BY <1>3, <2>2 DEF CacheFields
  <2>6. CachesOk(h.c) /\ Orders(h)
    BY <1>1 DEF TurnedOk, VgaShape
  <2>7. CachesOk(g.c)
    BY <2>3, <2>4, <2>5, <2>6, ZenonT(40) DEF CachesOk
  <2>8. IsFrame(g)
    BY <1>3, <2>2, <2>4 DEF IsFrame
  <2>9. /\ g.c.mode = 1 /\ g.c.hold > 0 /\ (g.c.quiet > 0 => g.c.forceFull)
        /\ g.c.mode # 2
    BY <1>9, <2>4, <2>6 DEF Orders
  <2>10. g.c.mode # f.c.mode \/ f.c.hold > 0
    BY <1>1, <1>9, <2>4 DEF TurnedOk
  <2> QED
    BY <1>1, <2>2, <2>4, <2>7, <2>8, <2>9, <2>10, NothingDrawn
<1>10. CASE h.c.mode = 1 /\ h.c.hold > 0 /\ h.c.hold # HoldForever /\ left = 0
  <2>0. h.c.written \/ h.c.hold = 1
    BY <1>3, <1>10 DEF left
  <2>1. g = TextRefresh([h EXCEPT !.c.hold = 0, !.fb = Dark, !.s.text = FALSE], TRUE, tick)
    BY <1>2, <1>10, <2>0 DEF HeldRefresh
  <2> QED
    BY <1>1, <1>10, <2>1, HoldEnds
<1>11. CASE h.c.mode = 0 \/ (h.c.mode = 1 /\ h.c.hold > 0 /\ h.c.hold = HoldForever)
  <2>1. g = h
    BY <1>2, <1>11 DEF HeldRefresh
  <2>2. CachesOk(h.c) /\ Orders(h) /\ IsFrame(h)
    BY <1>1 DEF TurnedOk, VgaShape
  <2>3. g.c.hold > 0 => g.c.mode # f.c.mode \/ f.c.hold > 0
    BY <1>1, <2>1 DEF TurnedOk
  <2>4. g.c.quiet > 0 => g.c.forceFull
    BY <2>1, <2>2 DEF Orders
  <2>5. g.c.mode # 2 /\ (g.c.mode = 1 => g.c.hold > 0)
    BY <1>11, <2>1
  <2> QED
    BY <1>1, <2>1, <2>2, <2>3, <2>4, <2>5, NothingDrawn
<1>12. /\ h.c.mode = 0 \/ h.c.mode = 1 \/ h.c.mode = 2
       /\ h.c.quiet > 0 \/ h.c.quiet = 0
       /\ h.c.hold > 0 \/ h.c.hold = 0
  BY <1>3
<1>13. left > 0 \/ left = 0 \/ h.c.hold = 0
  BY <1>4
<1> QED
  BY <1>6, <1>7, <1>8, <1>9, <1>10, <1>11, <1>12, <1>13, Zenon

-----------------------------------------------------------------------------
(***************************************************************************)
(* The front end.                                                          *)
(***************************************************************************)
\* The frame is made of the variables.
LEMMA FrameIs ==
  /\ Frame.r = vr /\ Frame.c = vc /\ Frame.ram = vram /\ Frame.fb = fb /\ Frame.rows = {}
  /\ Frame.s = shown /\ DOMAIN Frame = {"r", "c", "ram", "fb", "rows", "s"}
BY DEF Frame

\* A goodness that looks at neither the rows nor what TI-OS took.
LEMMA SameGood ==
  ASSUME NEW g, VgaGood(g), NEW e, DOMAIN e = {"r", "c", "ram", "fb", "rows", "s"},
         e.r = g.r /\ e.c = g.c /\ e.ram = g.ram /\ e.fb = g.fb,
         NEW lost \in BOOLEAN, e.s = [g.s EXCEPT !.lost = lost]
  PROVE  VgaGood(e)
<1>1. DOMAIN g.s = ShownFields /\ VgaShape(g)
  BY DEF VgaGood, VgaShape, IsFrame
<1>2. /\ e.s.by = g.s.by /\ e.s.band = g.s.band /\ e.s.pair = g.s.pair /\ e.s.text = g.s.text
      /\ e.s.age = g.s.age /\ e.s.lost = lost /\ DOMAIN e.s = ShownFields
  BY <1>1 DEF ShownFields
<1>3. VgaShape(e)
  <2>1. ShownOk(e.s)
    BY <1>1, <1>2 DEF VgaShape, ShownOk
  <2>2. IsFrame(e)
    BY <1>1, <1>2 DEF VgaShape, IsFrame
  <2> QED
    BY <1>1, <2>1, <2>2 DEF VgaShape
<1>4. BandKept(e) /\ PairKept(e)
  <2>1. BandShown(g) => BandShown(e)
    BY DEF BandShown
  <2>2. PairShown(g) => PairShown(e)
    BY DEF PairShown
  <2> QED
    BY <1>2, <2>1, <2>2 DEF VgaGood, BandKept, PairKept
<1>5. VbeKept(e) /\ TextKept(e) /\ Orders(e)
  <2>1. TextShown(g) => TextShown(e)
    BY <1>2, TextSame
  <2> QED
    BY <1>2, <2>1 DEF VgaGood, VbeKept, VbePicture, TextKept, Orders
<1>6. Drawn(e)
  BY <1>2 DEF VgaGood, Drawn, BandPicture, PairPicture, TextPicture
<1> QED
  BY <1>3, <1>4, <1>5, <1>6 DEF VgaGood

\* redraw, flush_redraw and keep_lcd after a refresh.
LEMMA Presents ==
  ASSUME VgaInv, NEW f, VgaGood(f), f.c = vc, f.s = shown, f.fb = fb, f.ram = vram,
         NEW g, RefreshPost(f, g), NEW ok \in BOOLEAN, NEW retry \in BOOLEAN, NEW keep \in BOOLEAN,
         Present(g, ok, retry, keep)
  PROVE  VgaInv'
<1> DEFINE changed == front.modeChanged \/ g.c.mode # vc.mode
           called == g.rows # {}
           full == called /\ (changed \/ 4 * Cardinality(g.rows) >= 3 * LcdRows)
           first == called /\ ~front.ready
           drawn == called /\ Claimed(front.active, first, retry, ok)
           active == IF called THEN drawn ELSE front.active
           reclaim == /\ front.ready \/ called
                      /\ ~(changed /\ ~called) /\ keep /\ ~drawn /\ (~active \/ retry) /\ ok
           whole == reclaim \/ (drawn /\ (first \/ full))
           gone == ~reclaim /\ ~(drawn /\ (first \/ full)) /\ (g.s.lost \/ (called /\ ~drawn))
<1>1. /\ lcd' = IF whole THEN g.fb
                ELSE IF drawn THEN [y \in LcdLines |-> IF y \in g.rows THEN g.fb[y] ELSE lcd[y]]
                ELSE lcd
      /\ front'.modeChanged = (changed /\ ~called)
      /\ DOMAIN front' = {"ready", "active", "modeChanged", "pending"}
      /\ shown' = [g.s EXCEPT !.lost = gone]
      /\ vr' = g.r /\ vc' = g.c /\ fb' = g.fb /\ vram' = vram
  BY DEF Present
<1>2. /\ whole \in BOOLEAN /\ drawn \in BOOLEAN /\ called \in BOOLEAN
      /\ changed = (front.modeChanged \/ g.c.mode # vc.mode)
      /\ called = (g.rows # {})
      /\ drawn => called
      /\ drawn /\ changed => whole
      /\ reclaim => ~changed \/ called
      /\ gone = (~whole /\ (g.s.lost \/ (called /\ ~drawn)))
      /\ gone \in BOOLEAN /\ changed \in BOOLEAN
      /\ whole /\ ~called => ~changed
  <2> HIDE DEF drawn
  <2>1. drawn \in BOOLEAN /\ (drawn => called)
    BY DEF drawn
  <2> QED
    BY <2>1
<1> HIDE DEF changed, called, full, first, drawn, active, reclaim, whole, gone
<1>3. VgaGood(g) /\ DOMAIN g.s = ShownFields /\ g.r = f.r /\ g.ram = f.ram /\ g.s.lost = f.s.lost
  BY DEF RefreshPost, VgaGood, VgaShape, IsFrame
<1>4. /\ shown'.text = g.s.text /\ shown'.lost = gone
  BY <1>1, <1>3 DEF ShownFields
<1>5. VgaGood(Frame)'
  <2>1. /\ Frame'.r = g.r /\ Frame'.c = g.c /\ Frame'.ram = g.ram /\ Frame'.fb = g.fb
        /\ Frame'.s = [g.s EXCEPT !.lost = gone]
        /\ DOMAIN Frame' = {"r", "c", "ram", "fb", "rows", "s"}
    BY <1>1, <1>3 DEF Frame
  <2> QED
    BY <1>2, <1>3, <2>1, SameGood
<1>6. FrontKept'
  <2>1. /\ front.modeChanged \in BOOLEAN /\ (front.modeChanged => Owing(f))
        /\ vc.hold > 0 => front.modeChanged
        /\ ~shown.lost /\ ~front.modeChanged /\ ~(vc.mode = 1 /\ shown.text) => lcd = fb
    BY FrameIs DEF VgaInv, FrontKept, Owing
  <2>2. changed => called \/ Owing(g)
    BY <1>2, <2>1 DEF RefreshPost
  <2>3. (front.modeChanged => Owing(Frame))'
    BY <1>1, <1>2, <1>4, <2>2, FrameIs DEF Owing, Frame
  <2>4. (vc.hold > 0 => front.modeChanged)'
    BY <1>1, <1>2, <2>1 DEF RefreshPost
  <2>5. ASSUME ~shown'.lost, ~front'.modeChanged, ~(vc'.mode = 1 /\ shown'.text)
        PROVE  lcd' = fb'
    <3>0. ~gone /\ ~(changed /\ ~called) /\ ~(g.c.mode = 1 /\ g.s.text)
      BY <1>1, <1>4, <2>5
    <3>1. CASE whole
      BY <1>1, <3>1
    <3>2. CASE ~whole
      <4>1. ~shown.lost /\ (called => drawn) /\ ~changed
        BY <1>2, <1>3, <3>0, <3>2
      <4>2. ~front.modeChanged /\ g.c.mode = vc.mode /\ ~(vc.hold > 0)
        BY <1>2, <2>1, <4>1
      <4>3. f.c.hold = 0
        <5>1. f.c.hold \in 0 .. 255
          BY DEF VgaGood, VgaShape, CachesOk
        <5> QED
          BY <4>2, <5>1
      <4>4. SameElsewhere(f, g)
        BY <3>0, <4>2, <4>3 DEF RefreshPost
      <4>5. IsPicture(g.fb) /\ IsPicture(fb)
        BY <1>3 DEF VgaGood, VgaShape
      <4>6. lcd' = [y \in LcdLines |-> IF y \in g.rows THEN g.fb[y] ELSE lcd[y]] \/ (g.rows = {} /\ lcd' = lcd)
        BY <1>1, <1>2, <3>2, <4>1
      <4>7. CASE vc.mode = 1 /\ shown.text
        <5>1. g.rows = LcdLines
          BY <3>0, <4>2, <4>3, <4>7 DEF RefreshPost
        <5>2. lcd' = [y \in LcdLines |-> g.fb[y]]
          BY <4>6, <5>1, SomeLines
        <5> QED
          BY <1>1, <4>5, <5>2 DEF IsPicture
      <4>8. CASE ~(vc.mode = 1 /\ shown.text)
        <5>1. lcd = fb
          BY <2>1, <4>1, <4>2, <4>8
        <5>2. \A y \in LcdLines : y \notin g.rows => g.fb[y] = fb[y]
          BY <4>4 DEF SameElsewhere
        <5>3. lcd' = [y \in LcdLines |-> g.fb[y]]
          <6>1. CASE lcd' = [y \in LcdLines |-> IF y \in g.rows THEN g.fb[y] ELSE lcd[y]]
            BY <5>1, <5>2, <6>1
          <6>2. CASE g.rows = {} /\ lcd' = lcd
            <7>1. lcd' = [y \in LcdLines |-> fb[y]]
              BY <4>5, <5>1, <6>2 DEF IsPicture
            <7> QED
              BY <5>2, <6>2, <7>1
          <6> QED
            BY <4>6, <6>1, <6>2
        <5> QED
          BY <1>1, <4>5, <5>3 DEF IsPicture
      <4> QED
        BY <4>7, <4>8
    <3> QED
      BY <3>1, <3>2
  <2>6. front'.modeChanged \in BOOLEAN
    BY <1>1, <1>2
  <2> QED
    BY <1>1, <2>3, <2>4, <2>5, <2>6 DEF FrontKept
<1> QED
  BY <1>5, <1>6 DEF VgaInv

-----------------------------------------------------------------------------
(***************************************************************************)
(* The guest.                                                              *)
(***************************************************************************)
\* A step of the guest: nothing is drawn, and the last refresh no longer counts.
LEMMA GuestKept ==
  ASSUME VgaInv, UNCHANGED <<fb, lcd, front>>,
         DOMAIN vr' = RegFields, RegsOk(vr'), DOMAIN vc' = CacheFields, CachesOk(vc'),
         vram' \in [0 .. VramWords - 1 -> Words], DOMAIN shown' = ShownFields, ShownOk(shown'),
         /\ shown'.by = "none" /\ shown'.age = 0 /\ shown'.lost = shown.lost
         /\ (shown.text => shown'.text),
         /\ vc'.mode = vc.mode /\ vc'.hold = vc.hold /\ (vc.forceFull => vc'.forceFull)
         /\ vc'.layout = vc.layout /\ vc'.cur = vc.cur /\ vc'.ch = vc.ch /\ vc'.pal16 = vc.pal16,
         ~shown'.text => /\ vr'.font = vr.font
                         /\ vr'.cursor = vr.cursor \/ vc.layout = <<>> \/ vc.layout[1] = TextCols,
         vc'.quiet > 0 => vc'.forceFull,
         vc'.palDirty \/ vc'.pal256 = -1 \/ vc'.pal256 = vr'.dac,
         BandKept(Frame'), PairKept(Frame')
  PROVE  VgaInv'
<1> DEFINE g == Frame'
<1>1. /\ g.r = vr' /\ g.c = vc' /\ g.ram = vram' /\ g.fb = fb /\ g.rows = {} /\ g.s = shown'
      /\ DOMAIN g = {"r", "c", "ram", "fb", "rows", "s"}
  BY DEF Frame
<1>2. BandKept(g) /\ PairKept(g)
  OBVIOUS
<1> HIDE DEF g
<1>3. VgaGood(Frame) /\ FrontKept
  BY DEF VgaInv
<1>4. VgaShape(g)
  <2>1. IsPicture(g.fb)
    BY <1>1, <1>3, FrameIs DEF VgaGood, VgaShape
  <2> QED
    BY <1>1, <2>1 DEF VgaShape, IsFrame
<1>5. VbeKept(g) /\ Drawn(g)
  BY <1>1 DEF VbeKept, Drawn
<1>6. Orders(g)
  BY <1>1, <1>3, FrameIs DEF VgaGood, Orders
<1>7. TextKept(g)
  <2> SUFFICES ASSUME g.c.mode = 1, g.c.hold = 0, ~g.s.text PROVE TextShown(g)
    BY DEF TextKept
  <2>1. TextShown(Frame)
    BY <1>1, <1>3, FrameIs DEF VgaGood, TextKept
  <2>2. vc.layout # <<>>
    BY <2>1, FrameIs DEF TextShown
  <2>3. /\ g.fb = Frame.fb /\ g.r.font = Frame.r.font
        /\ Frame.c.layout[1] = TextCols \/ g.r.cursor = Frame.r.cursor
        /\ g.c.layout = Frame.c.layout /\ g.c.cur = Frame.c.cur /\ g.c.ch = Frame.c.ch
        /\ g.c.pal16 = Frame.c.pal16
    BY <1>1, <2>2, FrameIs
  <2> QED
    BY <2>1, <2>3, TextSame, Zenon
<1>8. VgaGood(g)
  BY <1>2, <1>4, <1>5, <1>6, <1>7 DEF VgaGood
<1>9. FrontKept'
  <2>1. (front.modeChanged => Owing(Frame))'
    BY <1>3, FrameIs DEF FrontKept, Owing, Frame
  <2> QED
    BY <1>3, <2>1 DEF FrontKept
<1> QED
  BY <1>8, <1>9 DEF VgaInv, g

\* The state the proof starts from.
LEMMA GoodState ==
  ASSUME VgaInv
  PROVE  /\ DOMAIN vr = RegFields /\ RegsOk(vr) /\ DOMAIN vc = CacheFields /\ CachesOk(vc)
         /\ vram \in [0 .. VramWords - 1 -> Words] /\ DOMAIN shown = ShownFields /\ ShownOk(shown)
         /\ vc.quiet > 0 => vc.forceFull
         /\ vc.palDirty \/ vc.pal256 = -1 \/ vc.pal256 = vr.dac
         /\ BandKept(Frame) /\ PairKept(Frame)
BY FrameIs DEF VgaInv, VgaGood, VgaShape, IsFrame, Orders

\* vga_dirty_palette.
LEMMA DirtyPaletteIs ==
  ASSUME NEW c, DOMAIN c = CacheFields, CachesOk(c), NEW d, d = DirtyPalette(c)
  PROVE  /\ DOMAIN d = CacheFields /\ CachesOk(d) /\ d.palDirty /\ d.forceFull
         /\ d.mode = c.mode /\ d.hold = c.hold
         /\ d.layout = c.layout /\ d.cur = c.cur /\ d.ch = c.ch /\ d.pal16 = c.pal16
<1> DEFINE yes == TRUE
           q == QuietPolls
<1>0. d = [c EXCEPT !.palDirty = yes, !.forceFull = yes, !.quiet = q]
  BY DEF DirtyPalette
<1>1. q \in Nat /\ yes \in BOOLEAN /\ yes
  BY VgaAssumption
<1> HIDE DEF yes, q
<1>2. /\ DOMAIN d = CacheFields /\ d.palDirty = yes /\ d.forceFull = yes /\ d.quiet = q
      /\ d.mode = c.mode /\ d.hold = c.hold /\ d.presents = c.presents /\ d.pal256 = c.pal256
      /\ d.d13 = c.d13 /\ d.d640 = c.d640
  BY <1>0 DEF CacheFields
<1>3. /\ d.layout = c.layout /\ d.cur = c.cur /\ d.ch = c.ch /\ d.pal16 = c.pal16
      /\ d.key640 = c.key640
  BY <1>0 DEF CacheFields
<1>4. CachesOk(d)
  BY <1>1, <1>2, <1>3, ZenonT(40) DEF CachesOk
<1> QED
  BY <1>1, <1>2, <1>3, <1>4

\* A register write: what it does to the history.
LEMMA RegistersSeen ==
  ASSUME VgaInv, NEW r, Registers(r)
  PROVE  /\ vr' = r /\ UNCHANGED <<fb, lcd, front, vram>>
         /\ DOMAIN shown' = ShownFields /\ ShownOk(shown')
         /\ shown'.by = "none" /\ shown'.age = 0 /\ shown'.lost = shown.lost
         /\ shown.text => shown'.text
         /\ ~shown'.text => /\ r.font = vr.font
                            /\ r.cursor = vr.cursor \/ vc.layout = <<>> \/ vc.layout[1] = TextCols
         /\ ~shown'.band => ~shown.band /\ r.start = vr.start /\ r.line = vr.line
         /\ shown'.pair = shown.pair
<1> DEFINE band == shown.band \/ r.start # vr.start \/ r.line # vr.line
           text == \/ shown.text \/ r.font # vr.font \/ Reshaped(r)
                   \/ /\ r.cursor # vr.cursor
                      /\ vc.layout # <<>> /\ vc.layout[1] # TextCols
<1>1. DOMAIN shown = ShownFields /\ ShownOk(shown)
  BY GoodState
<1>2. /\ vr' = r /\ UNCHANGED <<fb, lcd, front, vram>>
      /\ shown' = [Unseen EXCEPT !.band = Unseen.band \/ r.start # vr.start \/ r.line # vr.line,
                                 !.text = \/ Unseen.text \/ r.font # vr.font \/ Reshaped(r)
                                          \/ /\ r.cursor # vr.cursor
                                             /\ vc.layout # <<>> /\ vc.layout[1] # TextCols]
  BY DEF Registers
<1>3. Unseen.band = shown.band /\ Unseen.text = shown.text
  BY <1>1 DEF Unseen, ShownFields
<1>4. shown' = [Unseen EXCEPT !.band = band, !.text = text]
  BY <1>2, <1>3
<1>5. band \in BOOLEAN /\ text \in BOOLEAN
  BY <1>1 DEF ShownOk, Reshaped
<1> HIDE DEF band, text
<1>6. /\ shown'.by = "none" /\ shown'.age = 0 /\ shown'.lost = shown.lost /\ shown'.band = band
      /\ shown'.pair = shown.pair /\ shown'.text = text /\ DOMAIN shown' = ShownFields
  BY <1>1, <1>4 DEF Unseen, ShownFields
<1>7. ShownOk(shown')
  BY <1>1, <1>5, <1>6 DEF ShownOk
<1> QED
  BY <1>1, <1>2, <1>6, <1>7 DEF band, text

\* vga_ioport_write, vbe_write: a register other than a colour.
LEMMA RegistersKept ==
  ASSUME VgaInv, NEW r \in VgaRegs, r.dac = vr.dac, WriteRegisters(r)
  PROVE  VgaInv'
<1>1. Registers(r) /\ vc' = vc
  BY DEF WriteRegisters
<1>2. DOMAIN r = RegFields /\ RegsOk(r)
  BY DEF VgaRegs, RegFields, RegsOk
<1>3. /\ Frame'.r = r /\ Frame'.c = vc /\ Frame'.ram = vram /\ Frame'.fb = fb /\ Frame'.s = shown'
  BY <1>1, RegistersSeen DEF Frame
<1>4. BandKept(Frame')
  <2> SUFFICES ASSUME vc.mode = 2, ~vc.forceFull, ~shown'.band PROVE BandShown(Frame')
    BY <1>3 DEF BandKept
  <2>1. ~shown.band /\ r.start = vr.start /\ r.line = vr.line
    BY <1>1, RegistersSeen
  <2>2. BandShown(Frame)
    BY <2>1, GoodState, FrameIs DEF BandKept
  <2> QED
    BY <1>3, <2>1, <2>2, FrameIs DEF BandShown, BandRow
<1>5. PairKept(Frame')
  <2>1. shown'.pair = shown.pair
    BY <1>1, RegistersSeen
  <2>2. PairShown(Frame) => PairShown(Frame')
    BY <1>3, FrameIs DEF PairShown
  <2> QED
    BY <1>3, <2>1, <2>2, GoodState, FrameIs DEF PairKept
<1>6. vc.forceFull => vc'.forceFull
  BY <1>1
<1> QED
  BY <1>1, <1>2, <1>4, <1>5, <1>6, RegistersSeen, GoodState, GuestKept

\* The third byte of a colour.
LEMMA DacKept ==
  ASSUME VgaInv, NEW v \in Nat, WriteDac(v)
  PROVE  VgaInv'
<1> DEFINE r == [vr EXCEPT !.dac = v]
<1>1. Registers(r) /\ vc' = DirtyPalette(vc)
  BY DEF WriteDac
<1>2. DOMAIN vr = RegFields /\ RegsOk(vr)
  BY GoodState
<1>3. DOMAIN r = RegFields /\ RegsOk(r)
  BY <1>2 DEF RegFields, RegsOk
<1> HIDE DEF r
<1>4. Frame'.c = vc'
  BY DEF Frame
<1>5. /\ DOMAIN vc' = CacheFields /\ CachesOk(vc') /\ vc'.palDirty /\ vc'.forceFull
      /\ vc'.mode = vc.mode /\ vc'.hold = vc.hold
      /\ vc'.layout = vc.layout /\ vc'.cur = vc.cur /\ vc'.ch = vc.ch /\ vc'.pal16 = vc.pal16
  BY <1>1, GoodState, DirtyPaletteIs
<1>6. BandKept(Frame') /\ PairKept(Frame')
  BY <1>4, <1>5 DEF BandKept, PairKept
<1> QED
  BY <1>1, <1>3, <1>5, <1>6, RegistersSeen, GoodState, GuestKept

\* The two history flags of a write that the renderers may not notice.
LEMMA UnseenFlags ==
  ASSUME VgaInv, NEW band \in BOOLEAN, NEW pair \in BOOLEAN,
         shown' = [Unseen EXCEPT !.band = band, !.pair = pair]
  PROVE  /\ DOMAIN shown' = ShownFields /\ ShownOk(shown')
         /\ shown'.by = "none" /\ shown'.age = 0 /\ shown'.lost = shown.lost
         /\ shown'.text = shown.text /\ shown'.band = band /\ shown'.pair = pair
<1>1. DOMAIN shown = ShownFields /\ ShownOk(shown)
  BY GoodState
<1>2. /\ DOMAIN shown' = ShownFields
      /\ shown'.by = "none" /\ shown'.age = 0 /\ shown'.lost = shown.lost
      /\ shown'.text = shown.text /\ shown'.band = band /\ shown'.pair = pair
  BY <1>1 DEF Unseen, ShownFields
<1> QED
  BY <1>1, <1>2 DEF ShownOk

\* VBE_DISPI_INDEX_ENABLE.
LEMMA EnableKept ==
  ASSUME VgaInv, NEW on \in BOOLEAN, NEW high \in BOOLEAN, NEW clear \in BOOLEAN, NEW v \in Nat,
         VbeEnable(on, high, clear, v)
  PROVE  VgaInv'
<1>0. /\ DOMAIN vr = RegFields /\ RegsOk(vr) /\ DOMAIN vc = CacheFields /\ CachesOk(vc)
      /\ vram \in [0 .. VramWords - 1 -> Words]
      /\ vc.quiet > 0 => vc.forceFull
      /\ vc.palDirty \/ vc.pal256 = -1 \/ vc.pal256 = vr.dac
  BY GoodState
<1>1. /\ shown' = [Unseen EXCEPT !.band = TRUE, !.pair = TRUE, !.text = Unseen.text \/ Reshaped(vr')]
      /\ UNCHANGED <<fb, lcd, front>>
  BY DEF VbeEnable
<1>2. /\ DOMAIN shown' = ShownFields /\ ShownOk(shown')
      /\ shown'.by = "none" /\ shown'.age = 0 /\ shown'.lost = shown.lost
      /\ (shown.text => shown'.text) /\ shown'.band /\ shown'.pair
  <2> DEFINE text == Unseen.text \/ Reshaped(vr')
             yes == TRUE
  <2>1. DOMAIN shown = ShownFields /\ ShownOk(shown)
    BY GoodState
  <2>2. Unseen.text = shown.text
    BY <2>1 DEF Unseen, ShownFields
  <2>3. text \in BOOLEAN /\ yes \in BOOLEAN /\ yes /\ (shown.text => text)
    BY <2>1, <2>2 DEF ShownOk, Reshaped
  <2>4. shown' = [Unseen EXCEPT !.band = yes, !.pair = yes, !.text = text]
    BY <1>1
  <2> HIDE DEF text, yes
  <2>5. /\ DOMAIN shown' = ShownFields
        /\ shown'.by = "none" /\ shown'.age = 0 /\ shown'.lost = shown.lost
        /\ shown'.text = text /\ shown'.band = yes /\ shown'.pair = yes
    BY <2>1, <2>4 DEF Unseen, ShownFields
  <2> QED
    BY <2>1, <2>3, <2>5 DEF ShownOk
<1>3. /\ DOMAIN vr' = RegFields /\ RegsOk(vr') /\ vr'.dac = v /\ vr'.font = vr.font
      /\ vr'.cursor = vr.cursor
  <2> DEFINE at == IF vr.vbe THEN vr.vstart ELSE 0
             geo == IF high THEN "high" ELSE "odd"
  <2>1. at \in Nat
    BY <1>0 DEF RegsOk
  <2>2. vr' = IF on THEN [vr EXCEPT !.vbe = TRUE, !.gfx = TRUE, !.shift = 2, !.chain = TRUE,
                                    !.planes = TRUE, !.line = vr.vline, !.dac = v,
                                    !.vstart = at, !.geo = geo]
              ELSE [vr EXCEPT !.vbe = FALSE, !.dac = v]
    BY <1>0 DEF VbeEnable, RegFields
  <2> HIDE DEF at, geo
  <2>3. CASE on
    <3>1. vr' = [vr EXCEPT !.vbe = TRUE, !.gfx = TRUE, !.shift = 2, !.chain = TRUE,
                           !.planes = TRUE, !.line = vr.vline, !.dac = v,
                           !.vstart = at, !.geo = geo]
      BY <2>2, <2>3
    <3>2. /\ DOMAIN vr' = RegFields /\ vr'.dac = v /\ vr'.font = vr.font /\ vr'.cursor = vr.cursor
          /\ vr'.start = vr.start /\ vr'.line = vr.vline /\ vr'.vline = vr.vline /\ vr'.vstart = at
          /\ vr'.tall = vr.tall
      BY <1>0, <3>1 DEF RegFields
    <3> QED
      BY <1>0, <2>1, <3>2 DEF RegsOk
  <2>4. CASE ~on
    <3>1. vr' = [vr EXCEPT !.vbe = FALSE, !.dac = v]
      BY <2>2, <2>4
    <3>2. /\ DOMAIN vr' = RegFields /\ vr'.dac = v /\ vr'.font = vr.font /\ vr'.cursor = vr.cursor
          /\ vr'.start = vr.start /\ vr'.line = vr.line /\ vr'.vline = vr.vline
          /\ vr'.vstart = vr.vstart /\ vr'.tall = vr.tall
      BY <1>0, <3>1 DEF RegFields
    <3> QED
      BY <1>0, <3>2 DEF RegsOk
  <2> QED
    BY <2>3, <2>4
<1>4. vram' \in [0 .. VramWords - 1 -> Words]
  <2>1. vram' = IF clear THEN [a \in DOMAIN vram |-> 0] ELSE vram
    BY DEF VbeEnable
  <2> QED
    BY <1>0, <2>1, VgaAssumption
<1>5. /\ DOMAIN vc' = CacheFields /\ CachesOk(vc')
      /\ vc'.mode = vc.mode /\ vc'.hold = vc.hold /\ (vc.forceFull => vc'.forceFull)
      /\ vc'.layout = vc.layout /\ vc'.cur = vc.cur /\ vc'.ch = vc.ch /\ vc'.pal16 = vc.pal16
      /\ vc'.quiet > 0 => vc'.forceFull
      /\ vc'.palDirty \/ vc'.pal256 = -1 \/ vc'.pal256 = vr'.dac
  <2>1. CASE v # vr.dac
    <3>1. vc' = DirtyPalette(vc)
      BY <2>1 DEF VbeEnable
    <3> QED
      BY <1>0, <3>1, DirtyPaletteIs
  <2>2. CASE v = vr.dac
    <3>1. vc' = vc
      BY <2>2 DEF VbeEnable
    <3> QED
      BY <1>0, <1>3, <2>2, <3>1
  <2> QED
    BY <2>1, <2>2
<1>6. BandKept(Frame') /\ PairKept(Frame')
  BY <1>2 DEF BandKept, PairKept, Frame
<1>7. (shown.text => shown'.text) /\ (~shown'.text => vr'.font = vr.font /\ vr'.cursor = vr.cursor)
  BY <1>2, <1>3
<1> QED
  BY <1>1, <1>2, <1>3, <1>4, <1>5, <1>6, <1>7, GuestKept

\* The band after a write that marked its lines.
LEMMA BandMarked ==
  ASSUME NEW f, VgaShape(f), BandShown(f), NEW a \in Nat, NEW n \in Nat,
         NEW g, g.r = f.r, g.fb = f.fb, g.c.pal256 = f.c.pal256,
         g.c.d13 = Widened(f.c.d13, Lines(f.r, a, n, 1) \cap 0 .. BandRows - 1),
         \A x \in 0 .. VramWords - 1 : x \notin Covered(a, n) => g.ram[x] = f.ram[x]
  PROVE  BandShown(g)
<1> DEFINE ys == Lines(f.r, a, n, 1) \cap 0 .. BandRows - 1
           d == Widened(f.c.d13, ys)
<1>1. /\ f.r.start \in Nat /\ f.r.line \in Nat \ {0} /\ IsSpan(f.c.d13)
      /\ InRam(f.r.start + f.r.line * (BandRows - 1)) /\ BandRows - 1 \in Nat
      /\ Top(BandRows) \in Int
  <2>1. f.r.start \in Nat /\ f.r.line \in Nat /\ IsSpan(f.c.d13)
    BY DEF VgaShape, RegsOk, CachesOk
  <2>2. f.r.line > 0 /\ InRam(f.r.start + f.r.line * (BandRows - 1))
    BY DEF BandShown
  <2>3. BandRows - 1 \in Nat /\ Top(BandRows) \in Int
    BY VgaTypes, TopType
  <2> QED
    BY <2>1, <2>2, <2>3
<1>2. /\ IsSpan(d) /\ \A y \in ys : d.min <= y /\ y <= d.max
      /\ d.min <= f.c.d13.min /\ f.c.d13.max <= d.max
  <2>1. ys \subseteq 0 .. BandRows - 1
    OBVIOUS
  <2> HIDE DEF ys
  <2> QED
    BY <1>1, <2>1, WidenedSpan
<1>3. g.c.d13 = d
  OBVIOUS
<1> HIDE DEF d
<1>4. ASSUME NEW y \in LcdLines
      PROVE  IF y - Top(BandRows) \in 0 .. BandRows - 1
             THEN \/ y - Top(BandRows) \in d.min .. d.max
                  \/ g.fb[y] = BandRow(g.r, g.ram, g.c.pal256, y - Top(BandRows))
             ELSE g.fb[y] = Blank
  <2> DEFINE z == y - Top(BandRows)
  <2>0. y \in Int
    BY <1>4, VgaTypes DEF LcdLines
  <2>1. IF z \in 0 .. BandRows - 1
        THEN z \in f.c.d13.min .. f.c.d13.max \/ f.fb[y] = BandRow(f.r, f.ram, f.c.pal256, z)
        ELSE f.fb[y] = Blank
    BY DEF BandShown
  <2> SUFFICES ASSUME z \in 0 .. BandRows - 1, z \notin d.min .. d.max
               PROVE  g.fb[y] = BandRow(g.r, g.ram, g.c.pal256, z)
    BY <2>1
  <2> HIDE DEF z
  <2>2. z \notin f.c.d13.min .. f.c.d13.max
    BY <1>1, <1>2 DEF IsSpan
  <2>3. z \notin ys /\ z \in Nat
    BY <1>2 DEF IsSpan
  <2>4. f.r.start + f.r.line * z \notin Covered(a, n)
    <3>1. z \notin Lines(f.r, a, n, 1)
      BY <2>3
    <3> QED
      BY <1>1, <2>3, <3>1, LineMarked
  <2>5. f.r.start + f.r.line * z \in 0 .. VramWords - 1
    BY <1>1, LineInRam
  <2>6. g.ram[f.r.start + f.r.line * z] = f.ram[f.r.start + f.r.line * z]
    BY <2>4, <2>5
  <2> QED
    BY <2>1, <2>2, <2>6 DEF BandRow
<1> QED
  BY <1>1, <1>3, <1>4 DEF BandShown

\* The pairs of lines after a write that marked them.
LEMMA PairsMarked ==
  ASSUME NEW f, VgaShape(f), PairShown(f), NEW a \in Nat, NEW n \in Nat,
         f.c.key640 = <<f.r.start, f.r.line, f.r.tall>>,
         NEW g, g.fb = f.fb, g.c.pal16 = f.c.pal16, g.c.key640 = f.c.key640,
         g.c.d640 = Widened(f.c.d640, Lines(f.r, a, n, 2) \cap LcdLines),
         g.c.rows640 = f.c.rows640 \cup (Lines(f.r, a, n, 2) \cap LcdLines),
         \A x \in 0 .. VramWords - 1 : x \notin Covered(a, n) => g.ram[x] = f.ram[x]
  PROVE  PairShown(g)
<1> DEFINE ys == Lines(f.r, a, n, 2) \cap LcdLines
           d == Widened(f.c.d640, ys)
           k == f.c.key640
           tall == f.r.tall
           out == tall \div 2
<1>0. /\ f.r.start \in Nat /\ f.r.line \in Nat /\ IsSpan(f.c.d640) /\ tall \in Heights
      /\ LcdRows \in Nat \ {0} /\ LcdLines = 0 .. LcdRows - 1
  BY VgaTypes DEF VgaShape, RegsOk, CachesOk, LcdLines
<1>1. k[1] = f.r.start /\ k[2] = f.r.line /\ k[3] = tall
  OBVIOUS
<1>2. /\ f.r.line > 0 /\ InRam(f.r.start + f.r.line * (tall - 1))
      /\ \A y \in LcdLines :
           IF y - Top(out) \in 0 .. out - 1
           THEN DirtyPair(f.c, y - Top(out)) \/ f.fb[y] = KeyRow(f.ram, k, f.c.pal16, y - Top(out))
           ELSE f.fb[y] = Blank
  BY <1>1 DEF PairShown
<1>3. tall \in Int /\ 2 <= tall /\ tall <= 2 * LcdRows
  BY <1>0, VgaTypes
<1>4. out \in Int /\ 1 <= out /\ out <= LcdRows /\ 2 * out <= tall
  <2> HIDE DEF tall
  <2> QED
    BY <1>0, <1>3
<1>5. Top(out) \in Int
  <2> HIDE DEF out
  <2> QED
    BY <1>4, TopType
<1>6. /\ IsSpan(d) /\ \A y \in ys : d.min <= y /\ y <= d.max
      /\ d.min <= f.c.d640.min /\ f.c.d640.max <= d.max
  <2>1. ys \subseteq 0 .. LcdRows - 1 /\ LcdRows - 1 \in Nat
    BY <1>0
  <2> HIDE DEF ys
  <2> QED
    BY <1>0, <2>1, WidenedSpan
<1>7. g.c.d640 = d /\ g.c.rows640 = f.c.rows640 \cup ys /\ g.c.key640 = k
  OBVIOUS
<1> HIDE DEF d, k, tall, out, ys
<1>8. ASSUME NEW y \in LcdLines
      PROVE  IF y - Top(out) \in 0 .. out - 1
             THEN DirtyPair(g.c, y - Top(out)) \/ g.fb[y] = KeyRow(g.ram, k, g.c.pal16, y - Top(out))
             ELSE g.fb[y] = Blank
  <2> DEFINE z == y - Top(out)
  <2>0. y \in Int
    BY <1>0, <1>8
  <2>1. IF z \in 0 .. out - 1
        THEN DirtyPair(f.c, z) \/ f.fb[y] = KeyRow(f.ram, k, f.c.pal16, z)
        ELSE f.fb[y] = Blank
    BY <1>2, <1>8
  <2> SUFFICES ASSUME z \in 0 .. out - 1, ~DirtyPair(g.c, z)
               PROVE  g.fb[y] = KeyRow(g.ram, k, g.c.pal16, z)
    BY <2>1
  <2> HIDE DEF z
  <2>2. z \in Int /\ 0 <= z /\ z <= out - 1
    BY <1>4
  <2>3. ~DirtyPair(f.c, z)
    <3>1. f.c.d640.min \in Int /\ f.c.d640.max \in Int /\ d.min \in Int /\ d.max \in Int
      BY <1>0, <1>6 DEF IsSpan
    <3>2. ~(z \in f.c.rows640 /\ z >= d.min /\ z <= d.max)
      BY <1>7 DEF DirtyPair
    <3> QED
      BY <1>6, <2>2, <3>1, <3>2 DEF DirtyPair
  <2>4. z \notin ys
    BY <1>6, <1>7, <2>2 DEF DirtyPair, IsSpan
  <2>5. z \notin Lines(f.r, a, n, 2)
    BY <1>0, <1>4, <2>2, <2>4 DEF ys
  <2>6. ASSUME NEW b \in {0, 1}
        PROVE  /\ f.r.start + f.r.line * (2 * z + b) \notin Covered(a, n)
               /\ f.r.start + f.r.line * (2 * z + b) \in 0 .. VramWords - 1
    <3>1. f.r.line \in Nat \ {0} /\ z \in Nat
      BY <1>0, <1>2, <2>2
    <3>2. 2 * z + b \in 0 .. tall - 1 /\ tall - 1 \in Nat
      BY <1>3, <1>4, <2>2
    <3>3. f.r.start + f.r.line * (2 * z + b) \notin Covered(a, n)
      BY <1>0, <2>5, <3>1, PairMarked
    <3>4. f.r.start + f.r.line * (2 * z + b) \in 0 .. VramWords - 1
      BY <1>0, <1>2, <3>2, LineInRam
    <3> QED
      BY <3>3, <3>4
  <2>7. /\ f.r.start + f.r.line * (2 * z + 0) = k[1] + k[2] * 2 * z
        /\ f.r.start + f.r.line * (2 * z + 1) = k[1] + k[2] * (2 * z + 1)
    <3> DEFINE s == f.r.start
               l == f.r.line
    <3>1. s \in Nat /\ l \in Nat
      BY <1>0
    <3>2. k[1] = s /\ k[2] = l
      BY <1>1
    <3> HIDE DEF s, l
    <3>3. s + l * (2 * z + 0) = s + l * 2 * z
      BY <2>2, <3>1
    <3> QED
      BY <3>2, <3>3 DEF s, l
  <2>8. /\ g.ram[k[1] + k[2] * 2 * z] = f.ram[k[1] + k[2] * 2 * z]
        /\ g.ram[k[1] + k[2] * (2 * z + 1)] = f.ram[k[1] + k[2] * (2 * z + 1)]
    <3>1. g.ram[f.r.start + f.r.line * (2 * z + 0)] = f.ram[f.r.start + f.r.line * (2 * z + 0)]
      BY <2>6
    <3>2. g.ram[f.r.start + f.r.line * (2 * z + 1)] = f.ram[f.r.start + f.r.line * (2 * z + 1)]
      BY <2>6
    <3> QED
      BY <2>7, <3>1, <3>2
  <2>9. f.fb[y] = KeyRow(f.ram, k, f.c.pal16, z)
    BY <2>1, <2>3
  <2> QED
    BY <2>8, <2>9 DEF KeyRow
<1>9. k[2] > 0 /\ InRam(k[1] + k[2] * (k[3] - 1)) /\ out = k[3] \div 2
  BY <1>1, <1>2 DEF out
<1> QED
  BY <1>7, <1>8, <1>9 DEF PairShown

\* text_hold's note that the guest wrote to memory.
LEMMA WroteIs ==
  ASSUME NEW c, DOMAIN c = CacheFields, CachesOk(c), NEW d, d = Wrote(c)
  PROVE  /\ DOMAIN d = CacheFields /\ CachesOk(d)
         /\ d.mode = c.mode /\ d.hold = c.hold /\ d.forceFull = c.forceFull /\ d.quiet = c.quiet
         /\ d.palDirty = c.palDirty /\ d.pal256 = c.pal256 /\ d.pal16 = c.pal16
         /\ d.d13 = c.d13 /\ d.d640 = c.d640 /\ d.rows640 = c.rows640 /\ d.key640 = c.key640
         /\ d.layout = c.layout /\ d.cur = c.cur /\ d.ch = c.ch
<1> DEFINE w == c.written \/ HoldFrames > 0
<1>0. d = [c EXCEPT !.written = w]
  BY DEF Wrote
<1> HIDE DEF w
<1>1. /\ DOMAIN d = CacheFields
      /\ d.mode = c.mode /\ d.hold = c.hold /\ d.forceFull = c.forceFull /\ d.quiet = c.quiet
      /\ d.palDirty = c.palDirty /\ d.pal256 = c.pal256 /\ d.pal16 = c.pal16
      /\ d.d13 = c.d13 /\ d.d640 = c.d640 /\ d.rows640 = c.rows640
  BY <1>0 DEF CacheFields
<1>2. /\ d.key640 = c.key640 /\ d.layout = c.layout /\ d.cur = c.cur /\ d.ch = c.ch
      /\ d.presents = c.presents
  BY <1>0 DEF CacheFields
<1>3. CachesOk(d)
  BY <1>1, <1>2, ZenonT(40) DEF CachesOk
<1> QED
  BY <1>1, <1>2, <1>3

\* vga_dirty_mode13 changes the span of the band only.
LEMMA DirtyBandIs ==
  ASSUME NEW c, DOMAIN c = CacheFields, CachesOk(c), NEW s, IsSpan(s), NEW d, d = [c EXCEPT !.d13 = s]
  PROVE  /\ DOMAIN d = CacheFields /\ CachesOk(d)
         /\ d.mode = c.mode /\ d.hold = c.hold /\ d.forceFull = c.forceFull /\ d.quiet = c.quiet
         /\ d.palDirty = c.palDirty /\ d.pal256 = c.pal256 /\ d.pal16 = c.pal16
         /\ d.layout = c.layout /\ d.cur = c.cur /\ d.ch = c.ch /\ d.d13 = s
<1>2. /\ DOMAIN d = CacheFields /\ d.d13 = s
      /\ d.mode = c.mode /\ d.hold = c.hold /\ d.forceFull = c.forceFull /\ d.quiet = c.quiet
      /\ d.palDirty = c.palDirty /\ d.pal256 = c.pal256 /\ d.pal16 = c.pal16
      /\ d.d640 = c.d640
  BY DEF CacheFields
<1>3. /\ d.key640 = c.key640 /\ d.layout = c.layout /\ d.cur = c.cur /\ d.ch = c.ch
      /\ d.presents = c.presents
  BY DEF CacheFields
<1>4. CachesOk(d)
  BY <1>2, <1>3, ZenonT(40) DEF CachesOk
<1> QED
  BY <1>2, <1>3, <1>4

\* A write to memory: what is common to the three ways of it.
LEMMA WriteKept ==
  ASSUME VgaInv, NEW a, NEW n, NEW w \in Words, vram' = Poked(a, n, w),
         UNCHANGED <<vr, fb, lcd, front>>, NEW band \in BOOLEAN, NEW pair \in BOOLEAN,
         shown' = [Unseen EXCEPT !.band = band, !.pair = pair],
         DOMAIN vc' = CacheFields, CachesOk(vc'),
         /\ vc'.mode = vc.mode /\ vc'.hold = vc.hold /\ vc'.forceFull = vc.forceFull
         /\ vc'.quiet = vc.quiet /\ vc'.palDirty = vc.palDirty /\ vc'.pal256 = vc.pal256
         /\ vc'.layout = vc.layout /\ vc'.cur = vc.cur /\ vc'.ch = vc.ch /\ vc'.pal16 = vc.pal16,
         BandKept(Frame'), PairKept(Frame')
  PROVE  VgaInv'
<1>1. /\ DOMAIN vr' = RegFields /\ RegsOk(vr')
      /\ vc'.quiet > 0 => vc'.forceFull
      /\ vc'.palDirty \/ vc'.pal256 = -1 \/ vc'.pal256 = vr'.dac
  BY GoodState
<1>2. vram' \in [0 .. VramWords - 1 -> Words]
  BY GoodState, PokedType
<1>3. /\ DOMAIN shown' = ShownFields /\ ShownOk(shown')
      /\ shown'.by = "none" /\ shown'.age = 0 /\ shown'.lost = shown.lost
      /\ shown'.text = shown.text
  BY UnseenFlags
<1>4. /\ shown.text => shown'.text
      /\ ~shown'.text => vr'.font = vr.font /\ vr'.cursor = vr.cursor
      /\ vc.forceFull => vc'.forceFull
  BY <1>3
<1> QED
  BY <1>1, <1>2, <1>3, <1>4, GuestKept

\* Memory after a write, seen from the frame.
LEMMA WrittenFrame ==
  ASSUME VgaInv, NEW a, NEW n, NEW w, vram' = Poked(a, n, w), UNCHANGED <<vr, fb>>
  PROVE  /\ Frame'.r = Frame.r /\ Frame'.fb = Frame.fb /\ Frame'.c = vc' /\ Frame'.s = shown'
         /\ \A x \in 0 .. VramWords - 1 : x \notin Covered(a, n) => Frame'.ram[x] = Frame.ram[x]
<1>1. \A x \in 0 .. VramWords - 1 : x \notin Covered(a, n) => vram'[x] = vram[x]
  BY GoodState, PokedElsewhere
<1> QED
  BY <1>1 DEF Frame

\* Chain 4.
LEMMA ChainKept ==
  ASSUME VgaInv, NEW a \in 0 .. VramWords - 1, NEW n \in 1 .. VramWords, NEW w \in Words,
         ChainWrite(a, n, w)
  PROVE  VgaInv'
<1> DEFINE d == DirtyMode13(vc, vr, a, n)
           yes == TRUE
<1>0. /\ vram' = Poked(a, n, w) /\ vc' = Wrote(d) /\ UNCHANGED <<vr, fb, lcd, front>>
      /\ shown' = [Unseen EXCEPT !.pair = TRUE] /\ a \in Nat /\ n \in Nat
  BY VgaTypes DEF ChainWrite
<1>1. /\ DOMAIN vc = CacheFields /\ CachesOk(vc) /\ RegsOk(vr) /\ BandKept(Frame)
      /\ DOMAIN shown = ShownFields /\ ShownOk(shown) /\ VgaShape(Frame)
  BY GoodState DEF VgaInv, VgaGood
<1>2. shown' = [Unseen EXCEPT !.band = shown.band, !.pair = yes] /\ shown.band \in BOOLEAN
  BY <1>0, <1>1 DEF Unseen, ShownFields, ShownOk
<1>3. yes \in BOOLEAN /\ yes
  OBVIOUS
<1> HIDE DEF yes, d
<1>4. shown'.band = shown.band /\ shown'.pair = yes
  BY <1>2, <1>3, UnseenFlags
<1>5. /\ DOMAIN d = CacheFields /\ CachesOk(d)
      /\ d.mode = vc.mode /\ d.hold = vc.hold /\ d.forceFull = vc.forceFull /\ d.quiet = vc.quiet
      /\ d.palDirty = vc.palDirty /\ d.pal256 = vc.pal256 /\ d.pal16 = vc.pal16
      /\ d.layout = vc.layout /\ d.cur = vc.cur /\ d.ch = vc.ch
      /\ vr.line > 0 => d.d13 = Widened(vc.d13, Lines(vr, a, n, 1) \cap 0 .. BandRows - 1)
  <2>1. CASE vr.line = 0
    <3>1. d = vc
      BY <2>1 DEF d, DirtyMode13
    <3> QED
      BY <1>1, <2>1, <3>1
  <2>2. CASE vr.line > 0
    <3> DEFINE s == Widened(vc.d13, Lines(vr, a, n, 1) \cap 0 .. BandRows - 1)
    <3>1. d = [vc EXCEPT !.d13 = s]
      BY <2>2 DEF d, DirtyMode13
    <3>2. IsSpan(s)
      <4>1. IsSpan(vc.d13) /\ BandRows - 1 \in Nat
        BY <1>1, VgaTypes DEF CachesOk
      <4> QED
        BY <4>1, WidenedSpan
    <3> HIDE DEF s
    <3>3. /\ DOMAIN d = CacheFields /\ CachesOk(d)
          /\ d.mode = vc.mode /\ d.hold = vc.hold /\ d.forceFull = vc.forceFull /\ d.quiet = vc.quiet
          /\ d.palDirty = vc.palDirty /\ d.pal256 = vc.pal256 /\ d.pal16 = vc.pal16
          /\ d.layout = vc.layout /\ d.cur = vc.cur /\ d.ch = vc.ch /\ d.d13 = s
      BY <1>1, <3>1, <3>2, DirtyBandIs
    <3> QED
      BY <3>3 DEF s
  <2> QED
    BY <1>1, <2>1, <2>2 DEF RegsOk
<1>6. /\ DOMAIN vc' = CacheFields /\ CachesOk(vc')
      /\ vc'.mode = d.mode /\ vc'.hold = d.hold /\ vc'.forceFull = d.forceFull /\ vc'.quiet = d.quiet
      /\ vc'.palDirty = d.palDirty /\ vc'.pal256 = d.pal256 /\ vc'.pal16 = d.pal16
      /\ vc'.layout = d.layout /\ vc'.cur = d.cur /\ vc'.ch = d.ch /\ vc'.d13 = d.d13
  BY <1>0, <1>5, WroteIs
<1>7. /\ Frame'.r = Frame.r /\ Frame'.fb = Frame.fb /\ Frame'.c = vc' /\ Frame'.s = shown'
      /\ \A x \in 0 .. VramWords - 1 : x \notin Covered(a, n) => Frame'.ram[x] = Frame.ram[x]
  BY <1>0, WrittenFrame
<1>8. BandKept(Frame')
  <2> SUFFICES ASSUME vc'.mode = 2, ~vc'.forceFull, ~shown'.band PROVE BandShown(Frame')
    BY <1>7 DEF BandKept
  <2>1. BandShown(Frame)
    BY <1>1, <1>4, <1>5, <1>6, FrameIs DEF BandKept
  <2>2. vr.line > 0
    BY <2>1, FrameIs DEF BandShown
  <2>3. /\ Frame'.c.pal256 = Frame.c.pal256
        /\ Frame'.c.d13 = Widened(Frame.c.d13, Lines(Frame.r, a, n, 1) \cap 0 .. BandRows - 1)
    BY <1>5, <1>6, <1>7, <2>2, FrameIs
  <2> QED
    BY <1>0, <1>1, <1>7, <2>1, <2>3, BandMarked
<1>9. PairKept(Frame')
  BY <1>3, <1>4, <1>7 DEF PairKept
<1> QED
  BY <1>0, <1>2, <1>3, <1>5, <1>6, <1>8, <1>9, WriteKept

\* Odd/even and latched writes.
LEMMA PlaneKept ==
  ASSUME VgaInv, NEW a \in 0 .. VramWords - 1, NEW n \in 1 .. VramWords, NEW w \in Words,
         PlaneWrite(a, n, w)
  PROVE  VgaInv'
<1> DEFINE d == DirtyPlanar640(vc, vr, a, n)
           yes == TRUE
           pair == shown.pair \/ vc.key640 # <<vr.start, vr.line, vr.tall>>
<1>0. /\ vram' = Poked(a, n, w) /\ vc' = Wrote(d) /\ UNCHANGED <<vr, fb, lcd, front>>
      /\ shown' = [Unseen EXCEPT !.band = TRUE,
                                 !.pair = Unseen.pair \/ vc.key640 # <<vr.start, vr.line, vr.tall>>]
      /\ a \in Nat /\ n \in Nat
  BY VgaTypes DEF PlaneWrite
<1>1. /\ DOMAIN vc = CacheFields /\ CachesOk(vc) /\ RegsOk(vr) /\ PairKept(Frame)
      /\ DOMAIN shown = ShownFields /\ ShownOk(shown) /\ VgaShape(Frame)
  BY GoodState DEF VgaInv, VgaGood
<1>2. shown' = [Unseen EXCEPT !.band = yes, !.pair = pair] /\ pair \in BOOLEAN
  <2>1. Unseen.pair = shown.pair
    BY <1>1 DEF Unseen, ShownFields
  <2> QED
    BY <1>0, <1>1, <2>1 DEF ShownOk
<1>3. yes \in BOOLEAN /\ yes
  OBVIOUS
<1> HIDE DEF yes, d, pair
<1>4. shown'.band = yes /\ shown'.pair = pair
  BY <1>2, <1>3, UnseenFlags
<1>5. /\ DOMAIN d = CacheFields /\ CachesOk(d)
      /\ d.mode = vc.mode /\ d.hold = vc.hold /\ d.forceFull = vc.forceFull /\ d.quiet = vc.quiet
      /\ d.palDirty = vc.palDirty /\ d.pal256 = vc.pal256 /\ d.pal16 = vc.pal16
      /\ d.layout = vc.layout /\ d.cur = vc.cur /\ d.ch = vc.ch /\ d.key640 = vc.key640
      /\ vr.line > 0 => /\ d.d640 = Widened(vc.d640, Lines(vr, a, n, 2) \cap LcdLines)
                        /\ d.rows640 = vc.rows640 \cup (Lines(vr, a, n, 2) \cap LcdLines)
  <2>1. CASE vr.line = 0
    <3>1. d = vc
      BY <2>1 DEF d, DirtyPlanar640
    <3> QED
      BY <1>1, <2>1, <3>1
  <2>2. CASE vr.line > 0
    <3> DEFINE ys == Lines(vr, a, n, 2) \cap LcdLines
               s == Widened(vc.d640, ys)
               rows == vc.rows640 \cup ys
    <3>1. d = [vc EXCEPT !.d640 = s, !.rows640 = rows]
      BY <2>2 DEF d, DirtyPlanar640
    <3>2. IsSpan(s)
      <4>1. IsSpan(vc.d640) /\ LcdRows - 1 \in Nat /\ ys \subseteq 0 .. LcdRows - 1
        BY <1>1, VgaTypes DEF CachesOk, LcdLines
      <4> HIDE DEF ys
      <4> QED
        BY <4>1, WidenedSpan
    <3> HIDE DEF s, rows
    <3>0. DOMAIN vc = CacheFields /\ CachesOk(vc)
      BY <1>1
    <3>3. /\ DOMAIN d = CacheFields /\ d.d640 = s /\ d.rows640 = rows
          /\ d.mode = vc.mode /\ d.hold = vc.hold /\ d.forceFull = vc.forceFull /\ d.quiet = vc.quiet
          /\ d.palDirty = vc.palDirty /\ d.pal256 = vc.pal256 /\ d.pal16 = vc.pal16
      BY <3>0, <3>1 DEF CacheFields
    <3>4. /\ d.key640 = vc.key640 /\ d.layout = vc.layout /\ d.cur = vc.cur /\ d.ch = vc.ch
          /\ d.presents = vc.presents /\ d.d13 = vc.d13
      BY <3>0, <3>1 DEF CacheFields
    <3>5. CachesOk(d)
      BY <3>0, <3>2, <3>3, <3>4, ZenonT(40) DEF CachesOk
    <3> QED
      BY <3>3, <3>4, <3>5 DEF s, rows
  <2> QED
    BY <1>1, <2>1, <2>2 DEF RegsOk
<1>6. /\ DOMAIN vc' = CacheFields /\ CachesOk(vc')
      /\ vc'.mode = d.mode /\ vc'.hold = d.hold /\ vc'.forceFull = d.forceFull /\ vc'.quiet = d.quiet
      /\ vc'.palDirty = d.palDirty /\ vc'.pal256 = d.pal256 /\ vc'.pal16 = d.pal16
      /\ vc'.layout = d.layout /\ vc'.cur = d.cur /\ vc'.ch = d.ch /\ vc'.key640 = d.key640
      /\ vc'.d640 = d.d640 /\ vc'.rows640 = d.rows640
  BY <1>0, <1>5, WroteIs
<1>7. /\ Frame'.r = Frame.r /\ Frame'.fb = Frame.fb /\ Frame'.c = vc' /\ Frame'.s = shown'
      /\ \A x \in 0 .. VramWords - 1 : x \notin Covered(a, n) => Frame'.ram[x] = Frame.ram[x]
  BY <1>0, WrittenFrame
<1>8. BandKept(Frame')
  BY <1>3, <1>4, <1>7 DEF BandKept
<1>9. PairKept(Frame')
  <2> SUFFICES ASSUME vc'.mode = 2, ~vc'.forceFull, ~shown'.pair, vc'.key640 # <<>> PROVE PairShown(Frame')
    BY <1>7 DEF PairKept
  <2>0. ~shown.pair /\ vc.key640 = <<vr.start, vr.line, vr.tall>>
    BY <1>4 DEF pair
  <2>1. PairShown(Frame)
    BY <1>1, <1>5, <1>6, <2>0, FrameIs DEF PairKept
  <2>2. vr.line > 0
    BY <2>0, <2>1, FrameIs DEF PairShown
  <2>3. /\ Frame'.c.pal16 = Frame.c.pal16 /\ Frame'.c.key640 = Frame.c.key640
        /\ Frame.c.key640 = <<Frame.r.start, Frame.r.line, Frame.r.tall>>
        /\ Frame'.c.d640 = Widened(Frame.c.d640, Lines(Frame.r, a, n, 2) \cap LcdLines)
        /\ Frame'.c.rows640 = Frame.c.rows640 \cup (Lines(Frame.r, a, n, 2) \cap LcdLines)
    BY <1>5, <1>6, <1>7, <2>0, <2>2, FrameIs
  <2>4. a \in Nat /\ n \in Nat /\ Frame'.fb = Frame.fb
    BY <1>0, <1>7
  <2> QED
    BY <1>1, <1>7, <2>1, <2>3, <2>4, PairsMarked, Zenon
<1> QED
  BY <1>0, <1>2, <1>3, <1>5, <1>6, <1>8, <1>9, WriteKept

\* Through the linear frame buffer.
LEMMA LinearKept ==
  ASSUME VgaInv, NEW a, NEW n, NEW w \in Words, LfbWrite(a, n, w)
  PROVE  VgaInv'
<1>0. /\ vram' = Poked(a, n, w) /\ UNCHANGED <<vr, vc, fb, lcd, front>>
      /\ shown' = [Unseen EXCEPT !.band = TRUE, !.pair = TRUE]
  BY DEF LfbWrite
<1>1. shown'.band /\ shown'.pair
  BY <1>0, UnseenFlags
<1>2. BandKept(Frame') /\ PairKept(Frame')
  BY <1>1 DEF BandKept, PairKept, Frame
<1>3. /\ DOMAIN vc' = CacheFields /\ CachesOk(vc')
      /\ vc'.mode = vc.mode /\ vc'.hold = vc.hold /\ vc'.forceFull = vc.forceFull
      /\ vc'.quiet = vc.quiet /\ vc'.palDirty = vc.palDirty /\ vc'.pal256 = vc.pal256
      /\ vc'.layout = vc.layout /\ vc'.cur = vc.cur /\ vc'.ch = vc.ch /\ vc'.pal16 = vc.pal16
  BY <1>0, GoodState
<1> QED
  BY <1>0, <1>2, <1>3, WriteKept

-----------------------------------------------------------------------------
(***************************************************************************)
(* The polls.                                                              *)
(***************************************************************************)
\* A change of the registers the pictures do not depend on.
LEMMA SameSight ==
  ASSUME NEW f, VgaGood(f), NEW g, DOMAIN g = {"r", "c", "ram", "fb", "rows", "s"},
         g.c = f.c /\ g.ram = f.ram /\ g.fb = f.fb /\ g.s = f.s,
         DOMAIN g.r = RegFields, RegsOk(g.r),
         \A x \in RegFields \ {"phase", "reads"} : g.r[x] = f.r[x]
  PROVE  VgaGood(g)
<1>1. /\ g.r.on = f.r.on /\ g.r.gfx = f.r.gfx /\ g.r.shift = f.r.shift /\ g.r.chain = f.r.chain
      /\ g.r.planes = f.r.planes /\ g.r.geo = f.r.geo /\ g.r.start = f.r.start /\ g.r.line = f.r.line
      /\ g.r.tall = f.r.tall /\ g.r.vbe = f.r.vbe
  BY DEF RegFields
<1>2. /\ g.r.vstart = f.r.vstart /\ g.r.vline = f.r.vline /\ g.r.bpp8 = f.r.bpp8
      /\ g.r.dac = f.r.dac /\ g.r.attr = f.r.attr /\ g.r.font = f.r.font
      /\ g.r.cursor = f.r.cursor /\ g.r.shape = f.r.shape
  BY DEF RegFields
<1>3. VgaShape(g)
  BY DEF VgaGood, VgaShape, IsFrame
<1>4. BandKept(g) /\ PairKept(g)
  <2>1. BandShown(f) => BandShown(g)
    BY <1>1 DEF BandShown, BandRow
  <2>2. PairShown(f) => PairShown(g)
    BY DEF PairShown
  <2> QED
    BY <2>1, <2>2 DEF VgaGood, BandKept, PairKept
<1>5. TextKept(g) /\ Orders(g)
  <2>1. TextShown(f) => TextShown(g)
    BY <1>2, TextSame
  <2> QED
    BY <1>2, <2>1 DEF VgaGood, TextKept, Orders
<1>6. VbeKept(g)
  <2>1. Renderer(g.r) = Renderer(f.r) /\ GraphicMode(g.r) = GraphicMode(f.r)
    BY <1>1, <1>2 DEF Renderer, GraphicMode
  <2>2. VbePicture(g) = VbePicture(f)
    BY <1>2 DEF VbePicture, VbeRow
  <2> QED
    BY <2>1, <2>2 DEF VgaGood, VbeKept
<1>7. Drawn(g)
  <2>1. BandPicture(g) = BandPicture(f)
    BY <1>1, <1>2 DEF BandPicture, BandRow, Centred
  <2>2. PairPicture(g) = PairPicture(f)
    BY <1>1, <1>2 DEF PairPicture, PairRow, Centred, Colours16
  <2>3. \A k : TextPicture(g, k) = TextPicture(f, k)
    BY <1>1, <1>2 DEF TextPicture, TextRow, Glyph, CellAddr, Centred
  <2>4. Colours16(g.r) = Colours16(f.r) /\ g.c = f.c /\ g.fb = f.fb /\ g.s = f.s
    BY <1>1, <1>2 DEF Colours16
  <2> QED
    BY <2>1, <2>2, <2>3, <2>4 DEF VgaGood, Drawn
<1> QED
  BY <1>3, <1>4, <1>5, <1>6, <1>7 DEF VgaGood

\* The retrace.
LEMMA NextPhaseIs ==
  ASSUME NEW r, DOMAIN r = RegFields, RegsOk(r)
  PROVE  /\ DOMAIN NextPhase(r) = RegFields /\ RegsOk(NextPhase(r))
         /\ \A x \in RegFields \ {"phase", "reads"} : NextPhase(r)[x] = r[x]
<1> DEFINE p == (r.phase + 1) % 3
           q == NextPhase(r)
<1>1. q = [r EXCEPT !.phase = p]
  BY DEF NextPhase, RegFields
<1> HIDE DEF p, q
<1>2. DOMAIN q = RegFields /\ \A x \in RegFields \ {"phase", "reads"} : q[x] = r[x]
  BY <1>1 DEF RegFields
<1>3. RegsOk(q)
  BY <1>2 DEF RegsOk, RegFields
<1> QED
  BY <1>2, <1>3 DEF q

\* A step that only moves the retrace on.
LEMMA PhaseKept ==
  ASSUME VgaInv, UNCHANGED <<vc, vram, fb, lcd, shown>>, front'.modeChanged = front.modeChanged,
         DOMAIN front' = DOMAIN front,
         DOMAIN vr' = RegFields, RegsOk(vr'),
         \A x \in RegFields \ {"phase", "reads"} : vr'[x] = vr[x]
  PROVE  VgaInv'
<1>1. VgaGood(Frame')
  <2>1. VgaGood(Frame)
    BY DEF VgaInv
  <2>2. /\ DOMAIN Frame' = {"r", "c", "ram", "fb", "rows", "s"}
        /\ Frame'.c = Frame.c /\ Frame'.ram = Frame.ram /\ Frame'.fb = Frame.fb /\ Frame'.s = Frame.s
        /\ Frame'.r = vr' /\ Frame.r = vr
    BY DEF Frame
  <2> QED
    BY <2>1, <2>2, SameSight
<1>2. FrontKept'
  <2>1. Owing(Frame) => Owing(Frame')
    BY DEF Owing, Frame
  <2> QED
    BY <2>1 DEF VgaInv, FrontKept
<1> QED
  BY <1>1, <1>2 DEF VgaInv

\* A read of port 0x3da.
LEMMA StatusKept ==
  ASSUME VgaInv, ReadInputStatus
  PROVE  VgaInv'
<1>0. DOMAIN vr = RegFields /\ RegsOk(vr)
  BY GoodState
<1>1. /\ UNCHANGED <<vc, vram, fb, lcd, shown>> /\ front' = front
      /\ \/ vr' = [NextPhase(vr) EXCEPT !.reads = 0]
         \/ vr' = [vr EXCEPT !.reads = vr.reads + 1]
  BY DEF ReadInputStatus
<1>2. ASSUME NEW r, DOMAIN r = RegFields, RegsOk(r), NEW k, vr' = [r EXCEPT !.reads = k],
             \A x \in RegFields \ {"phase", "reads"} : r[x] = vr[x]
      PROVE  VgaInv'
  <2>1. DOMAIN vr' = RegFields /\ \A x \in RegFields \ {"phase", "reads"} : vr'[x] = vr[x]
    BY <1>2 DEF RegFields
  <2>2. \A x \in RegFields \ {"phase", "reads"} : vr'[x] = r[x]
    BY <1>2, <2>1
  <2>3. RegsOk(vr')
    BY <1>2, <2>2 DEF RegsOk, RegFields
  <2> QED
    BY <1>1, <2>1, <2>3, PhaseKept
<1>3. CASE vr' = [NextPhase(vr) EXCEPT !.reads = 0]
  BY <1>0, <1>2, <1>3, NextPhaseIs
<1>4. CASE vr' = [vr EXCEPT !.reads = vr.reads + 1]
  BY <1>0, <1>2, <1>4
<1> QED
  BY <1>1, <1>3, <1>4

\* vga_refresh as the front ends call it.
LEMMA RefreshKept ==
  ASSUME VgaInv, NEW full \in BOOLEAN, NEW tick, NEW ok \in BOOLEAN, NEW retry \in BOOLEAN,
         NEW keep \in BOOLEAN, VgaRefresh(full, tick, ok, retry, keep)
  PROVE  VgaInv'
<1>1. VgaGood(Frame)
  BY DEF VgaInv
<1>2. RefreshPost(Frame, Refresh(Frame, full, tick))
  BY <1>1, FrameIs, Refreshes
<1>3. Present(Refresh(Frame, full, tick), ok, retry, keep)
  BY DEF VgaRefresh
<1> DEFINE f == Frame
           g == Refresh(Frame, full, tick)
<1>4. /\ VgaGood(f) /\ RefreshPost(f, g) /\ Present(g, ok, retry, keep)
      /\ f.c = vc /\ f.s = shown /\ f.fb = fb /\ f.ram = vram
  BY <1>1, <1>2, <1>3, FrameIs
<1> HIDE DEF f, g
<1> QED
  BY <1>4, Presents

\* pc_vga_step_display.
LEMMA StepKept ==
  ASSUME VgaInv, NEW render \in BOOLEAN, NEW full \in BOOLEAN, NEW tick, StepDisplay(render, full, tick)
  PROVE  VgaInv'
<1> DEFINE f == [Frame EXCEPT !.r = NextPhase(vr)]
           g == Refresh(f, full, tick)
           yes == TRUE
           no == FALSE
<1>0. /\ DOMAIN vr = RegFields /\ RegsOk(vr) /\ VgaGood(Frame)
  BY GoodState DEF VgaInv
<1>1. \/ Present(g, yes, no, no)
      \/ /\ vr' = NextPhase(vr) /\ UNCHANGED <<vc, vram, fb, lcd, shown>>
         /\ \E p : front' = [front EXCEPT !.pending = p]
  <2>1. f = [Frame EXCEPT !.r = NextPhase(Frame.r)]
    BY FrameIs
  <2> QED
    BY <2>1 DEF StepDisplay
<1>2. yes \in BOOLEAN /\ no \in BOOLEAN
  OBVIOUS
<1> HIDE DEF yes, no
<1>3. CASE Present(g, yes, no, no)
  <2>1. /\ f.r = NextPhase(vr) /\ f.c = vc /\ f.s = shown /\ f.fb = fb /\ f.ram = vram /\ f.rows = {}
        /\ DOMAIN f = {"r", "c", "ram", "fb", "rows", "s"}
    BY FrameIs
  <2> HIDE DEF f
  <2>2. VgaGood(f)
    BY <1>0, <2>1, FrameIs, NextPhaseIs, SameSight
  <2>3. RefreshPost(f, g)
    BY <2>1, <2>2, Refreshes
  <2> HIDE DEF g
  <2> QED
    BY <1>2, <1>3, <2>1, <2>2, <2>3, Presents
<1>4. CASE /\ vr' = NextPhase(vr) /\ UNCHANGED <<vc, vram, fb, lcd, shown>>
           /\ \E p : front' = [front EXCEPT !.pending = p]
  <2>1. front'.modeChanged = front.modeChanged /\ DOMAIN front' = DOMAIN front
    <3>1. DOMAIN front = {"ready", "active", "modeChanged", "pending"}
      BY DEF VgaInv, FrontKept
    <3> QED
      BY <1>4, <3>1
  <2>2. /\ DOMAIN vr' = RegFields /\ RegsOk(vr')
        /\ \A x \in RegFields \ {"phase", "reads"} : vr'[x] = vr[x]
    BY <1>0, <1>4, NextPhaseIs
  <2> QED
    BY <1>4, <2>1, <2>2, PhaseKept
<1> QED
  BY <1>1, <1>3, <1>4

\* TI-OS takes the LCD.
LEMMA TakenKept ==
  ASSUME VgaInv, LcdTaken
  PROVE  VgaInv'
<1> DEFINE yes == TRUE
<1>0. VgaGood(Frame) /\ DOMAIN shown = ShownFields
  BY GoodState DEF VgaInv
<1>1. shown' = [shown EXCEPT !.lost = yes] /\ UNCHANGED <<vr, vc, vram, fb, front>> /\ yes \in BOOLEAN /\ yes
  BY DEF LcdTaken
<1> HIDE DEF yes
<1>2. shown'.lost = yes /\ shown'.text = shown.text
  BY <1>0, <1>1 DEF ShownFields
<1>3. VgaGood(Frame')
  <2>1. /\ DOMAIN Frame' = {"r", "c", "ram", "fb", "rows", "s"}
        /\ Frame'.r = Frame.r /\ Frame'.c = Frame.c /\ Frame'.ram = Frame.ram /\ Frame'.fb = Frame.fb
        /\ Frame'.s = [Frame.s EXCEPT !.lost = yes]
    BY <1>1 DEF Frame
  <2> QED
    BY <1>0, <1>1, <2>1, SameGood
<1>4. FrontKept'
  <2>1. Owing(Frame) => Owing(Frame')
    BY <1>1, <1>2 DEF Owing, Frame
  <2> QED
    BY <1>1, <1>2, <2>1 DEF VgaInv, FrontKept
<1> QED
  BY <1>3, <1>4 DEF VgaInv

-----------------------------------------------------------------------------
(***************************************************************************)
(* The theorem.                                                            *)
(***************************************************************************)
\* The machine is switched on with nothing drawn.
LEMMA VgaStarts ==
  ASSUME NEW m \in {"band", "planar", "text", "vbe"}, VgaInit(m)
  PROVE  VgaInv
<1>1. RegsOk(vr) /\ DOMAIN vr = RegFields
  <2>1. 2 * BandRows \in Heights /\ TextCols \in Nat
    BY VgaAssumption
  <2> QED
    BY <2>1 DEF VgaInit, ModeRegs, RegsOk, RegFields
<1>2. /\ vc.mode = 0 /\ ~vc.palDirty /\ vc.palDirty \in BOOLEAN /\ ~vc.forceFull /\ vc.forceFull \in BOOLEAN
      /\ vc.quiet = 0 /\ vc.pal256 = -1 /\ vc.d13 = Clean /\ vc.d640 = Clean /\ vc.key640 = <<>>
      /\ vc.presents = 0 /\ vc.layout = <<>> /\ vc.cur = <<0, 0>> /\ vc.hold = 0
      /\ vc.ch = [c \in Cells |-> 0] /\ DOMAIN vc = CacheFields
  BY DEF VgaInit, CacheFields
<1>3. CachesOk(vc)
  <2>1. 0 \in 0 .. ForceEvery - 1 /\ vc.ch \in [Cells -> Int] /\ vc.cur[1] \in Int
    BY <1>2, VgaTypes
  <2> QED
    BY <1>2, <2>1, CleanSpan DEF CachesOk
<1>4. /\ shown.by = "none" /\ ~shown.band /\ ~shown.pair /\ ~shown.text /\ shown.age = 0 /\ ~shown.lost
      /\ DOMAIN shown = ShownFields /\ ShownOk(shown)
  BY DEF VgaInit, ShownFields, ShownOk
<1>5. vram \in [0 .. VramWords - 1 -> Words] /\ fb = Dark /\ lcd = Dark
  BY VgaAssumption DEF VgaInit
<1>6. DOMAIN front = {"ready", "active", "modeChanged", "pending"} /\ front.modeChanged = FALSE
  BY DEF VgaInit
<1>7. VgaShape(Frame)
  BY <1>1, <1>2, <1>3, <1>4, <1>5, FrameIs, DarkPicture DEF VgaShape, IsFrame
<1>8. BandKept(Frame) /\ PairKept(Frame) /\ VbeKept(Frame) /\ TextKept(Frame)
  BY <1>2, <1>4, FrameIs DEF BandKept, PairKept, VbeKept, TextKept
<1>9. Drawn(Frame) /\ Orders(Frame)
  BY <1>2, <1>4, FrameIs DEF Drawn, Orders
<1>10. FrontKept
  <2>1. lcd = fb
    BY <1>5
  <2>2. ~(vc.hold > 0)
    BY <1>2
  <2>3. front.modeChanged \in BOOLEAN /\ ~front.modeChanged
    BY <1>6, Zenon
  <2> QED
    BY <1>6, <2>1, <2>2, <2>3, Zenon DEF FrontKept
<1> QED
  BY <1>7, <1>8, <1>9, <1>10 DEF VgaInv, VgaGood

\* Every step keeps the invariant.
LEMMA VgaSteps ==
  ASSUME VgaInv, [VgaNext]_vgaVars
  PROVE  VgaInv'
<1>1. ASSUME NEW r \in VgaRegs, r.dac = vr.dac, WriteRegisters(r)
      PROVE  VgaInv'
  BY <1>1, RegistersKept
<1>2. ASSUME NEW v \in Nat, WriteDac(v)
      PROVE  VgaInv'
  BY <1>2, DacKept
<1>3. ASSUME NEW on \in BOOLEAN, NEW high \in BOOLEAN, NEW clear \in BOOLEAN, NEW v \in Nat,
             VbeEnable(on, high, clear, v)
      PROVE  VgaInv'
  BY <1>3, EnableKept
<1>4. ASSUME NEW a \in 0 .. VramWords - 1, NEW n \in 1 .. VramWords, NEW w \in Words,
             ChainWrite(a, n, w) \/ PlaneWrite(a, n, w) \/ LfbWrite(a, n, w)
      PROVE  VgaInv'
  BY <1>4, ChainKept, PlaneKept, LinearKept
<1>5. CASE ReadInputStatus
  BY <1>5, StatusKept
<1>6. CASE LcdTaken
  BY <1>6, TakenKept
<1>7. ASSUME NEW full \in BOOLEAN, NEW tick \in BOOLEAN, NEW ok \in BOOLEAN, NEW retry \in BOOLEAN,
             NEW keep \in BOOLEAN, VgaRefresh(full, tick, ok, retry, keep)
      PROVE  VgaInv'
  BY <1>7, RefreshKept
<1>8. ASSUME NEW render \in BOOLEAN, NEW full \in BOOLEAN, NEW tick \in BOOLEAN,
             StepDisplay(render, full, tick)
      PROVE  VgaInv'
  BY <1>8, StepKept
<1>9. CASE UNCHANGED vgaVars
  BY <1>9 DEF vgaVars, VgaInv, FrontKept, Frame
<1> QED
  BY <1>1, <1>2, <1>3, <1>4, <1>5, <1>6, <1>7, <1>8, <1>9 DEF VgaNext

\* What the LCD should show, renderer by renderer.
LEMMA WantedIs ==
  /\ shown.by = "mode13" => Wanted = BandPicture(Frame)
  /\ shown.by = "planar" => Wanted = PairPicture(Frame)
  /\ shown.by = "vbe" => Wanted = VbePicture(Frame)
  /\ shown.by = "text" => Wanted = TextPicture(Frame, Colours16(Frame.r))
  /\ shown.by = "ordered" => Wanted = TextPicture(Frame, Frame.c.pal16)
  /\ shown.by \notin {"mode13", "planar", "vbe", "text", "ordered"} => Wanted = lcd
<1>1. CASE shown.by = "mode13"
  BY <1>1, FrameIs DEF Wanted, BandPicture
<1>2. CASE shown.by = "planar"
  BY <1>2, FrameIs DEF Wanted, PairPicture
<1>3. CASE shown.by = "vbe"
  BY <1>3, FrameIs DEF Wanted, VbePicture
<1>4. CASE shown.by = "text"
  BY <1>4, FrameIs DEF Wanted, TextPicture
<1>5. CASE shown.by = "ordered"
  BY <1>5, FrameIs DEF Wanted, TextPicture
<1>6. CASE shown.by \notin {"mode13", "planar", "vbe", "text", "ordered"}
  BY <1>6 DEF Wanted
<1> QED
  BY <1>1, <1>2, <1>3, <1>4, <1>5, <1>6

\* The invariant says what the LCD shows.
LEMMA ScreenFollows ==
  ASSUME VgaInv
  PROVE  ScreenShows
<1> SUFFICES ASSUME ~shown.lost,
                    ~(shown.by = "mode13" /\ shown.band), ~(shown.by = "planar" /\ shown.pair),
                    ~(shown.by \in {"text", "ordered"} /\ shown.text),
                    ~(shown.by = "vbe" /\ shown.age < ForceEvery)
             PROVE  lcd = Wanted
  BY DEF ScreenShows
<1>1. /\ Drawn(Frame) /\ VbeKept(Frame) /\ FrontKept /\ CachesOk(vc) /\ ShownOk(shown)
  BY FrameIs DEF VgaInv, VgaGood, VgaShape
<1>2. ASSUME shown.by \in {"mode13", "planar", "vbe", "text", "ordered"}
      PROVE  lcd = fb
  <2>1. ~Owing(Frame) /\ ~(vc.mode = 1 /\ shown.text)
    <3>1. CASE shown.by \in {"mode13", "planar", "vbe"}
      BY <1>1, <3>1, FrameIs DEF Drawn, Owing
    <3>2. CASE shown.by \in {"text", "ordered"}
      BY <1>1, <3>2, FrameIs DEF Drawn, Owing
    <3> QED
      BY <1>2, <3>1, <3>2
  <2> QED
    BY <1>1, <2>1 DEF FrontKept
<1>3. CASE shown.by = "mode13"
  BY <1>1, <1>2, <1>3, WantedIs, FrameIs DEF Drawn
<1>4. CASE shown.by = "planar"
  BY <1>1, <1>2, <1>4, WantedIs, FrameIs DEF Drawn
<1>5. CASE shown.by = "vbe"
  <2>1. /\ shown.age \in Nat /\ ~(shown.age < ForceEvery) /\ vc.presents \in 0 .. ForceEvery - 1
        /\ ForceEvery \in Nat \ {0}
    BY <1>1, <1>5, VgaTypes DEF CachesOk, ShownOk
  <2>2. shown.age > 0 /\ ~(vc.presents >= shown.age)
    BY <2>1
  <2>3. fb = VbePicture(Frame)
    BY <1>1, <2>2, FrameIs DEF VbeKept
  <2> QED
    BY <1>2, <1>5, <2>3, WantedIs
<1>6. CASE shown.by \in {"text", "ordered"}
  BY <1>1, <1>2, <1>6, WantedIs, FrameIs DEF Drawn
<1>7. CASE shown.by \notin {"mode13", "planar", "vbe", "text", "ordered"}
  BY <1>7, WantedIs
<1> QED
  BY <1>3, <1>4, <1>5, <1>6, <1>7

\* The screen's invariant holds of any guest.
LEMMA VgaInvariant == VgaSpec => []VgaInv
<1>1. (\E m \in {"band", "planar", "text", "vbe"} : VgaInit(m)) => VgaInv
  BY VgaStarts
<1>2. VgaInv /\ [VgaNext]_vgaVars => VgaInv'
  BY VgaSteps
<1> QED
  BY <1>1, <1>2, PTL DEF VgaSpec

\* Whatever the guest writes to the registers and the memory of the VGA, and whenever the
\* display is polled between two of its writes, the LCD shows after a refresh what a renderer
\* that draws everything would draw: vga_mode13_draw, vga_planar16_draw, vga_vbe_scale2 and
\* vga_text_scale2 skip only what is on the screen already.  Text drawn on an order to draw
\* everything is in the colours of the refresh before it, as update_palette16 is skipped then.
THEOREM ScreenStaysTrue == VgaSpec => []ScreenShows
<1>1. VgaInv => ScreenShows
  BY ScreenFollows
<1> QED
  BY <1>1, VgaInvariant, PTL
=============================================================================
