----------------------------- MODULE RepString -----------------------------
(***************************************************************************)
(* The CPU's string instructions (i386.c): STOS, LODS, SCAS, MOVS, CMPS,   *)
(* INS and OUTS, with and without REP.  Aligned STOS, MOVS, INS and OUTS   *)
(* translate once and work on physical memory to the end of the page, in   *)
(* bulk where they can; everything else goes one element at a time.  An    *)
(* instruction can be left in the middle, by a page fault or (rep_yield)   *)
(* for an interrupt, and is then executed again with what the registers    *)
(* hold.                                                                   *)
(*                                                                         *)
(* A cell is a byte, an element has one or two.  Offsets wrap after        *)
(* StrPages pages (a 16-bit address size); the linear page after them      *)
(* exists.  Both segments have the base strOp.base.                        *)
(***************************************************************************)
EXTENDS Integers, Sequences

CONSTANTS
  StrPages,    \* pages the offsets reach
  PageCells,   \* 4096
  RepSlice,    \* REP_SLICE
  StrCount     \* the counts in CX

ASSUME StrAssumption ==
  /\ StrPages \in Nat \ {0} /\ PageCells \in {2 * k : k \in 1 .. 8}
  /\ RepSlice \in Nat \ {0} /\ StrCount \subseteq Nat

VARIABLES
  strOp,       \* the instruction, the CPU's configuration and the registers it started with
  strNow,      \* the registers, memory and the device's side of the port
  strPresent,  \* linear pages that are mapped
  strAt        \* "fetch": about to be executed; "loop": inside; "done"; "refused"; "idle": none

strVars == <<strOp, strNow, strPresent, strAt>>

Space == StrPages * PageCells

\* Physical pages: two of RAM, one of video memory, one past phys_mem_size.
Video == 2
Beyond == 3
StrCells == 0 .. Beyond * PageCells - 1

UsesSi == {"lods", "movs", "cmps", "outs"}
UsesDi == {"stos", "scas", "movs", "cmps", "ins"}
Compares == {"scas", "cmps"}
Chunked == {"stos", "movs", "ins", "outs"}

\* What memory holds first: for a search one cell differs, otherwise they all do.
FirstMem(op) == [a \in StrCells |-> IF op \notin Compares THEN a ELSE IF a = 5 THEN 1 ELSE 0]
StoredAx(k) == 100 + k
PortCell(n, k) == 200 + 2 * n + k

StrStart == [mem |-> FirstMem(strOp.op), si |-> strOp.si, di |-> strOp.di, cx |-> strOp.count,
             ax |-> << >>, zf |-> FALSE, in |-> 0, out |-> << >>]

(***************************************************************************)
(* Addresses.                                                              *)
(***************************************************************************)
Step == IF strOp.df THEN -strOp.width ELSE strOp.width

\* The linear addresses of the element at an offset: only its first cell wraps.
Linear(off) == strOp.base + off
PageOf(lin) == lin \div PageCells
Physical(lin) == strOp.frames[PageOf(lin)] * PageCells + (lin % PageCells)

Offsets(s) == (IF strOp.op \in UsesSi THEN {s.si} ELSE {}) \cup (IF strOp.op \in UsesDi THEN {s.di} ELSE {})

\* translate of every element the instruction touches: the pages it misses.
Missing(s) ==
  {PageOf(Linear(off) + k) : off \in Offsets(s), k \in 0 .. strOp.width - 1} \ strPresent

\* load and store: past the end of memory a load gives 0 and a store is dropped.
LoadCell(mem, a) == IF a \in StrCells THEN mem[a] ELSE 0
StoreCell(mem, a, v) == IF a \in StrCells THEN [mem EXCEPT ![a] = v] ELSE mem

\* An element whose cells are at the physical addresses cells.
LoadAt(mem, cells) == [k \in DOMAIN cells |-> LoadCell(mem, cells[k])]
StoreAt(mem, cells, v) ==
  LET m[k \in 0 .. Len(cells)] == IF k = 0 THEN mem ELSE StoreCell(m[k - 1], cells[k], v[k])
  IN m[Len(cells)]

\* Through the page tables, and following one physical address.
Paged(off) == [k \in 1 .. strOp.width |-> Physical(Linear(off) + k - 1)]
FlatCells(a) == [k \in 1 .. strOp.width |-> a + k - 1]

(***************************************************************************)
(* One element: stdi, ldsi, lddi, ldsistdi, ldsilddi, indxstdi, ldsioutdx. *)
(***************************************************************************)
AxCells == [k \in 1 .. strOp.width |-> StoredAx(k)]
PortCells(n) == [k \in 1 .. strOp.width |-> PortCell(n, k - 1)]

\* The data of one element, its operands at the cells from and to.
OneMoved(s, from, to) ==
  CASE strOp.op = "stos" -> [s EXCEPT !.mem = StoreAt(@, to, AxCells)]
    [] strOp.op = "lods" -> [s EXCEPT !.ax = LoadAt(s.mem, from)]
    [] strOp.op = "scas" -> [s EXCEPT !.zf = LoadAt(s.mem, to) = [k \in DOMAIN to |-> 0]]
    [] strOp.op = "cmps" -> [s EXCEPT !.zf = LoadAt(s.mem, from) = LoadAt(s.mem, to)]
    [] strOp.op = "movs" -> [s EXCEPT !.mem = StoreAt(@, to, LoadAt(@, from))]
    [] strOp.op = "ins"  -> [s EXCEPT !.mem = StoreAt(@, to, PortCells(s.in)), !.in = @ + 1]
    [] strOp.op = "outs" -> [s EXCEPT !.out = Append(@, LoadAt(s.mem, from))]

\* The registers after n elements.
Advanced(s, n) ==
  [s EXCEPT !.si = IF strOp.op \in UsesSi THEN (@ + n * Step) % Space ELSE @,
            !.di = IF strOp.op \in UsesDi THEN (@ + n * Step) % Space ELSE @,
            !.cx = IF strOp.rep = 0 THEN @ ELSE @ - n]

Element(s) == Advanced(OneMoved(s, Paged(s.si), Paged(s.di)), 1)

\* After 0, 1, .. n elements.
Elements(s, n) ==
  LET f[k \in 0 .. n] == IF k = 0 THEN s ELSE Element(f[k - 1]) IN f

\* REPE stops where the operands differ, REPNE where they agree.
Stops(s) == strOp.op \in Compares /\ strOp.rep # 0 /\ s.zf = (strOp.rep = 2)

(***************************************************************************)
(* Leaving the loop.                                                       *)
(***************************************************************************)
LimitRepCount(n) == IF strOp.yield /\ n > RepSlice THEN RepSlice ELSE n

\* TRY: the registers stay as they are; the kernel maps the page and returns.
PageFault(s) ==
  /\ strNow' = s
  /\ \E p \in Missing(s) : strPresent' = strPresent \cup {p}
  /\ strAt' = "fetch"

\* YIELD_REP, unless a comparison stopped the loop; again is where it goes otherwise.
YieldRep(s, again) ==
  /\ strNow' = s
  /\ strAt' = IF strOp.yield /\ s.cx # 0 /\ ~Stops(s) THEN "fetch"
              ELSE IF s.cx # 0 /\ ~Stops(s) THEN again ELSE "done"
  /\ UNCHANGED strPresent

(***************************************************************************)
(* The slow path, and LODS, SCAS and CMPS: element by element, each        *)
(* translated, up to LimitRepCount.                                        *)
(***************************************************************************)
SlowPath ==
  LET n == LimitRepCount(strNow.cx)
      f == Elements(strNow, n)
      Decided(k) == k > 0 /\ Stops(f[k])
      Left(k) == k = n \/ Decided(k) \/ Missing(f[k]) # {}
      last == CHOOSE k \in 0 .. n : Left(k) /\ \A j \in 0 .. k - 1 : ~Left(j)
  IN IF last = n \/ Decided(last) THEN YieldRep(f[last], "done") ELSE PageFault(f[last])

(***************************************************************************)
(* The fast path: n elements from physical addresses that are translated   *)
(* once.                                                                   *)
(***************************************************************************)
ToPageEnd(a) ==
  IF strOp.df THEN 1 + (a % PageCells) \div strOp.width
  ELSE (PageCells - (a % PageCells)) \div strOp.width

RepChunk(s) ==
  LET from == Physical(Linear(s.si))
      to == Physical(Linear(s.di))
      room == {s.cx} \cup (IF strOp.op \in UsesSi THEN {ToPageEnd(from)} ELSE {})
                     \cup (IF strOp.op \in UsesDi THEN {ToPageEnd(to)} ELSE {})
  IN LimitRepCount(CHOOSE m \in room : \A k \in room : m <= k)

\* load and store n times, the addresses moving by dir; STOS in bulk comes to the same.
Looped(s, n) ==
  LET from == Physical(Linear(s.si))
      to == Physical(Linear(s.di))
      f[k \in 0 .. n] == IF k = 0 THEN s
                         ELSE OneMoved(f[k - 1], FlatCells(from + (k - 1) * Step), FlatCells(to + (k - 1) * Step))
  IN Advanced(f[n], n)

IsRam(a) == a < Video * PageCells
InIomem(a) == a \div PageCells = Video

\* memmove: every cell is read before any is written.
Block(s, n) ==
  LET from == Physical(Linear(s.si))
      to == Physical(Linear(s.di))
  IN Advanced([s EXCEPT !.mem = [a \in StrCells |->
       IF a \in to .. to + n * strOp.width - 1 THEN @[from + a - to] ELSE @[a]]], n)

\* Mutant: a bulk move without the test for operands that overlap.
BulkMoveOverlapping(s, n) ==
  /\ strOp.op = "movs" /\ strOp.bulk /\ ~strOp.df
  /\ IsRam(Physical(Linear(s.si))) /\ IsRam(Physical(Linear(s.di)))

\* nspire_bulk_rep_ram: a forward move in RAM that no element of it disturbs.
BulkMove(s, n) ==
  LET from == Physical(Linear(s.si))
      to == Physical(Linear(s.di)) IN
  /\ strOp.op = "movs" /\ strOp.bulk /\ ~strOp.df
  /\ IsRam(from) /\ IsRam(to)
  /\ to <= from \/ to >= from + n * strOp.width

\* iomem_write_string, which may refuse: a forward move from RAM to the screen.
ToScreen(s) ==
  /\ strOp.op = "movs" /\ ~strOp.df
  /\ IsRam(Physical(Linear(s.si))) /\ InIomem(Physical(Linear(s.di)))

\* io_read_string and io_write_string: the device may take fewer, or none.
ByString(s) ==
  /\ strOp.op \in {"ins", "outs"} /\ ~strOp.df
  /\ IsRam(Physical(Linear(IF strOp.op = "ins" THEN s.di ELSE s.si)))

FastPath ==
  LET n == RepChunk(strNow) IN
  \/ /\ BulkMove(strNow, n) \/ ToScreen(strNow)
     /\ YieldRep(Block(strNow, n), "loop")
  \/ /\ ByString(strNow)
     /\ \E taken \in 1 .. n : YieldRep(Looped(strNow, taken), "loop")
  \/ /\ ~BulkMove(strNow, n)
     /\ YieldRep(Looped(strNow, n), "loop")

(***************************************************************************)
(* The instruction.                                                        *)
(***************************************************************************)
AllAligned(s) == \A off \in Offsets(s) : Linear(off) % strOp.width = 0

\* STOS_helper2, MOVS_helper2, INS_helper2 and OUTS_helper2: one turn of the loop.
RepTurn ==
  /\ strAt \in {"fetch", "loop"} /\ ~(strAt = "fetch" /\ strOp.refused)
  /\ strOp.rep # 0 /\ strOp.op \in Chunked /\ strNow.cx # 0
  /\ IF Missing(strNow) # {} THEN PageFault(strNow)
     ELSE IF AllAligned(strNow) THEN FastPath ELSE SlowPath
  /\ UNCHANGED strOp

\* LODS_helper, SCAS_helper and CMPS_helper.
RepElements ==
  /\ strAt = "fetch"
  /\ strOp.rep # 0 /\ strOp.op \notin Chunked /\ strNow.cx # 0
  /\ SlowPath
  /\ UNCHANGED strOp

\* CX = 0: the loop is not entered.
RepNothing ==
  /\ strAt = "fetch" /\ ~strOp.refused
  /\ strOp.rep # 0 /\ strNow.cx = 0
  /\ strAt' = "done"
  /\ UNCHANGED <<strOp, strNow, strPresent>>

\* Without REP.
OneElement ==
  /\ strAt = "fetch" /\ ~strOp.refused
  /\ strOp.rep = 0
  /\ IF Missing(strNow) # {} THEN PageFault(strNow)
     ELSE /\ strNow' = Element(strNow)
          /\ strAt' = "done"
          /\ UNCHANGED strPresent
  /\ UNCHANGED strOp

\* INS and OUTS: check_ioperm, and #UD for REPNE.
RepRefused ==
  /\ strAt = "fetch" /\ strOp.refused
  /\ strAt' = "refused"
  /\ UNCHANGED <<strOp, strNow, strPresent>>

\* The guest's kernel, while the instruction is interrupted, takes a page away.
TakePage(p) ==
  /\ strAt = "fetch" /\ p \in strPresent
  /\ strPresent' = strPresent \ {p}
  /\ UNCHANGED <<strOp, strNow, strAt>>

(***************************************************************************)
(* Instructions: each operation with every address, direction and width.   *)
(***************************************************************************)
Layouts(op) ==
  LET Pages(a, b) == [p \in 0 .. StrPages |-> IF p = 0 THEN a ELSE IF p = 1 THEN b ELSE 0]
  IN {Pages(0, 1), Pages(0, 0), Pages(0, Video)} \cup (IF op = "movs" THEN {} ELSE {Pages(0, Beyond)})

StrInit(op) ==
  /\ \E width \in {1, 2}, df \in BOOLEAN, rep \in 0 .. 2, count \in StrCount, frames \in Layouts(op) :
     \E si \in (IF op \in UsesSi THEN 0 .. Space - 1 ELSE {0}),
        di \in (IF op \in UsesDi THEN 0 .. Space - 1 ELSE {0}),
        base \in (IF op \in {"movs", "cmps"} THEN {0} ELSE {0, 1}),
        cpu \in {<<FALSE, FALSE>>, <<TRUE, FALSE>>, <<TRUE, TRUE>>}, permitted \in BOOLEAN :
       /\ op \in {"ins", "outs"} \/ permitted
       /\ count # 0 \/ (si = 0 /\ di = 0)
       /\ rep # 0 \/ ~cpu[1]
       /\ op \in Compares \/ rep # 2 \/ ~permitted
       /\ op \in {"movs", "stos"} \/ cpu # <<TRUE, TRUE>>
       /\ strOp = [op |-> op, width |-> width, df |-> df, rep |-> rep, count |-> count, frames |-> frames,
                   si |-> si, di |-> di, base |-> base, yield |-> cpu[1], bulk |-> cpu[2],
                   refused |-> ~permitted \/ (op \in {"ins", "outs"} /\ rep = 2)]
  /\ strNow = StrStart
  /\ strPresent = 0 .. StrPages
  /\ strAt = "fetch"

\* No string instruction is executed.
StrIdle == strOp = << >> /\ strNow = << >> /\ strPresent = {} /\ strAt = "idle"

StrNext ==
  \/ RepTurn \/ RepElements \/ RepNothing \/ OneElement \/ RepRefused
  \/ \E p \in 0 .. StrPages - 1 : TakePage(p)

(***************************************************************************)
(* What must hold.                                                         *)
(***************************************************************************)
\* A 16-bit offset that wraps in the middle of a page does so only at the page's end.
WrapsAtPage ==
  \/ strOp.base % PageCells = 0
  \/ \A k \in 0 .. strOp.count - 1, off \in Offsets(StrStart) : off + k * Step \in 0 .. Space - 1

\* However often the instruction was left for a page fault or an interrupt and executed
\* again, and whichever of its paths did the work, memory, the port and the registers
\* are those of the elements CX has counted, done one after the other from the start:
\* none twice, none skipped, overlapping operands as the element order says.  It ends
\* where the count or the first deciding comparison ends it (i386.c, *_helper2).
StringExact ==
  strAt # "idle" /\ WrapsAtPage =>
    LET total == IF strOp.rep = 0 THEN 1 ELSE strOp.count
        n == IF strOp.rep = 0 THEN (IF strAt = "done" THEN 1 ELSE 0) ELSE strOp.count - strNow.cx
        f == Elements(StrStart, total)
    IN /\ strNow = f[n]
       /\ \A k \in 1 .. n - 1 : ~Stops(f[k])
       /\ strAt = "done" => n = total \/ (n > 0 /\ Stops(f[n]))
=============================================================================
