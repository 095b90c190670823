---------------------------- MODULE Transfer386 ----------------------------
(***************************************************************************)
(* The CPU's control transfers between segments, rings, modes and tasks    *)
(* (i386.c): interrupts and exceptions, far calls, jumps and returns, IRET *)
(* and the task switch.  An operator that translates a C function maps the *)
(* registers r to a result: the registers after it, and the exception it   *)
(* threw, "none", or "abort" where the code gives up (TRY1, cpu_abort).    *)
(*                                                                         *)
(* The unit of a stack is 16 bits; a 32-bit value takes two, and a half    *)
(* counts to Half instead of 2^16.  A selector is 4 * index + RPL; the LDT *)
(* and segment limits are left out, and no stack wraps (sp_mask).  Of the  *)
(* flags, IF, NT, VM and IOPL are kept; an error code is the value 1.      *)
(***************************************************************************)
EXTENDS Integers, Sequences

CONSTANTS
  StackTop,    \* cells of every stack
  MaxNested    \* transfers a guest has open at once

VARIABLES
  regs,        \* the registers, the stacks and the task state segments
  absent,      \* descriptors whose present bit is clear
  floor,       \* lowest mapped cell of the program's stack
  open,        \* history: the transfers not yet returned from, and what they left
  resumed,     \* history: the last return, and what it should have come back to
  own,         \* history: the ring and the NT flag the program gave itself
  dead         \* cpu_abort was called

xferVars == <<regs, absent, floor, open, resumed, own, dead>>

Half == 64
DataRegs == {"DS", "ES", "FS", "GS"}

(***************************************************************************)
(* The guest's tables.                                                     *)
(***************************************************************************)
Code(dpl) == [kind |-> "code", dpl |-> dpl, conforming |-> FALSE]
Stack(dpl) == [kind |-> "data", dpl |-> dpl]
CallGate(dpl, code, ip, count, o16) ==
  [kind |-> "call", dpl |-> dpl, code |-> code, ip |-> ip, count |-> count, o16 |-> o16]
NullDesc == [kind |-> "null", dpl |-> 0]

\* Ring 0, 1 and 3 each have code and a stack; tasks 10 and 11 share them but for
\* task 11's own stack, 12.
Gdt == [i \in 0 .. 15 |->
  CASE i = 1 -> Code(0) [] i = 2 -> Stack(0)
    [] i = 3 -> [Code(0) EXCEPT !.conforming = TRUE]
    [] i = 4 -> Code(1) [] i = 5 -> Stack(1)
    [] i = 6 -> Code(3) [] i = 7 -> Stack(3)
    [] i = 8 -> CallGate(3, 4, Half + 20, 1, FALSE)
    [] i = 9 -> CallGate(3, 4, 22, 1, TRUE)
    [] i = 10 -> [kind |-> "tss", dpl |-> 0] [] i = 11 -> [kind |-> "tss", dpl |-> 0]
    [] i = 12 -> Stack(0)
    [] i = 13 -> [kind |-> "task", dpl |-> 3, task |-> 11]
    [] OTHER -> NullDesc]

Gate(dpl, code, ip, masks, o16) ==
  [kind |-> "isr", dpl |-> dpl, code |-> code, ip |-> ip, masks |-> masks, o16 |-> o16]

\* "sys" and "mon" are for programs; the rest are dpl 0.
Idt == [sys |-> Gate(3, 1, Half + 2, TRUE, FALSE),  mon |-> Gate(3, 4, Half + 4, FALSE, FALSE),
        sub |-> [kind |-> "task", dpl |-> 3, task |-> 11],
        irq |-> Gate(0, 1, Half + 6, TRUE, FALSE),  UD |-> Gate(0, 1, Half + 8, FALSE, FALSE),
        NP  |-> Gate(0, 1, 10, TRUE, TRUE),         SS |-> Gate(0, 1, Half + 12, TRUE, FALSE),
        PF  |-> Gate(0, 1, Half + 14, TRUE, FALSE), TS |-> Gate(0, 1, Half + 16, TRUE, FALSE),
        GP  |-> Gate(0, 1, Half + 18, TRUE, FALSE)]

HasError(v) == v \in {"TS", "NP", "SS", "GP", "PF"}

Rpl(sel) == sel % 4
Index(sel) == sel \div 4
Sel(i, rpl) == 4 * i + rpl
Null(sel) == Index(sel) = 0
IsCode(i) == Gdt[i].kind = "code"

\* The stacks each task state segment names.
RingStack(task, ring) ==
  IF ring = 0 THEN Sel(IF task = 11 THEN 12 ELSE 2, 0) ELSE Sel(5, 1)

\* Where the real mode interrupt table leads.
RealHandler == [cs |-> 40, ip |-> 30]

(***************************************************************************)
(* Stacks.                                                                 *)
(***************************************************************************)
Flat(r) == ~r.pe \/ r.fl.vm
StackOf(r) == IF Flat(r) THEN 15 ELSE Index(r.ss)
Stacks == {2, 5, 7, 12, 15}
WordCells(o16) == IF o16 THEN 1 ELSE 2

\* The flags as a word: VM is in the upper half.
FlagsWord(f) == (IF f.if THEN 1 ELSE 0) + (IF f.nt THEN 2 ELSE 0) + 4 * f.iopl
                  + (IF f.vm THEN Half ELSE 0)
WordFlags(w) == [if |-> w % 2 = 1, nt |-> (w \div 2) % 2 = 1, iopl |-> (w \div 4) % 4,
                 vm |-> w >= Half]

\* Values stored downwards from the stack pointer, 16 or 32 bits each.
Push(r, vals, o16) ==
  LET n == WordCells(o16)
      low == r.sp - n * Len(vals) IN
  [r EXCEPT !.sp = low,
            !.stk[StackOf(r)] = [a \in DOMAIN @ |->
               IF a < low \/ a >= r.sp THEN @[a]
               ELSE LET i == (r.sp - 1 - a) \div n + 1 IN
                    IF a = r.sp - n * i THEN vals[i] % Half ELSE vals[i] \div Half]]

\* The i-th value above the stack pointer.
Peek(r, i, o16) ==
  LET a == r.sp + i * WordCells(o16)
      s == r.stk[StackOf(r)] IN
  IF o16 THEN s[a] ELSE s[a] + Half * s[a + 1]

\* The stack pointer goes up by n cells.  Nothing reads below it, so they become 0.
Drop(r, n) ==
  [r EXCEPT !.sp = @ + n,
            !.stk[StackOf(r)] = [a \in DOMAIN @ |-> IF a \in r.sp .. r.sp + n - 1 THEN 0 ELSE @[a]]]

\* translate for a write: whether count values find mapped memory.
Mapped(r, count, o16) ==
  r.sp - count * WordCells(o16) >= (IF StackOf(r) = 7 THEN floor ELSE 0)

Done(r) == [exc |-> "none", r |-> r, torn |-> FALSE]
Throw(r, exc) == [exc |-> exc, r |-> r, torn |-> FALSE]
Abort(r) == Throw(r, "abort")

(***************************************************************************)
(* Segments.                                                               *)
(***************************************************************************)
\* set_seg: what stops a selector being loaded.  Only data segments are asked for
\* their kind, and nothing for its privilege.
SegFault(r, seg, sel) ==
  CASE Flat(r) \/ Null(sel) -> "none"
    [] seg \in DataRegs /\ Gdt[Index(sel)].kind \notin {"code", "data"} -> "GP"
    [] Index(sel) \in absent -> IF seg = "SS" THEN "SS" ELSE "NP"
    [] OTHER -> "none"

LoadCs(r, sel, ip) ==
  [r EXCEPT !.cs = sel, !.ip = ip,
            !.cpl = IF r.fl.vm THEN 3 ELSE IF r.pe THEN Rpl(sel) ELSE 0]

\* set_seg(SEG_CS) under TRY1.
JumpTo(r, sel, ip) ==
  IF SegFault(r, "CS", sel) # "none" THEN Abort(r) ELSE Done(LoadCs(r, sel, ip))

\* clear_segs, after a return to an outer ring.
ClearSegs(r) ==
  [r EXCEPT !.data = [s \in DataRegs |->
     LET d == Gdt[Index(@[s])] IN
     IF (d.kind # "code" \/ ~d.conforming) /\ d.dpl < r.cpl THEN 0 ELSE @[s]]]

(***************************************************************************)
(* task_switch.  The busy bit is in the descriptor, the rest in the TSS; a *)
(* running task's is only read again after it was saved, so it is emptied. *)
(***************************************************************************)
NoFlags == [if |-> FALSE, nt |-> FALSE, vm |-> FALSE, iopl |-> 0]
NoContext == [cs |-> 0, ss |-> 0, sp |-> 0, ip |-> 0, data |-> [s \in DataRegs |-> 0], fl |-> NoFlags,
              back |-> 0]

TaskSwitch(r, task, how) ==
  LET old == r.tr
      saved == [cs |-> r.cs, ss |-> r.ss, sp |-> r.sp, ip |-> r.ip, data |-> r.data,
                fl |-> IF how = "iret" THEN [r.fl EXCEPT !.nt = FALSE] ELSE r.fl,
                back |-> r.tss[old].back]
      t == r.tss[task]
      faults == {SegFault(r, "CS", t.cs), SegFault(r, "SS", t.ss)}
                  \cup {SegFault(r, s, t.data[s]) : s \in DataRegs}
      into == [r EXCEPT !.tr = task,
                        !.busy = (IF how = "call" THEN @ ELSE @ \ {old})
                                    \cup (IF how = "iret" THEN {} ELSE {task}),
                        !.ss = t.ss, !.sp = t.sp, !.data = t.data,
                        !.tss[old] = saved, !.tss[task] = [NoContext EXCEPT !.back = t.back]] IN
  IF faults # {"none"} THEN Abort(r)
  ELSE LET run == [LoadCs(into, t.cs, t.ip) EXCEPT !.fl = t.fl] IN
       Done(IF how = "call"
            THEN [run EXCEPT !.tss[task].back = old, !.fl.nt = TRUE] ELSE run)

(***************************************************************************)
(* pmcall: CALL and JMP FAR in protected mode.                             *)
(***************************************************************************)
\* A code segment: the RPL of the new CS is the old privilege.
CallSegment(r, sel, ip, o16, isjmp) ==
  LET d == Gdt[Index(sel)] IN
  IF d.kind # "code" \/ (IF d.conforming THEN d.dpl > r.cpl ELSE Rpl(sel) > r.cpl \/ d.dpl # r.cpl)
  THEN Throw(r, "GP")
  ELSE IF ~isjmp /\ ~Mapped(r, 2, o16) THEN Throw(r, "PF")
  ELSE JumpTo(IF isjmp THEN r ELSE Push(r, <<r.cs, r.ip>>, o16), Sel(Index(sel), r.cpl), ip)

\* A gate to an inner ring: its stack comes from the TSS, with the parameters.  The
\* stack pointer is already replaced when the stack segment turns out absent.
CallInward(r, g, isjmp) ==
  LET ring == Gdt[g.code].dpl
      ss == RingStack(r.tr, ring)
      params == [i \in 1 .. g.count |-> Peek(r, g.count - i, g.o16)]
      onNew == [r EXCEPT !.sp = StackTop, !.ss = ss]
      frame == <<r.ss, r.sp>> \o params \o <<r.cs, r.ip>> IN
  IF SegFault(r, "SS", ss) # "none"
  THEN [Throw([r EXCEPT !.sp = StackTop], SegFault(r, "SS", ss)) EXCEPT !.torn = TRUE]
  ELSE IF ~isjmp /\ ~Mapped(onNew, Len(frame), g.o16) THEN Abort(onNew)
  ELSE JumpTo(IF isjmp THEN onNew ELSE Push(onNew, frame, g.o16), Sel(g.code, ring), g.ip)

CallThrough(r, g, isjmp) ==
  LET d == Gdt[g.code] IN
  IF ~IsCode(g.code) THEN Throw(r, "GP")
  ELSE IF g.code \in absent THEN Throw(r, "NP")
  ELSE IF d.dpl > r.cpl THEN Throw(r, "GP")
  ELSE IF ~d.conforming /\ d.dpl < r.cpl THEN CallInward(r, g, isjmp)
  ELSE IF ~isjmp /\ ~Mapped(r, 2, g.o16) THEN Throw(r, "PF")
  ELSE JumpTo(IF isjmp THEN r ELSE Push(r, <<r.cs, r.ip>>, g.o16), Sel(g.code, r.cpl), g.ip)

PmCall(r, sel, ip, o16, isjmp) ==
  LET i == Index(sel)
      d == Gdt[i]
      how == IF isjmp THEN "jmp" ELSE "call" IN
  IF Null(sel) THEN Throw(r, "GP")
  ELSE IF i \in absent THEN Throw(r, "NP")
  ELSE IF d.kind \in {"code", "data"} THEN CallSegment(r, sel, ip, o16, isjmp)
  ELSE IF d.dpl < r.cpl \/ d.dpl < Rpl(sel) THEN Throw(r, "GP")
  ELSE CASE d.kind = "tss" /\ i \notin r.busy -> TaskSwitch(r, i, how)
         [] d.kind = "task" -> TaskSwitch(r, d.task, how)
         [] d.kind = "call" -> CallThrough(r, d, isjmp)
         [] OTHER -> Abort(r)

(***************************************************************************)
(* call_isr.  r.ip is the address it saves.                                *)
(***************************************************************************)
Error(err) == IF err THEN <<1>> ELSE <<>>
Enter(r, g, rpl) ==
  LET j == JumpTo(r, Sel(g.code, rpl), g.ip) IN
  [j EXCEPT !.r.fl.nt = FALSE, !.r.fl.if = @ /\ ~g.masks]

\* The same ring, on the stack in use.  Through a 16-bit gate the error code is stored
\* with 32 bits: its upper half lands on the saved address.
IsrSame(r, g, err) ==
  LET frame == <<FlagsWord(r.fl), r.cs, r.ip>>
      p == Push(r, frame \o Error(err), g.o16) IN
  IF ~Mapped(r, 3 + Len(Error(err)), g.o16) THEN Throw(r, "PF")
  ELSE Enter(IF err /\ g.o16 THEN [p EXCEPT !.stk[StackOf(r)][p.sp + 1] = 0] ELSE p, g, r.cpl)

\* An inner ring, on its stack of the TSS.  Nothing undoes the change of the stack
\* pointer when the stack segment is absent or the stack not mapped.
IsrInward(r, g, err) ==
  LET ring == Gdt[g.code].dpl
      ss == RingStack(r.tr, ring)
      onNew == [r EXCEPT !.sp = StackTop, !.ss = ss]
      frame == <<r.ss, r.sp, FlagsWord(r.fl), r.cs, r.ip>> \o Error(err) IN
  IF SegFault(r, "SS", ss) # "none"
  THEN [Throw([r EXCEPT !.sp = StackTop], SegFault(r, "SS", ss)) EXCEPT !.torn = TRUE]
  ELSE IF ~Mapped(onNew, Len(frame), g.o16)
       THEN [Throw(onNew, "PF") EXCEPT !.torn = TRUE]
  ELSE Enter(Push(onNew, frame, g.o16), g, ring)

\* From virtual 8086 mode: the data segments are saved too, and emptied.
IsrFromV86(r, g, err) ==
  LET ss == RingStack(r.tr, 0)
      plain == [r EXCEPT !.fl.vm = FALSE]
      onNew == [plain EXCEPT !.sp = StackTop, !.ss = ss, !.data = [s \in DataRegs |-> 0]]
      frame == <<r.data["GS"], r.data["FS"], r.data["DS"], r.data["ES"],
                 r.ss, r.sp, FlagsWord(r.fl), r.cs, r.ip>> \o Error(err) IN
  IF g.o16 THEN Abort(r)
  ELSE IF SegFault(plain, "SS", ss) # "none" THEN Throw(r, SegFault(plain, "SS", ss))
  ELSE IF ~Mapped(onNew, Len(frame), FALSE) THEN Abort(r)
  ELSE Enter(Push(onNew, frame, FALSE), g, 0)

IsrReal(r) ==
  IF ~Mapped(r, 3, TRUE) THEN Abort(r)
  ELSE Done([LoadCs(Push(r, <<FlagsWord(r.fl), r.cs, r.ip>>, TRUE), RealHandler.cs, RealHandler.ip)
               EXCEPT !.fl.if = FALSE])

\* __call_isr_check_cs and the dispatch on its answer.
IsrThrough(r, g, err) ==
  LET d == Gdt[g.code]
      inner == ~d.conforming /\ d.dpl < r.cpl IN
  IF ~IsCode(g.code) \/ d.dpl > r.cpl THEN Throw(r, "GP")
  ELSE IF g.code \in absent THEN Throw(r, "NP")
  ELSE IF r.fl.vm THEN IF inner /\ d.dpl = 0 THEN IsrFromV86(r, g, err) ELSE Throw(r, "GP")
  ELSE IF inner THEN IsrInward(r, g, err)
  ELSE IsrSame(r, g, err)

CallIsr(r, v, err, ext) ==
  IF ~r.pe THEN IsrReal(r)
  ELSE LET g == Idt[v] IN
       IF ~ext /\ g.dpl < r.cpl THEN Throw(r, "GP")
       ELSE IF g.kind = "task" THEN TaskSwitch(r, g.task, "call")
       ELSE IsrThrough(r, g, err)

(***************************************************************************)
(* pmret: IRET and RETF in protected mode; off cells of parameters.        *)
(***************************************************************************)
\* Mutant: the interrupt flag is taken from the frame whoever returns.
RetFlagsUnmasked(r, word, o16) ==
  LET f == WordFlags(word) IN
  [f EXCEPT !.vm = IF o16 THEN r.fl.vm ELSE @,
            !.iopl = IF r.cpl > 0 THEN r.fl.iopl ELSE @]

\* The flags IRET may change.
RetFlags(r, word, o16) ==
  LET f == WordFlags(word) IN
  [f EXCEPT !.vm = IF o16 THEN r.fl.vm ELSE @,
            !.iopl = IF r.cpl > 0 THEN r.fl.iopl ELSE @,
            !.if = IF r.fl.iopl < r.cpl THEN r.fl.if ELSE @]

\* __pmiret_check_cs_same and __pmiret_check_cs_outer.
RetCsFault(r, sel) ==
  LET d == Gdt[Index(sel)]
      outer == Rpl(sel) > r.cpl IN
  CASE Null(sel) \/ d.kind # "code" -> "GP"
    [] ~d.conforming /\ d.dpl # Rpl(sel) -> "GP"
    [] d.conforming /\ (IF outer THEN d.dpl <= r.cpl ELSE d.dpl > r.cpl) -> "GP"
    [] Index(sel) \in absent -> "NP"
    [] OTHER -> "none"

RetToV86(r, fl) ==
  LET v == [i \in 0 .. 8 |-> Peek(r, i, FALSE)] IN
  IF r.cpl # 0 THEN Abort(r)
  ELSE Done([LoadCs([Drop(r, 18) EXCEPT !.fl = fl], v[1], v[0])
               EXCEPT !.sp = v[3], !.ss = v[4],
                      !.data = [ES |-> v[5], DS |-> v[6], FS |-> v[7], GS |-> v[8]]])

RetSame(r, cs, ip, fl, cells) ==
  JumpTo([Drop(r, cells) EXCEPT !.fl = fl], cs, ip)

\* Mutant: the caller's copy of the parameters stays on its stack.
RetOuterLeavesParams(r, cs, ip, fl, cells, o16, params) ==
  LET under == [r EXCEPT !.sp = @ + cells]
      ss == Peek(under, 1, o16)
      into == [Drop(r, cells + 2 * WordCells(o16)) EXCEPT !.fl = fl, !.sp = Peek(under, 0, o16), !.ss = ss]
      j == JumpTo(into, cs, ip) IN
  IF SegFault(r, "SS", ss) # "none" THEN Abort(r)
  ELSE IF j.exc = "none" THEN [j EXCEPT !.r = ClearSegs(@)] ELSE j

\* Below the parameters are the outer stack pointer and segment; its own copy of the
\* parameters goes too.
RetOuter(r, cs, ip, fl, cells, o16, params) ==
  LET under == [r EXCEPT !.sp = @ + cells]
      sp == Peek(under, 0, o16)
      ss == Peek(under, 1, o16)
      into == [Drop(r, cells + 2 * WordCells(o16)) EXCEPT !.fl = fl, !.sp = sp + params, !.ss = ss]
      j == JumpTo(into, cs, ip) IN
  IF SegFault(r, "SS", ss) # "none" THEN Abort(r)
  ELSE IF j.exc = "none" THEN [j EXCEPT !.r = ClearSegs(@)] ELSE j

PmRet(r, o16, off, isiret) ==
  LET cs == Peek(r, 1, o16) % Half
      ip == Peek(r, 0, o16)
      fl == IF isiret THEN RetFlags(r, Peek(r, 2, o16), o16) ELSE r.fl
      cells == (IF isiret THEN 3 ELSE 2) * WordCells(o16) + off
      back == r.tss[r.tr].back IN
  IF isiret /\ r.fl.vm THEN Throw(r, "GP")
  ELSE IF isiret /\ r.fl.nt
       THEN IF back = 0 THEN Throw(r, "TS") ELSE TaskSwitch(r, back, "iret")
  ELSE IF isiret /\ fl.vm THEN RetToV86(r, fl)
  ELSE IF Rpl(cs) < r.cpl THEN Throw(r, "GP")
  ELSE IF RetCsFault(r, cs) # "none" THEN Throw(r, RetCsFault(r, cs))
  ELSE IF Rpl(cs) = r.cpl THEN RetSame(r, cs, ip, fl, cells)
  ELSE RetOuter(r, cs, ip, fl, cells, o16, off)

\* RETF and IRET where segments are flat; in virtual 8086 mode IRET keeps IOPL.  A 32-bit
\* IRET is given up on.
FlatRet(r, o16, off, isiret) ==
  LET f == WordFlags(Peek(r, 2, o16))
      fl == IF isiret THEN [f EXCEPT !.vm = r.fl.vm, !.iopl = IF r.fl.vm THEN r.fl.iopl ELSE @]
            ELSE r.fl
      cells == (IF isiret THEN 3 ELSE 2) * WordCells(o16) + off IN
  IF isiret /\ ~o16 THEN Abort(r)
  ELSE Done(LoadCs([Drop(r, cells) EXCEPT !.fl = fl], Peek(r, 1, o16) % Half, Peek(r, 0, o16)))

\* The macros IRET, RETFARw, CALLFAR and JMPFAR.
Iret(r, o16) ==
  IF r.pe /\ (~r.fl.vm \/ r.fl.iopl < 3) THEN PmRet(r, o16, 0, TRUE) ELSE FlatRet(r, o16, 0, TRUE)
RetFar(r, o16, off) ==
  IF Flat(r) THEN FlatRet(r, o16, off, FALSE) ELSE PmRet(r, o16, off, FALSE)
CallFar(r, sel, ip, o16, isjmp) ==
  IF ~Flat(r) THEN PmCall(r, sel, ip, o16, isjmp)
  ELSE Done(LoadCs(IF isjmp THEN r ELSE Push(r, <<r.cs, r.ip>>, o16), sel, ip))

(***************************************************************************)
(* What a guest does.  Its programs are loops of two instructions.         *)
(***************************************************************************)
NextIp(ip) == IF ip % 2 = 0 THEN ip + 1 ELSE ip - 1
Context(r) == [cs |-> r.cs, ss |-> r.ss, sp |-> r.sp, ip |-> r.ip, fl |-> r.fl, data |-> r.data,
               tr |-> r.tr]
Nothing == [ok |-> TRUE, exact |-> FALSE]

Boot(world) ==
  LET flags == [if |-> TRUE, nt |-> FALSE, vm |-> world = "v86", iopl |-> 0]
      flat == world \in {"real", "v86"} IN
  [pe |-> world # "real", cpl |-> IF world = "real" THEN 0 ELSE 3, fl |-> flags,
   cs |-> IF flat THEN 33 ELSE Sel(6, 3), ip |-> 0,
   ss |-> IF flat THEN 35 ELSE Sel(7, 3), sp |-> StackTop,
   data |-> [s \in DataRegs |->
     IF ~flat THEN Sel(7, 3)
     ELSE CASE s = "DS" -> 41 [] s = "ES" -> 42 [] s = "FS" -> 43 [] s = "GS" -> 45],
   tr |-> 10, busy |-> {10},
   tss |-> [t \in {10, 11} |-> IF t = 10 THEN NoContext ELSE
     [cs |-> Sel(1, 0), ss |-> Sel(12, 0), sp |-> StackTop, ip |-> Half + 40,
      fl |-> [flags EXCEPT !.vm = FALSE], data |-> [s \in DataRegs |-> 0], back |-> 0]],
   stk |-> [s \in Stacks |-> [a \in 0 .. StackTop - 1 |-> 0]]]

\* world: "real", "v86", "rings" or "tasks".
XferInit(world) ==
  /\ regs \in {[Boot(world) EXCEPT !.fl.iopl = iopl] : iopl \in {0, 3}}
  /\ regs.fl.iopl = 3 => Flat(regs)
  /\ absent = {} /\ floor = StackTop - 4
  /\ open = <<>> /\ resumed = Nothing /\ own = [ring |-> regs.cpl, nt |-> FALSE] /\ dead = FALSE

\* A CPU that makes no transfers.
XferIdle ==
  /\ regs = [pe |-> FALSE] /\ absent = {} /\ floor = 0
  /\ open = <<>> /\ resumed = Nothing /\ own = [ring |-> 0, nt |-> FALSE] /\ dead = FALSE

\* What a transfer leaves behind, and how its handler comes back: by IRET or RETF, of
\* which size, dropping how many parameter cells.
OpenFrame(kind, ctx, o16, off, err, exact) ==
  [kind |-> kind, ctx |-> ctx, o16 |-> o16, off |-> off, err |-> err, exact |-> exact,
   loaded |-> FALSE, tr |-> IF kind = "task" THEN 11 ELSE ctx.tr]

\* A 16-bit gate keeps 16 bits of the address, and none of it beside an error code in
\* the same ring; a conforming segment of an inner ring cannot be returned to.
IsrFrame(r, v, err, torn) ==
  LET g == Idt[v] IN
  IF ~r.pe THEN OpenFrame("isr", Context(r), TRUE, 0, FALSE, TRUE)
  ELSE IF g.kind = "task" THEN OpenFrame("task", Context(r), FALSE, 0, FALSE, ~torn)
  ELSE OpenFrame("isr", Context(r), g.o16, 0, err,
             /\ ~torn
             /\ g.o16 => r.ip < Half /\ ~(err /\ r.cpl = Gdt[g.code].dpl)
             /\ ~r.fl.vm /\ Gdt[Index(r.cs)].conforming => Gdt[Index(r.cs)].dpl = r.cpl)

Dies == dead' = TRUE /\ UNCHANGED <<regs, open>>

\* cpui386_step: an exception of the instruction that ended as res is delivered at once;
\* one thrown by the delivery ends the emulator.  before: the registers it started from.
Deliver(res, before) ==
  LET err == HasError(res.exc)
      isr == CallIsr([res.r EXCEPT !.ip = before.ip], res.exc, err, TRUE) IN
  IF res.exc = "abort" \/ isr.exc # "none" THEN Dies
  ELSE /\ regs' = isr.r
       /\ open' = Append(open, IsrFrame(before, res.exc, err, res.torn))
       /\ UNCHANGED dead

\* An instruction that ends as res opens the transfer frame, if it opens one.
Execute(res, frames) ==
  /\ IF res.exc = "none"
     THEN regs' = res.r /\ open' = open \o frames /\ UNCHANGED dead
     ELSE Deliver(res, regs)
  /\ resumed' = Nothing
  /\ UNCHANGED <<absent, floor>>

After(r) == [r EXCEPT !.ip = NextIp(@)]
\* How deep transfers nest; one less over a program that has set NT.
MayNest == Len(open) + (IF own.nt THEN 1 ELSE 0) < MaxNested /\ ~dead

\* cpui386_step: an interrupt between two instructions.
Interrupt ==
  LET res == CallIsr(regs, "irq", FALSE, TRUE) IN
  /\ MayNest /\ regs.fl.if
  /\ IF res.exc # "none" THEN Dies
     ELSE /\ regs' = res.r /\ open' = Append(open, IsrFrame(regs, "irq", FALSE, FALSE))
          /\ UNCHANGED dead
  /\ resumed' = Nothing
  /\ UNCHANGED <<absent, floor, own>>

\* INT n, in a program: a kernel needs none.
IntN(v) ==
  /\ MayNest /\ (regs.pe => regs.cpl > 0)
  /\ v = "sub" => regs.pe /\ ~regs.fl.vm /\ 11 \notin regs.busy
  /\ Execute(IF regs.fl.vm /\ regs.fl.iopl < 3 THEN Throw(regs, "GP")
             ELSE CallIsr(After(regs), v, FALSE, FALSE),
             <<IsrFrame(After(regs), v, FALSE, FALSE)>>)
  /\ UNCHANGED own

\* An instruction that cannot be carried out.
Fault(v) ==
  /\ MayNest /\ regs.pe
  /\ Execute(Throw(regs, v), <<>>)
  /\ UNCHANGED own

\* A far call; what is dropped on return was pushed before it.
Call(sel, o16, off) ==
  LET back == [Context(After(regs)) EXCEPT !.sp = @ + off]
      kind == IF ~Flat(regs) /\ Gdt[Index(sel)].kind = "task" THEN "task" ELSE "call" IN
  /\ MayNest
  /\ Execute(CallFar(After(regs), sel, 0, o16, FALSE),
             <<OpenFrame(kind, back, o16, off, FALSE, TRUE)>>)
  /\ UNCHANGED own

\* A far jump: to code of the same ring, through a call gate to an inner ring, for good and
\* on its stack, or to another task, which goes on where it was.
Jump(sel) ==
  LET res == CallFar(After(regs), sel, 0, FALSE, TRUE)
      d   == Gdt[Index(sel)]
      t   == regs.tss[Index(sel)] IN
  /\ ~dead
  /\ IF ~Flat(regs) /\ d.kind = "tss"
     THEN /\ regs' = res.r
          /\ dead' = (res.exc # "none")
          /\ resumed' = [ok |-> res.exc = "none", exact |-> TRUE, loaded |-> FALSE, got |-> Context(res.r),
                         want |-> [cs |-> t.cs, ss |-> t.ss, sp |-> t.sp, ip |-> t.ip, fl |-> t.fl,
                                   data |-> t.data, tr |-> Index(sel)]]
          /\ UNCHANGED <<open, absent, floor>>
     ELSE Execute(res, <<>>)
  /\ own' = IF ~Flat(regs) /\ d.kind = "call" /\ res.exc = "none"
            THEN [own EXCEPT !.ring = Gdt[d.code].dpl] ELSE own

\* Code that a jump brought to ring 1 goes back to the program by a far return it makes up.
Leave ==
  /\ ~dead /\ open = <<>> /\ own.ring = 1
  /\ Execute(RetFar(Push(regs, <<Sel(7, 3), StackTop, Sel(6, 3), 0>>, FALSE), FALSE, 0), <<>>)
  /\ own' = [own EXCEPT !.ring = 3]

\* A program pushes a parameter.
PushParam(o16) ==
  /\ ~dead /\ regs.sp = StackTop /\ open = <<>>
  /\ Execute(Done(After(Push(regs, <<9>>, o16))), <<>>)
  /\ UNCHANGED own

\* A program returns by a frame it made up, with interrupts off, IOPL 3 and a task to return
\* to (NT) if by IRET; if that faults, it is ended.
Forge(sel, isiret, nt, o16) ==
  LET flags == FlagsWord([if |-> FALSE, nt |-> nt, vm |-> FALSE, iopl |-> 3])
      made == Push(regs, (IF isiret THEN <<flags>> ELSE <<>>) \o <<sel, 0>>, o16)
      res == IF isiret THEN Iret(made, o16) ELSE RetFar(made, o16, 0) IN
  /\ ~dead /\ open = <<>> /\ Mapped(regs, 3, o16) /\ regs.sp = StackTop
  /\ IF res.exc = "none" THEN regs' = res.r /\ UNCHANGED <<open, dead>>
                         ELSE Deliver([res EXCEPT !.torn = TRUE], made)
  /\ own' = IF isiret /\ res.exc = "none" THEN [own EXCEPT !.nt = nt] ELSE own
  /\ resumed' = Nothing
  /\ UNCHANGED <<absent, floor>>

\* The handler of the innermost open transfer is running.
Handling == ~dead /\ open # <<>> /\ open[Len(open)].tr = regs.tr

\* A handler drops its error code.
PopError ==
  /\ Handling /\ open[Len(open)].err
  /\ regs' = Drop(regs, WordCells(open[Len(open)].o16))
  /\ open' = [open EXCEPT ![Len(open)].err = FALSE]
  /\ resumed' = Nothing
  /\ UNCHANGED <<absent, floor, own, dead>>

\* A handler returns, as its frame wants it.  A program that cannot be resumed is ended.
Return ==
  LET top == open[Len(open)]
      res == IF top.kind = "call" THEN RetFar(regs, top.o16, top.off) ELSE Iret(regs, top.o16) IN
  /\ Handling /\ ~top.err /\ top.exact
  /\ IF res.exc = "none"
     THEN /\ regs' = res.r /\ open' = SubSeq(open, 1, Len(open) - 1)
          /\ resumed' = [ok |-> TRUE, exact |-> TRUE, loaded |-> top.loaded, want |-> top.ctx,
                         got |-> Context(res.r)]
          /\ UNCHANGED dead
     ELSE /\ MayNest
          /\ Deliver(res, regs)
          /\ resumed' = [ok |-> res.exc = "NP", exact |-> TRUE, loaded |-> FALSE,
                         want |-> regs.cpl, got |-> regs.cpl]
  /\ UNCHANGED <<absent, floor, own>>

\* The interrupt handler loads a data segment of the kernel and leaves it there.
LoadDs ==
  /\ Handling /\ Len(open) = 1 /\ regs.ip = Idt["irq"].ip /\ ~open[1].loaded
  /\ regs.pe /\ SegFault(regs, "DS", Sel(2, 0)) = "none"
  /\ regs' = [regs EXCEPT !.data["DS"] = Sel(2, 0)]
  /\ open' = [open EXCEPT ![1].loaded = TRUE]
  /\ resumed' = Nothing
  /\ UNCHANGED <<absent, floor, own, dead>>

\* A system call takes segments of ring 1 out of memory and brings them back; its stack
\* only while no one is on it.
SwapSegment(i) ==
  /\ ~dead /\ regs.ip = Idt["sys"].ip
  /\ i = 5 => \A k \in DOMAIN open : Index(open[k].ctx.ss) # 5
  /\ absent \subseteq {i}
  /\ absent' = {i} \ absent
  /\ resumed' = Nothing
  /\ UNCHANGED <<regs, floor, open, own, dead>>

\* The page fault handler maps more of the program's stack.
GrowStack ==
  /\ ~dead /\ regs.pe /\ regs.ip = Idt["PF"].ip /\ floor > 0
  /\ floor' = 0
  /\ resumed' = Nothing
  /\ UNCHANGED <<regs, absent, open, own, dead>>

\* The guests: one whose segments are flat, in real mode or in virtual 8086 mode under a
\* kernel; a program of ring 3 with its helper in ring 1 and the kernel; two tasks that call
\* each other, or that the kernel switches between.
InFlat(world)    == world \in {"real", "v86"} /\ Flat(regs)
InProgram(world) == world = "rings" /\ ~Flat(regs) /\ regs.cpl = 3

Traps(world)  == {"sys", "irq", IF world = "tasks" THEN "sub" ELSE "mon"}
Faults(world) == IF InProgram(world) THEN {"UD", "GP"} ELSE {"UD"}

\* Far calls: selector, operand size and cells of parameters, which have been pushed.
FarCalls(world) ==
  CASE InFlat(world) -> {37} \X BOOLEAN \X {0}
    [] InProgram(world) ->
         {c \in {Sel(i, 3) : i \in {6, 3, 1, 0}} \X {FALSE} \X {0}
                  \cup {<<Sel(8, 3), FALSE, 2>>, <<Sel(9, 3), TRUE, 1>>} :
            c[3] > 0 => regs.sp = StackTop - c[3]}
    [] world = "tasks" /\ 11 \notin regs.busy -> {<<Sel(13, 3), FALSE, 0>>}
    [] OTHER -> {}

FarJumps(world) ==
  CASE InFlat(world) -> {37}
    [] InProgram(world) -> {Sel(6, 0), Sel(7, 3)} \cup IF open = <<>> THEN {Sel(8, 3), Sel(9, 3)} ELSE {}
    [] world = "tasks" /\ regs.cpl = 0 -> {Sel(t, 0) : t \in {10, 11} \ regs.busy}
    [] OTHER -> {}

\* Frames made up: selector, whether for IRET, its NT, and size.
Forged(world) ==
  CASE InFlat(world) -> {33, 37} \X {<<TRUE, FALSE, TRUE>>, <<TRUE, TRUE, TRUE>>, <<FALSE, FALSE, TRUE>>,
                                      <<FALSE, FALSE, FALSE>>}
    [] InProgram(world) -> {Sel(1, 0), Sel(1, 3), Sel(6, 3), Sel(4, 1)}
                             \X {<<TRUE, FALSE, FALSE>>, <<FALSE, FALSE, FALSE>>}
                             \cup {<<Sel(6, 3), <<TRUE, TRUE, FALSE>>>>}
    [] OTHER -> {}

\* The guest of a world (XferInit).
XferNext(world) ==
  \/ Interrupt \/ PopError \/ Return
  \/ \E v \in Traps(world) : IntN(v)
  \/ \E v \in Faults(world) : Fault(v)
  \/ \E c \in FarCalls(world) : Call(c[1], c[2], c[3])
  \/ \E sel \in FarJumps(world) : Jump(sel)
  \/ \E f \in Forged(world) : Forge(f[1], f[2][1], f[2][2], f[2][3])
  \/ world # "tasks" /\ LoadDs
  \/ InProgram(world) /\ \E o16 \in BOOLEAN : PushParam(o16)
  \/ world = "rings" /\ (GrowStack \/ Leave \/ \E i \in {4, 5, 8} : SwapSegment(i))

(***************************************************************************)
(* Properties.                                                             *)
(***************************************************************************)
\* The last return came back to the very context that was left, ring, stack, flags,
\* data segments and task, through whatever nesting of gates, rings and modes
\* (call_isr, pmcall, pmret, task_switch); a data segment the handler loaded is
\* emptied if the return went outwards (clear_segs).
ComesBack(want, got, loaded) ==
  /\ [f \in {"cs", "ss", "sp", "ip", "tr"} |-> want[f]] = [f \in {"cs", "ss", "sp", "ip", "tr"} |-> got[f]]
  /\ want.fl = got.fl
  /\ \A s \in DataRegs :
       got.data[s] = IF loaded /\ s = "DS" /\ ~want.fl.vm THEN 0 ELSE want.data[s]

TransfersReturn ==
  /\ ~dead
  /\ resumed.exact => resumed.ok /\ (resumed.got # resumed.want => ComesBack(resumed.want, resumed.got, resumed.loaded))

\* Outside real mode the rings agree (set_seg, pmcall, call_isr, pmret, task_switch): CS, its
\* descriptor and the stack with CPL, no data segment of an inner ring is left to an outer one,
\* interrupts are off only where IOPL allows it, and an inner ring is only entered by a transfer
\* that is still open, or by a jump through a call gate, which leaves no frame: then the CPU
\* stays in the ring of the gate, whatever interrupts it, until that code leaves it.  A task
\* that IRET would leave (NT) has one to return to, except where a program has set NT by an IRET
\* of its own, which pmret lets it: it then has it until an interrupt or an exception is served.
RingsKept ==
  regs.pe =>
    /\ regs.fl.vm => regs.cpl = 3
    /\ regs.fl.iopl < regs.cpl => regs.fl.if
    /\ open = <<>> /\ regs.tr = 10 => regs.cpl = own.ring
    /\ regs.tr \in regs.busy
    /\ regs.fl.nt => \/ regs.tss[regs.tr].back \in regs.busy \ {regs.tr}
                     \/ own.nt /\ \A k \in DOMAIN open : open[k].kind = "call"
    /\ ~regs.fl.vm =>
         LET d == Gdt[Index(regs.cs)] IN
         /\ Rpl(regs.cs) = regs.cpl
         /\ IF d.conforming THEN d.dpl <= regs.cpl ELSE d.dpl = regs.cpl
         /\ Gdt[Index(regs.ss)].dpl = regs.cpl
         /\ \A s \in DataRegs : regs.data[s] = 0 \/ Gdt[Index(regs.data[s])].dpl >= regs.cpl
=============================================================================
