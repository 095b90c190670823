------------------------------ MODULE Machine ------------------------------
(***************************************************************************)
(* The devices on one board.  They share no state but the lines to the     *)
(* interrupt controller, so each is exercised by a guest of its own, the   *)
(* workload, while the others rest: the state space is the sum of theirs.  *)
(***************************************************************************)
EXTENDS Pit8254, Kbd8042, Sb16, PcMisc, Ne2000, VgaScreen, PciBoard, Mmu386, Transfer386,
        RepString

VARIABLE workload

machineVars == <<pitVars, kbVars, sbVars, miscVars, nicVars, vgaVars, pciVars, mmuVars, xferVars, strVars,
                 workload>>

Sounds  == {"dsp", "play8", "play16", "single", "switch", "rate"}
Screens == {"band", "planar", "text", "modes", "vbe", "lcd", "retrace"}
Worlds  == {"real", "v86", "rings", "tasks"}
Strings == {"stos", "lods", "scas", "movs", "cmps", "ins", "outs"}
Workloads == Sounds \cup Screens \cup Worlds \cup Strings
               \cup {"timer", "measure", "speaker", "keyboard", "mouse", "serial", "clock", "floppy",
                     "network", "bus", "paging"}

\* The display mode a workload starts in.
StartMode(w) ==
  CASE w \in {"planar", "vbe"} -> w [] w \in {"text", "modes", "retrace"} -> "text" [] OTHER -> "band"

Init ==
  /\ workload \in Workloads
  /\ PitInit /\ KbInit /\ SbInit /\ MiscInit /\ NicInit /\ PciInit
  /\ IF workload \in Screens
     THEN VgaInit(StartMode(workload)) /\ (front.pending => workload = "retrace")
     ELSE VgaIdle
  /\ MmuInit
  /\ IF workload \in Worlds THEN XferInit(workload) ELSE XferIdle
  /\ IF workload \in Strings THEN StrInit(workload) ELSE StrIdle
  /\ (wp /\ pde.rights.write) \/ workload = "paging"

Pit     == \/ workload = "timer" /\ TimerNext
           \/ workload = "measure" /\ MeasureNext
           \/ workload = "speaker" /\ SpeakerNext
Kbd     == \/ workload = "keyboard" /\ KeyboardNext
           \/ workload = "mouse" /\ MouseNext
Misc    == \/ workload = "serial" /\ SerialNext
           \/ workload = "clock" /\ ClockNext
           \/ workload = "floppy" /\ FloppyNext
Display == \/ workload = "band" /\ BandNext
           \/ workload = "planar" /\ PlanarNext
           \/ workload = "text" /\ TextNext
           \/ workload = "modes" /\ ModesNext
           \/ workload = "vbe" /\ VbeNext
           \/ workload = "lcd" /\ LcdNext
           \/ workload = "retrace" /\ RetraceNext

Next ==
  /\ \/ Pit /\ UNCHANGED <<kbVars, sbVars, miscVars, nicVars, vgaVars, pciVars, mmuVars, xferVars, strVars>>
     \/ Kbd /\ UNCHANGED <<pitVars, sbVars, miscVars, nicVars, vgaVars, pciVars, mmuVars, xferVars, strVars>>
     \/ SoundNext(workload) /\ UNCHANGED <<pitVars, kbVars, miscVars, nicVars, vgaVars, pciVars, mmuVars, xferVars, strVars>>
     \/ Misc /\ UNCHANGED <<pitVars, kbVars, sbVars, nicVars, vgaVars, pciVars, mmuVars, xferVars, strVars>>
     \/ /\ workload = "network" /\ NetNext
        /\ UNCHANGED <<pitVars, kbVars, sbVars, miscVars, vgaVars, pciVars, mmuVars, xferVars, strVars>>
     \/ Display /\ UNCHANGED <<pitVars, kbVars, sbVars, miscVars, nicVars, pciVars, mmuVars, xferVars, strVars>>
     \/ /\ workload = "bus" /\ PciNext
        /\ UNCHANGED <<pitVars, kbVars, sbVars, miscVars, nicVars, vgaVars, mmuVars, xferVars, strVars>>
     \/ /\ workload = "paging" /\ MmuNext
        /\ UNCHANGED <<pitVars, kbVars, sbVars, miscVars, nicVars, vgaVars, pciVars, xferVars, strVars>>
     \/ /\ workload \in Worlds /\ XferNext(workload)
        /\ UNCHANGED <<pitVars, kbVars, sbVars, miscVars, nicVars, vgaVars, pciVars, mmuVars, strVars>>
     \/ /\ workload \in Strings /\ StrNext
        /\ UNCHANGED <<pitVars, kbVars, sbVars, miscVars, nicVars, vgaVars, pciVars, mmuVars, xferVars>>
  /\ UNCHANGED workload

Spec == Init /\ [][Next]_machineVars
=============================================================================
