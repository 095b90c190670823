------------------------------ MODULE MCPic8259 ------------------------------
(***************************************************************************)
(* Instances of Pic8259: which lines the devices drive and what the guest  *)
(* writes to the ports.                                                    *)
(***************************************************************************)
EXTENDS Pic8259, TLC

\* A guest's interrupt handlers: they end interrupts, highest first or by line.  It
\* may ask for special mask mode, which is without effect as it masks nothing.
EoiLines    == (0 :> {5}) @@ (1 :> {0, 6})
EoiCommands == Pics \X {"eoi", "specific_eoi"} \cup {<<1, "special">>, <<0, "rotate_aeoi">>}

\* A guest that masks the master's lines, rotates and sets the slave's priorities,
\* and initialises the slave again and polls it.
ModeLines    == (0 :> {5}) @@ (1 :> {7})
ModeCommands ==
  {0} \X {"eoi", "imr"}
    \cup {1} \X {"icw1", "icw2", "icw3", "icw4", "sfnm", "poll", "set_priority", "rotate_eoi"}
==============================================================================
