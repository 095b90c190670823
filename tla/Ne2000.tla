-------------------------------- MODULE Ne2000 -------------------------------
(***************************************************************************)
(* The network card (ne2000.c) and a driver of the usual kind.             *)
(*                                                                         *)
(* Memory is counted in pages of 256 bytes: a frame takes some, the first  *)
(* with a header that says where the next frame starts.  The driver keeps  *)
(* the boundary register one page behind the frame it reads next, reads    *)
(* frames by remote DMA, and frames arrive at any time in between.         *)
(***************************************************************************)
EXTENDS Integers, Sequences

CONSTANTS
  NicStart, NicStop,   \* the receive ring
  NicMaxPages,         \* pages of the largest frame with its header and CRC
  NicIds               \* bound: frames that are told apart

ASSUME NicAssumption ==
  /\ NicStart \in Nat /\ NicStop \in Nat /\ NicStart + 1 < NicStop
  /\ NicMaxPages \in Nat \ {0} /\ NicIds \in Nat \ {0}

VARIABLES
  nic,       \* registers
  nicmem,    \* pages: which part of which frame
  drv,       \* the driver: what it reads and where it stands
  unread     \* history: frames accepted and not yet released, until the ring is overrun

nicVars == <<nic, nicmem, drv, unread>>

Ring0 == NicStart .. NicStop - 1
NicEmpty == [id |-> 0, part |-> 0, next |-> 0]   \* contents that are not followed

\* A page of the ring, from an address that may have run past its end; how far round the ring
\* a page comes after another; and the page before.
Wrapped(page) == IF page >= NicStop THEN page - (NicStop - NicStart) ELSE page
Offset(page, at) == IF page >= at THEN page - at ELSE page - at + (NicStop - NicStart)
Before(page) == IF page = NicStart THEN NicStop - 1 ELSE page - 1

\* isa_ne2000_init and ne2000_reset, then the driver's set-up; the chip is still stopped.
NicInit ==
  /\ nic = [stop |-> TRUE, boundary |-> Before(NicStart), curpag |-> NicStart, rsar |-> NicStart,
            rcnt |-> 0, isr |-> {}, imr |-> {}, rxcr |-> {}, line |-> FALSE, stale |-> FALSE]
  /\ nicmem = [p \in Ring0 |-> NicEmpty]
  /\ drv = [pc |-> "idle", next |-> NicStart, page |-> 0, left |-> 0, id |-> 1, torn |-> FALSE,
            over |-> FALSE]
  /\ unread = << >>

\* ne2000_update_irq.
NicUpdateIrq(n) == [n EXCEPT !.line = n.isr \cap n.imr # {}, !.stale = FALSE]

\* Mutant: the room of the largest frame is taken without its last page.
BufferFullLate(n) ==
  LET avail == IF n.curpag < n.boundary THEN n.boundary - n.curpag
                                        ELSE (NicStop - NicStart) - (n.curpag - n.boundary)
  IN  avail < NicMaxPages - 1

\* ne2000_buffer_full.
BufferFull(n) ==
  LET avail == IF n.curpag < n.boundary THEN n.boundary - n.curpag
                                        ELSE (NicStop - NicStart) - (n.curpag - n.boundary)
  IN  avail < NicMaxPages

\* ne2000_receive: the address filter.
Accepts(n, kind) ==
  \/ "promiscuous" \in n.rxcr
  \/ kind = "mine"
  \/ kind \in {"broadcast", "multicast"} /\ kind \in n.rxcr

\* ne2000_receive: header, data around the end of the ring, and the new current page.
\* A ring that is filled to the very page of the boundary register counts as empty, so the
\* next frame is laid over it: history drv.over, until the driver sets the ring up again.
\* What its pages then hold is not followed page by page: each may hold anything.
Deposit(pages) ==
  LET at   == nic.curpag
      over == drv.over \/ at = nic.boundary
      next == Wrapped(at + pages)
      id   == drv.id
      mem  == [p \in Ring0 |->
                 IF Offset(p, at) < pages THEN [id |-> id, part |-> Offset(p, at), next |-> next]
                                          ELSE nicmem[p]]
      none == [p \in Ring0 |-> NicEmpty]
  IN  /\ nicmem' = IF over THEN none ELSE mem
      /\ nic' = NicUpdateIrq([nic EXCEPT !.curpag = next, !.isr = @ \cup {"rx"}])
      /\ unread' = IF over THEN << >> ELSE Append(unread, [id |-> id, at |-> at, pages |-> pages])
      /\ drv' = [drv EXCEPT !.id = IF over THEN 1 ELSE (id % NicIds) + 1, !.over = over]

Receive(kind, pages) ==
  IF nic.stop \/ BufferFull(nic) \/ ~Accepts(nic, kind)
  THEN UNCHANGED <<nic, nicmem, drv, unread>>
  ELSE Deposit(pages)

(***************************************************************************)
(* The ports.                                                              *)
(***************************************************************************)
\* ne2000_ioport_write to the command register: stop and start.  The driver sets the ring up
\* again before it starts the chip.
StopChip ==
  /\ drv.pc = "idle" /\ ~nic.stop
  /\ nic' = [nic EXCEPT !.stop = TRUE]
  /\ UNCHANGED <<nicmem, drv, unread>>

StartChip ==
  /\ drv.pc = "idle" /\ nic.stop
  /\ \E rxcr \in {{}, {"broadcast"}, {"multicast"}, {"promiscuous"}} :
       nic' = NicUpdateIrq([nic EXCEPT !.stop = FALSE, !.boundary = Before(NicStart), !.rxcr = rxcr,
                                       !.curpag = NicStart, !.imr = {"rx", "tx", "rdc"}])
  /\ drv' = [drv EXCEPT !.next = NicStart, !.over = FALSE]
  /\ unread' = << >>
  /\ nicmem' = [p \in Ring0 |-> NicEmpty]

\* The transmit bit: the frame, if it lies in memory, is sent at once.
Transmit ==
  /\ ~nic.stop
  /\ nic' = NicUpdateIrq([nic EXCEPT !.isr = @ \cup {"tx"}])
  /\ UNCHANGED <<nicmem, drv, unread>>

\* ISR and IMR.
AckIsr(bit) ==
  /\ nic' = NicUpdateIrq([nic EXCEPT !.isr = @ \ {bit}])
  /\ UNCHANGED <<nicmem, drv, unread>>

\* ne2000_reset: the interrupt status goes, the line stays as it is.
ResetPort ==
  /\ drv.pc = "idle"
  /\ nic' = [nic EXCEPT !.isr = {}, !.stale = nic.line]
  /\ UNCHANGED <<nicmem, drv, unread>>

\* ne2000_dma_update for a page of reads: the address wraps, the count runs out.
DmaUpdate(n) ==
  LET rsar == IF n.rsar + 1 = NicStop THEN NicStart ELSE n.rsar + 1 IN
  IF n.rcnt <= 1 THEN NicUpdateIrq([n EXCEPT !.rsar = rsar, !.rcnt = 0, !.isr = @ \cup {"rdc"}])
                 ELSE [n EXCEPT !.rsar = rsar, !.rcnt = @ - 1]

(***************************************************************************)
(* The driver's receive path.                                              *)
(***************************************************************************)
\* It reads CURPAG; while that is not where it stands, there is a frame.  It sets the remote
\* address and count for the header's page.
DrvPoll ==
  /\ drv.pc = "idle" /\ ~nic.stop /\ drv.next # nic.curpag
  /\ nic' = [nic EXCEPT !.rsar = drv.next, !.rcnt = 1]
  /\ drv' = [drv EXCEPT !.pc = "header"]
  /\ UNCHANGED <<nicmem, unread>>

\* ne2000_asic_ioport_read of the first page: how long the frame is and where the next one is.
\* After an overrun anything may stand there, a header or not, and names any page.
NextPages(h) == IF h.id # 0 THEN {h.next} ELSE Ring0

DrvHeader ==
  /\ drv.pc = "header"
  /\ \E to \in NextPages(nicmem[nic.rsar]) :
       LET pages == IF to > drv.next THEN to - drv.next ELSE to - drv.next + (NicStop - NicStart)
       IN  /\ nic' = DmaUpdate(nic)
           /\ drv' = [drv EXCEPT !.pc = IF pages = 1 THEN "release" ELSE "body",
                                 !.page = to, !.left = pages - 1,
                                 !.torn = @ \/ (~drv.over /\ nicmem[nic.rsar].id # Head(unread).id)]
  /\ UNCHANGED <<nicmem, unread>>

DrvBody ==
  /\ drv.pc = "body"
  /\ LET part == nicmem[nic.rsar] IN
     /\ nic' = DmaUpdate(nic)
     /\ drv' = [drv EXCEPT !.left = @ - 1, !.pc = IF drv.left = 1 THEN "release" ELSE "body",
                           !.torn = @ \/ (~drv.over /\ part.id # Head(unread).id)]
  /\ UNCHANGED <<nicmem, unread>>

\* The frame's pages are given back; their contents no longer matter.
DrvRelease ==
  /\ drv.pc = "release"
  /\ nic' = [nic EXCEPT !.boundary = Before(drv.page)]
  /\ drv' = [drv EXCEPT !.pc = "idle", !.next = drv.page, !.page = 0]
  /\ IF drv.over
     THEN UNCHANGED <<nicmem, unread>>
     ELSE /\ unread' = Tail(unread)
          /\ nicmem' = [p \in Ring0 |->
                          IF Offset(p, Head(unread).at) < Head(unread).pages THEN NicEmpty
                                                                             ELSE nicmem[p]]

NetNext ==
  \/ \E kind \in {"mine", "broadcast", "multicast", "other"}, pages \in 1 .. NicMaxPages :
       Receive(kind, pages)
  \/ StopChip \/ StartChip \/ Transmit \/ ResetPort
  \/ \E bit \in {"rx", "tx", "rdc"} : AckIsr(bit)
  \/ DrvPoll \/ DrvHeader \/ DrvBody \/ DrvRelease

NicSpec == NicInit /\ [][NetNext]_nicVars

(***************************************************************************)
(* Properties.                                                             *)
(***************************************************************************)
\* ne2000_receive, ne2000_buffer_full: frames that arrive while the driver is busy with
\* earlier ones never touch what it has not released: every unread frame lies whole, in order
\* and around the end of the ring, where the headers say, and the driver reads no page of
\* another; and the line is up exactly while an enabled cause is pending, until a reset.
\* Excepted is a ring that was overrun (drv.over): a frame that fills it to the very page of
\* the boundary register makes ne2000_buffer_full count it as empty, and from the next frame
\* on nothing is promised until the driver sets the ring up again.
RingIntact ==
  /\ ~drv.torn
  /\ ~drv.over =>
       \A i \in DOMAIN unread :
         /\ \A j \in 0 .. unread[i].pages - 1 :
              LET page == nicmem[Wrapped(unread[i].at + j)]
              IN  page.id = unread[i].id /\ page.part = j
         /\ Wrapped(unread[i].at + unread[i].pages) =
              IF i < Len(unread) THEN unread[i + 1].at ELSE nic.curpag
  /\ ~nic.stale => nic.line = (nic.isr \cap nic.imr # {})
==============================================================================
