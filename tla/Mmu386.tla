------------------------------- MODULE Mmu386 -------------------------------
(***************************************************************************)
(* The CPU's address translation (i386.c): two-level page tables in guest  *)
(* memory, the direct-mapped TLB, the read and write caches before it      *)
(* (dtlb_fast, TINY386_ARM_FAST) and the page the instruction fetch is in. *)
(* One page table is modelled, with the directory entry that leads to it.  *)
(***************************************************************************)
EXTENDS Integers

CONSTANTS
  MmuPages,    \* linear pages 0 .. MmuPages - 1
  KernelPages, \* the linear pages the guest's kernel maps and unmaps
  MmuFrames,   \* physical pages they may map to
  TlbSlots,    \* tlb_size
  FastSlots,   \* NSPIRE_DTLB_FAST_SLOTS
  ArmFast      \* TINY386_ARM_FAST

ASSUME MmuAssumption ==
  /\ MmuPages \in Nat /\ KernelPages \subseteq 0 .. MmuPages - 1
  /\ MmuFrames \subseteq Nat /\ 0 \in MmuFrames
  /\ TlbSlots \in Nat \ {0} /\ FastSlots \in Nat \ {0} /\ ArmFast \in BOOLEAN

VARIABLES
  pde,         \* the directory entry: rights
  pt,          \* the page table
  wp,          \* CR0.WP
  tlb,         \* cpu->tlb.tab
  fast,        \* cpu->dtlb_fast, "read" and "write"
  ifetch,      \* cpu->ifetch
  walked,      \* history: the last access and what came of it
  owed,        \* history: pages whose entry lost something since the last flush
  relaxed      \* history: pages whose entry gained rights since the last flush

mmuVars == <<pde, pt, wp, tlb, fast, ifetch, walked, owed, relaxed>>

LPages == 0 .. MmuPages - 1
Rights == [user : BOOLEAN, write : BOOLEAN]
NoEntry == [page |-> -1]

NoPage == [present |-> FALSE, rights |-> [user |-> FALSE, write |-> FALSE], frame |-> 0,
           accessed |-> FALSE, dirty |-> FALSE]

MappedTo(rights, frame) ==
  [present |-> TRUE, rights |-> rights, frame |-> frame, accessed |-> FALSE, dirty |-> FALSE]

MmuInit ==
  /\ pde \in [rights : {r \in Rights : r.user}, accessed : {FALSE}]
  /\ pt = [p \in LPages |-> IF p \in KernelPages THEN NoPage
                           ELSE MappedTo([user |-> TRUE, write |-> TRUE], 0)]
  /\ wp \in BOOLEAN
  /\ tlb = [s \in 0 .. TlbSlots - 1 |-> NoEntry]
  /\ fast = [k \in {"read", "write"} |-> [s \in 0 .. FastSlots - 1 |-> NoEntry]]
  /\ ifetch = NoEntry
  /\ walked = NoEntry /\ owed = {} /\ relaxed = {}

\* What the two levels allow together: pte & (pde & 7).
Both(p) == [user |-> pt[p].rights.user /\ pde.rights.user,
            write |-> pt[p].rights.write /\ pde.rights.write]

\* pte_lookup: whether rights r refuse an access; user stands for cpl > 0.
Refuses(r, user, write, protect) ==
  \/ user /\ ~r.user
  \/ write /\ ~r.write /\ (user \/ protect)

\* tlb_refill: the entry remembers the rights and CR0.WP of its time.
Refilled(p) == [page |-> p, frame |-> pt[p].frame, rights |-> Both(p), protect |-> wp]

\* The directory entry is marked even when the page is then found absent.
Accessed(p, written) ==
  /\ pde' = [pde EXCEPT !.accessed = TRUE]
  /\ pt' = IF ~pt[p].present THEN pt
           ELSE [pt EXCEPT ![p].accessed = TRUE, ![p].dirty = @ \/ written]

Failed(p, user, write, present) ==
  /\ walked' = [page |-> p, user |-> user, write |-> write, ok |-> FALSE, present |-> present,
                granted |-> p \in relaxed]
  /\ relaxed' = relaxed \ {p}

Reached(p, user, write, frame) ==
  /\ walked' = [page |-> p, user |-> user, write |-> write, ok |-> TRUE, frame |-> frame]
  /\ UNCHANGED relaxed

Entry(p) == IF tlb[p % TlbSlots].page = p THEN tlb[p % TlbSlots] ELSE Refilled(p)
Hit(p) == tlb[p % TlbSlots].page = p

\* The caches before the TLB: a read may use either, a write its own.
FastHits(p, user, write) ==
  {e \in {fast["write"][p % FastSlots]} \cup (IF write THEN {} ELSE {fast["read"][p % FastSlots]}) :
     e.page = p /\ e.user = user}

\* After a fault the page is in none of them.
FastDropped(p) ==
  IF ~ArmFast THEN fast
  ELSE [k \in {"read", "write"} |->
          [fast[k] EXCEPT ![p % FastSlots] = IF @.page = p THEN NoEntry ELSE @]]

FastFilled(p, user, write, e) ==
  IF ~ArmFast THEN fast
  ELSE [fast EXCEPT ![IF write THEN "write" ELSE "read"][p % FastSlots] =
          [page |-> p, frame |-> e.frame, user |-> user]]

\* Through the TLB: translate_lpgno, and the rest of translate_lpgno_fast.
Translate(p, user, write) ==
  LET e == Entry(p)
      s == p % TlbSlots IN
  \/ /\ ~Hit(p) /\ ~pt[p].present
     /\ Accessed(p, FALSE)
     /\ Failed(p, user, write, FALSE)
     /\ UNCHANGED <<tlb, fast>>
  \/ /\ Hit(p) \/ pt[p].present
     /\ Refuses(e.rights, user, write, e.protect)
     /\ IF Hit(p) THEN UNCHANGED <<pde, pt>> ELSE Accessed(p, FALSE)
     /\ tlb' = [tlb EXCEPT ![s] = NoEntry]
     /\ fast' = FastDropped(p)
     /\ Failed(p, user, write, TRUE)
  \/ /\ Hit(p) \/ pt[p].present
     /\ ~Refuses(e.rights, user, write, e.protect)
     /\ IF Hit(p) THEN /\ pt' = [pt EXCEPT ![p].dirty = @ \/ write]
                       /\ UNCHANGED pde
        ELSE Accessed(p, write)
     /\ tlb' = [tlb EXCEPT ![s] = e]
     /\ fast' = FastFilled(p, user, write, e)
     /\ Reached(p, user, write, e.frame)

\* translate_lpgno_fast.  A write that hits was marked dirty when the entry was filled.
Access(p, user, write) ==
  /\ IF ArmFast /\ FastHits(p, user, write) # {}
     THEN /\ \E e \in FastHits(p, user, write) : Reached(p, user, write, e.frame)
          /\ UNCHANGED <<pde, pt, tlb, fast>>
     ELSE Translate(p, user, write)
  /\ UNCHANGED <<wp, ifetch, owed>>

\* peek8: a byte of the page the last fetch was in needs no translation, at either
\* privilege; otherwise translate8r, which leaves the caches before the TLB alone.
Fetch(p, user) ==
  /\ IF ifetch.page = p
     THEN /\ walked' = NoEntry
          /\ UNCHANGED <<pde, pt, tlb, ifetch, relaxed>>
     ELSE LET e == Entry(p)
              s == p % TlbSlots IN
          \/ /\ ~Hit(p) /\ ~pt[p].present
             /\ Accessed(p, FALSE)
             /\ Failed(p, user, FALSE, FALSE)
             /\ UNCHANGED <<tlb, ifetch>>
          \/ /\ Hit(p) \/ pt[p].present
             /\ IF Hit(p) THEN UNCHANGED <<pde, pt>> ELSE Accessed(p, FALSE)
             /\ IF Refuses(e.rights, user, FALSE, e.protect)
                THEN /\ tlb' = [tlb EXCEPT ![s] = NoEntry]
                     /\ Failed(p, user, FALSE, TRUE)
                     /\ UNCHANGED ifetch
                ELSE /\ tlb' = [tlb EXCEPT ![s] = e]
                     /\ Reached(p, user, FALSE, e.frame)
                     /\ ifetch' = [page |-> p, frame |-> e.frame]
  /\ UNCHANGED <<wp, fast, owed>>

(***************************************************************************)
(* The guest's kernel.                                                     *)
(***************************************************************************)
\* Mutant: the caches before the TLB are forgotten.
TlbClearOnlyTlb ==
  /\ tlb' = [s \in DOMAIN tlb |-> NoEntry]
  /\ ifetch' = NoEntry
  /\ UNCHANGED fast

\* tlb_clear.
TlbClear ==
  /\ tlb' = [s \in DOMAIN tlb |-> NoEntry]
  /\ ifetch' = NoEntry
  /\ fast' = [k \in DOMAIN fast |-> [s \in DOMAIN fast[k] |-> NoEntry]]

\* A write of CR3, INVLPG and a task switch clear everything.
Flush386 ==
  /\ TlbClear
  /\ walked' = NoEntry /\ owed' = {} /\ relaxed' = {}
  /\ UNCHANGED <<pde, pt, wp>>

\* MOVTC: CR0 with another WP.
WriteWp ==
  /\ wp' = ~wp
  /\ TlbClear
  /\ walked' = NoEntry /\ owed' = {} /\ relaxed' = {}
  /\ UNCHANGED <<pde, pt>>

Weaker(r, q) == (r.user => q.user) /\ (r.write => q.write)

\* The kernel changes an entry in memory; the CPU does not notice.  Absent entries are
\* in no cache, so only the change of a present one asks for a flush.
WritePte(p, entry) ==
  /\ pt' = [pt EXCEPT ![p] = entry]
  /\ owed' = IF pt[p].present THEN owed \cup {p} ELSE owed
  /\ walked' = NoEntry
  /\ UNCHANGED <<pde, wp, tlb, fast, ifetch, relaxed>>

\* Copy on write: more rights, the marks kept, no flush.
GrantPte(p, rights) ==
  /\ pt[p].present /\ Weaker(pt[p].rights, rights)
  /\ pt' = [pt EXCEPT ![p].rights = rights]
  /\ relaxed' = relaxed \cup {p}
  /\ walked' = NoEntry
  /\ UNCHANGED <<pde, wp, tlb, fast, ifetch, owed>>

\* A page that lost something is not used before the flush.
MmuNext ==
  \/ \E p \in LPages \ owed, user, write \in BOOLEAN : Access(p, user, write)
  \/ \E p \in KernelPages \ owed, user \in BOOLEAN : Fetch(p, user)
  \/ \E p \in KernelPages :
       \/ WritePte(p, NoPage)
       \/ \E r \in Rights : WritePte(p, MappedTo(r, 0)) \/ GrantPte(p, r)
       \/ \E f \in MmuFrames : WritePte(p, MappedTo([user |-> TRUE, write |-> TRUE], f))
  \/ Flush386 \/ WriteWp

MmuSpec == MmuInit /\ [][MmuNext]_mmuVars

(***************************************************************************)
(* Properties.                                                             *)
(***************************************************************************)
\* An access comes out as the page tables and CR0.WP say now, and leaves its marks in
\* them, whichever of the TLB and the two caches before it answers (translate_lpgno_fast):
\* for a kernel that flushes after it takes rights, marks or a page away.  One that only
\* grants rights need not flush: it gets one fault too many at worst, and the next access
\* finds the new rights.
AccessExact ==
  walked # NoEntry =>
    LET p == walked.page
        refused == Refuses(Both(p), walked.user, walked.write, wp) IN
    IF walked.ok
    THEN /\ pt[p].present /\ ~refused /\ walked.frame = pt[p].frame
         /\ pt[p].accessed /\ (walked.write => pt[p].dirty)
    ELSE walked.present = pt[p].present /\ (refused \/ ~pt[p].present \/ walked.granted)
=============================================================================
