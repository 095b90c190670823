------------------------------- MODULE FileDisk -------------------------------
(***************************************************************************)
(* The disk of Native mode (ide.c, the bf_* functions): an image file read *)
(* through a few windows of consecutive sectors and written straight       *)
(* through stdio.  ide_attach and ide_attach_cd open it in BF_MODE_RW, the *)
(* only mode modelled; nothing in the program asks for the other two.      *)
(*                                                                         *)
(* file is the image as the stdio stream shows it, media what has left     *)
(* stdio's buffer.  A window's contents are a function of the sector, Nil  *)
(* where it holds nothing, as in NetBlkCache.                              *)
(***************************************************************************)
EXTENDS BlockCalls

CONSTANTS
  CacheWindows,   \* NSPIRE_READ_CACHE_WINDOWS
  CacheSectors,   \* NSPIRE_READ_CACHE_SECTORS
  IoMayFail       \* fseeko, fread, fwrite and fflush may fail

ASSUME FileDiskAssumption ==
  /\ CacheWindows \in Nat \ {0} /\ CacheSectors \in Nat \ {0}
  /\ IoMayFail \in BOOLEAN

Window == 0 .. CacheWindows - 1

VARIABLES file, media, read_cache, read_cache_next, call, reply, stamp

vars == <<file, media, read_cache, read_cache_next, call, reply, stamp>>

TypeOK ==
  /\ file \in [Sector -> Stamp] /\ media \in [Sector -> Stamp]
  /\ read_cache \in [Window -> [Sector -> Stamp \cup {Nil}]]
  /\ read_cache_next \in Window
  /\ call \in Call /\ reply \in Reply
  /\ stamp \in Stamp

\* bf_invalidate_read_cache
NoWindows == [w \in Window |-> NoData]

\* block_device_init
Init ==
  /\ file = [s \in Sector |-> 0] /\ media = [s \in Sector |-> 0]
  /\ read_cache = NoWindows /\ read_cache_next = 0
  /\ call = NoCall /\ reply = NoReply
  /\ stamp = 0

\* The drive calls a hook, a write with new contents; it never asks for no sectors.
Begin ==
  /\ call = NoCall
  /\ call' \in {c \in Call :
       /\ c.op # "none"
       /\ IF c.op = "flush" THEN c.first = 0 /\ c.n = 0 ELSE c.n > 0
       /\ IF c.op = "write" THEN c.stamp = stamp + 1 ELSE c.stamp = 0}
  /\ stamp' = IF call'.op = "write" THEN stamp + 1 ELSE stamp
  /\ reply' = NoReply
  /\ UNCHANGED <<file, media, read_cache, read_cache_next>>

Answer(rc, data) ==
  /\ reply' = [op |-> call.op, rc |-> rc, data |-> data]
  /\ call' = NoCall
  /\ UNCHANGED <<media, stamp>>

\* The sectors of the call, as contents has them.
Delivered(contents) == [s \in Sector |-> IF s \in Span(call) THEN contents[s] ELSE Nil]

InRange == call.first + call.n <= NbSectors

Refuse ==
  /\ call.op \in {"read", "write"} /\ ~InRange
  /\ Answer(-1, NoData)
  /\ UNCHANGED <<file, read_cache, read_cache_next>>

(***************************************************************************)
(* bf_read_async                                                           *)
(***************************************************************************)
Covers(w) == \A s \in Span(call) : read_cache[w][s] # Nil

\* The first window that holds the whole range serves it.
ReadHit ==
  /\ call.op = "read" /\ InRange
  /\ \E w \in Window :
       /\ Covers(w) /\ \A v \in Window : v < w => ~Covers(v)
       /\ Answer(0, Delivered(read_cache[w]))
  /\ UNCHANGED <<file, read_cache, read_cache_next>>

Missed == call.op = "read" /\ InRange /\ \A w \in Window : ~Covers(w)

\* What a window that starts with the call's first sector takes in.
Fetch == {s \in Sector : s >= call.first /\ s < call.first + CacheSectors}

After(w) == (w + 1) % CacheWindows

\* The next window is filled, from the range's first sector on, if it can hold it all.
ReadFill ==
  /\ Missed /\ Span(call) \subseteq Fetch
  /\ read_cache' = [read_cache EXCEPT ![read_cache_next] =
                      [s \in Sector |-> IF s \in Fetch THEN file[s] ELSE Nil]]
  /\ read_cache_next' = After(read_cache_next)
  /\ Answer(0, Delivered(file))
  /\ UNCHANGED file

\* Otherwise the window is emptied, its memory may be half filled, and the range is
\* read past it.
ReadDirect ==
  /\ Missed /\ (IoMayFail \/ ~(Span(call) \subseteq Fetch))
  /\ read_cache' = [read_cache EXCEPT ![read_cache_next] = NoData]
  /\ \/ Answer(0, Delivered(file))
     \/ IoMayFail /\ Answer(-1, NoData)
  /\ UNCHANGED <<file, read_cache_next>>

(***************************************************************************)
(* bf_write_async and bf_flush                                             *)
(***************************************************************************)
\* Mutant: the windows are only dropped when the write succeeded.
Invalidate_OnSuccess(rc) == read_cache' = IF rc = 0 THEN NoWindows ELSE read_cache

Invalidate(rc) == read_cache' = NoWindows

\* A write that fails may have written some of its sectors.
Write ==
  /\ call.op = "write" /\ InRange
  /\ \E rc \in {0, -1}, done \in SUBSET Span(call) :
       /\ rc = 0 => done = Span(call)
       /\ rc = -1 => IoMayFail
       /\ Invalidate(rc)
       /\ file' = [s \in Sector |-> IF s \in done THEN call.stamp ELSE file[s]]
       /\ Answer(rc, NoData)
  /\ UNCHANGED read_cache_next

\* stdio writes sectors out, when it likes and as fflush makes it.
StdioWrites ==
  /\ \E s \in Sector : media' = [media EXCEPT ![s] = file[s]]
  /\ UNCHANGED <<file, read_cache, read_cache_next, call, reply, stamp>>

\* fflush succeeds once all is written out.
Flush ==
  /\ call.op = "flush"
  /\ \/ media = file /\ Answer(0, NoData)
     \/ IoMayFail /\ Answer(-1, NoData)
  /\ UNCHANGED <<file, read_cache, read_cache_next>>

Next ==
  \/ Begin \/ Refuse \/ ReadHit \/ ReadFill \/ ReadDirect \/ Write \/ StdioWrites \/ Flush

Spec == Init /\ [][Next]_vars

(***************************************************************************)
(* Properties                                                              *)
(***************************************************************************)
\* Every sector a window holds is what the file holds: a write drops the windows
\* before it touches the file, and a fetch that failed leaves none marked ("Keep
\* this cache local to block-device reads; writes invalidate it.").
WindowsHoldFile == \A w \in Window, s \in Sector : read_cache[w][s] \in {Nil, file[s]}

\* The file with its windows is a plain disk with a write-behind image.
Disk == INSTANCE BlockDisk WITH disk <- file

RefinesBlockDisk == Disk!Spec
===============================================================================
