---------------------------- MODULE NetBlkCache -----------------------------
(***************************************************************************)
(* The network block device of Server mode (ide.c, the netblk_* functions):*)
(* the read windows, the coalescing write buffer and the write-back table  *)
(* that stand between the IDE drive and the disk image on the PC.          *)
(*                                                                         *)
(* One guest call runs at a time and every netblk_request blocks, so the   *)
(* steps are the requests and the loop iterations between them.  The wire  *)
(* is abstracted to a request that succeeds or that fails with the         *)
(* connection gone for good (the client never reconnects); module          *)
(* WrbpLink looks inside the wire, including the timeouts that leave it    *)
(* open.                                                                   *)
(*                                                                         *)
(* The contents of a window, of the write buffer and of the dirty entries  *)
(* of the write-back table are functions of the sector number, Nil where   *)
(* they hold nothing: netblk_find_cache and netblk_writeback_find look     *)
(* entries up by sector, a clean table entry is never found again and      *)
(* only takes up one of writeback_count.                                   *)
(***************************************************************************)
EXTENDS BlockCalls

CONSTANTS
  CacheWindows,        \* NETBLK_READ_CACHE_WINDOWS
  CacheSectors,        \* NETBLK_READ_CACHE_SECTORS
  BufferSectors,       \* NETBLK_WRITE_BUFFER_SECTORS
  TableSectors,        \* NETBLK_WRITEBACK_SECTORS
  ProtocolMax,         \* NETBLK_MAX_SECTORS
  HelloMax,            \* max_sectors the server advertised, 0 for none
  PrefetchWanted,      \* TINY386_NET_PREFETCH_SECTORS, or the default
  Writable,            \* server flag and not a netro: endpoint
  WritebackEnabled,    \* TINY386_NET_WRITEBACK
  LinkMayFail          \* the connection may break during a request

ASSUME NetBlkAssumption ==
  /\ CacheWindows \in Nat \ {0} /\ CacheSectors \in Nat \ {0}
  /\ BufferSectors \in Nat \ {0} /\ TableSectors \in Nat \ {0}
  /\ ProtocolMax \in Nat \ {0} /\ HelloMax \in Nat /\ PrefetchWanted \in Nat
  /\ Writable \in BOOLEAN /\ WritebackEnabled \in BOOLEAN
  /\ LinkMayFail \in BOOLEAN

\* The table holds at least one buffer's worth (2048 and 1024 in the release):
\* a write too long for the table is also too long for the buffer, or it would
\* be buffered behind older table entries and drained before them.
ASSUME TableCoversBuffer == BufferSectors <= TableSectors

Lesser(a, b)  == IF a < b THEN a ELSE b
Greater(a, b) == IF a < b THEN b ELSE a

\* The limits block_device_init_net derives from the HELLO answer.
MaxSectors == Lesser(IF HelloMax # 0 THEN HelloMax ELSE ProtocolMax, ProtocolMax)
Prefetch   == Greater(1, Lesser(PrefetchWanted, Lesser(MaxSectors, CacheSectors)))

Window == 0 .. CacheWindows - 1

VARIABLES
  image,            \* the server's disk image
  link,             \* "up" until a request fails
  read_cache,       \* contents of the read windows
  read_cache_next,  \* the window the next fetch replaces
  write_sector,     \* first sector of the write buffer's run
  write_sectors,    \* its length
  write_buffer,     \* its contents
  table,            \* "present" once netblk_alloc_writes has obtained it
  writeback,        \* contents of the dirty table entries
  writeback_count,  \* table entries in use, dirty or clean
  call,             \* the hook call in progress
  pc,               \* where it is
  cur,              \* sectors of the call done so far
  out,              \* what a read has delivered so far
  rc,               \* what the call will return
  stamp,            \* write calls so far
  acked,            \* history: latest contents per sector a write was answered 0 for
  reply             \* the last answer

clientVars == <<read_cache, read_cache_next, write_sector, write_sectors,
                write_buffer, table, writeback, writeback_count>>
callVars   == <<call, cur, out, rc, stamp, acked, reply>>
vars       == <<image, link, clientVars, callVars, pc>>

Pcs == {"idle", "read_drain", "read", "store", "store_drain", "direct_drain",
        "direct", "append_flush", "append", "full_flush", "flush_drain",
        "flush", "delete_drain", "delete", "return", "closed"}

Contents == [Sector -> Stamp \cup {Nil}]

TypeOK ==
  /\ image \in [Sector -> Stamp]
  /\ link \in {"up", "down"}
  /\ read_cache \in [Window -> Contents]
  /\ read_cache_next \in Window
  /\ write_sector \in Nat
  /\ write_sectors \in 0 .. BufferSectors
  /\ write_buffer \in Contents
  /\ table \in {"absent", "present"}
  /\ writeback \in Contents
  /\ writeback_count \in 0 .. TableSectors
  /\ call \in Call
  /\ pc \in Pcs
  /\ cur \in 0 .. NbSectors
  /\ out \in Contents
  /\ rc \in {0, -1}
  /\ stamp \in Stamp
  /\ acked \in [Sector -> Stamp]
  /\ reply \in Reply

Init ==
  /\ image = [s \in Sector |-> 0]
  /\ link = "up"
  /\ read_cache = [w \in Window |-> NoData]
  /\ read_cache_next = 0
  /\ write_sector = 0 /\ write_sectors = 0
  /\ write_buffer = NoData
  /\ table = "absent"
  /\ writeback = NoData
  /\ writeback_count = 0
  /\ call = NoCall /\ pc = "idle" /\ cur = 0 /\ out = NoData /\ rc = 0
  /\ stamp = 0
  /\ acked = [s \in Sector |-> 0]
  /\ reply = NoReply

(***************************************************************************)
(* Helpers                                                                 *)
(***************************************************************************)
\* f with the sectors of S taking g's contents.
Overlay(f, S, g) == [s \in Sector |-> IF s \in S THEN g[s] ELSE f[s]]
Erase(f, S)      == [s \in Sector |-> IF s \in S THEN Nil ELSE f[s]]
Fill(v)          == [s \in Sector |-> v]

\* sector_num .. sector_num + n - 1 lies on the device and n is acceptable.
Acceptable(c) ==
  /\ c.n <= MaxSectors
  /\ c.first <= NbSectors
  /\ c.n <= NbSectors - c.first

\* Mutant: only the write buffer is looked at.
WriteOverlaps_BufferOnly(S) == \E s \in S : write_buffer[s] # Nil

\* netblk_write_overlaps: some sector of S is still on its way to the server.
WriteOverlaps(S) == \E s \in S : write_buffer[s] # Nil \/ writeback[s] # Nil

\* netblk_invalidate: a window that overlaps the written sectors is dropped whole.
Invalidate(S) ==
  read_cache' = [w \in Window |->
                   IF \E s \in S \cap Sector : read_cache[w][s] # Nil
                   THEN NoData ELSE read_cache[w]]

(***************************************************************************)
(* netblk_request.  A WRITE that fails has reached the image up to some    *)
(* sector of its run (recv_image_write stores the payload chunk by chunk). *)
(***************************************************************************)
RequestOK == link = "up" /\ link' = "up"

RequestFails == (link = "down" \/ LinkMayFail) /\ link' = "down"

WriteOK(first, n, data) ==
  /\ RequestOK
  /\ image' = Overlay(image, first .. first + n - 1, data)

WriteFails(first, n, data) ==
  /\ RequestFails
  /\ \E k \in 0 .. (IF link = "up" THEN n ELSE 0) :
       image' = Overlay(image, first .. first + k - 1, data)

\* The call is over: its hook will return r.
Finish(r) == pc' = "return" /\ rc' = r

(***************************************************************************)
(* netblk_drain_writes, on behalf of whoever called it: first the write    *)
(* buffer, then the table in runs of consecutive sectors, lowest first.    *)
(* The entries of a run are marked clean before the request that carries   *)
(* them.                                                                   *)
(***************************************************************************)
DrainPcs == {"read_drain", "store_drain", "direct_drain", "flush_drain", "delete_drain"}

DrainSucceeds ==
  /\ UNCHANGED rc
  /\ \/ pc = "read_drain"   /\ pc' = "read"
     \/ pc = "store_drain"  /\ pc' = "store"
     \/ pc = "direct_drain" /\ pc' = "direct"
     \/ pc = "flush_drain"  /\ pc' = "flush"
     \/ pc = "delete_drain" /\ pc' = "delete"

\* netblk_write_async takes the -1 of netblk_store_write for "stored", and
\* ide_delete ignores the result.
DrainFails ==
  \/ pc \in {"read_drain", "direct_drain", "flush_drain"} /\ Finish(-1)
  \/ pc = "store_drain" /\ Finish(0)
  \/ pc = "delete_drain" /\ pc' = "delete" /\ UNCHANGED rc

\* netblk_flush_writes, where there is something to flush.
BufferOut ==
  /\ write_sectors > 0
  /\ WriteOK(write_sector, write_sectors, write_buffer)
  /\ write_sectors' = 0
  /\ write_buffer' = NoData

BufferOutFails ==
  /\ write_sectors > 0
  /\ WriteFails(write_sector, write_sectors, write_buffer)
  /\ UNCHANGED <<write_sectors, write_buffer>>

DrainBuffer ==
  /\ pc \in DrainPcs
  /\ \/ BufferOut /\ UNCHANGED <<pc, rc>>
     \/ BufferOutFails /\ DrainFails
  /\ UNCHANGED <<read_cache, read_cache_next, write_sector, table, writeback,
                 writeback_count, call, cur, out, stamp, acked, reply>>

\* first .. first + n - 1 is the run the drain takes next.
DirtyRun(first, n) ==
  /\ \A s \in Sector : s < first => writeback[s] = Nil
  /\ \A s \in first .. first + n - 1 : s \in Sector /\ writeback[s] # Nil
  /\ n < BufferSectors /\ first + n \in Sector => writeback[first + n] = Nil

\* Mutant: the table goes out before the older buffer.
DrainRun_BeforeBuffer ==
  /\ pc \in DrainPcs
  /\ \E first \in Sector, n \in 1 .. Lesser(BufferSectors, NbSectors) :
       /\ DirtyRun(first, n)
       /\ writeback' = Erase(writeback, first .. first + n - 1)
       /\ \/ WriteOK(first, n, writeback) /\ UNCHANGED <<pc, rc>>
          \/ WriteFails(first, n, writeback) /\ DrainFails
  /\ UNCHANGED <<read_cache, read_cache_next, write_sector, write_sectors,
                 write_buffer, table, writeback_count, call, cur, out, stamp,
                 acked, reply>>

DrainRun ==
  /\ pc \in DrainPcs
  /\ write_sectors = 0
  /\ \E first \in Sector, n \in 1 .. Lesser(BufferSectors, NbSectors) :
       /\ DirtyRun(first, n)
       /\ writeback' = Erase(writeback, first .. first + n - 1)
       /\ \/ WriteOK(first, n, writeback) /\ UNCHANGED <<pc, rc>>
          \/ WriteFails(first, n, writeback) /\ DrainFails
  /\ UNCHANGED <<read_cache, read_cache_next, write_sector, write_sectors,
                 write_buffer, table, writeback_count, call, cur, out, stamp,
                 acked, reply>>

\* Mutant: the count of the drained table is not reset.
DrainEnd_KeepsCount ==
  /\ pc \in DrainPcs
  /\ write_sectors = 0
  /\ writeback = NoData
  /\ DrainSucceeds
  /\ UNCHANGED <<image, link, clientVars, call, cur, out, stamp, acked, reply>>

DrainEnd ==
  /\ pc \in DrainPcs
  /\ write_sectors = 0
  /\ writeback = NoData
  /\ writeback_count' = 0
  /\ DrainSucceeds
  /\ UNCHANGED <<image, link, read_cache, read_cache_next, write_sector,
                 write_sectors, write_buffer, table, writeback, call, cur, out,
                 stamp, acked, reply>>

(***************************************************************************)
(* netblk_read_async                                                       *)
(***************************************************************************)
\* The hook is called with c; the stamp of a write is new.
Begin(c) ==
  /\ pc = "idle"
  /\ call' = c
  /\ reply' = NoReply
  /\ UNCHANGED <<image, link, read_cache_next, write_sector, write_sectors,
                 write_buffer, writeback, writeback_count, cur, out, acked>>

ReadCall ==
  \E first \in 0 .. NbSectors, n \in 1 .. NbSectors :
    LET c == [op |-> "read", first |-> first, n |-> n, stamp |-> 0] IN
    /\ Begin(c)
    /\ \/ ~Acceptable(c) /\ Finish(-1)
       \/ /\ Acceptable(c)
          /\ pc' = IF WriteOverlaps(Span(c)) THEN "read_drain" ELSE "read"
          /\ UNCHANGED rc
    /\ UNCHANGED <<read_cache, table, stamp>>

\* The next sector the read needs, and the end of its range.
At  == call.first + cur
End == call.first + call.n

\* netblk_find_cache: the first window that holds sector s.
FindCache(s, w) ==
  /\ read_cache[w][s] # Nil
  /\ \A v \in 0 .. w - 1 : read_cache[v][s] = Nil

ReadHit ==
  /\ pc = "read" /\ cur < call.n
  /\ \E w \in Window, k \in 1 .. call.n - cur :
       /\ FindCache(At, w)
       /\ \A s \in At .. At + k - 1 : read_cache[w][s] # Nil
       /\ At + k # End => read_cache[w][At + k] = Nil
       /\ out' = Overlay(out, At .. At + k - 1, read_cache[w])
       /\ cur' = cur + k
  /\ UNCHANGED <<image, link, clientVars, call, pc, rc, stamp, acked, reply>>

\* netblk_next_cached: nx is the first window start between At and End, or End.
WindowStart(w, s) ==
  /\ s \in Sector
  /\ read_cache[w][s] # Nil
  /\ \A t \in 0 .. s - 1 : read_cache[w][t] = Nil

NextCached(nx) ==
  /\ nx = End \/ \E w \in Window : WindowStart(w, nx)
  /\ \A w \in Window, s \in At + 1 .. nx - 1 : ~WindowStart(w, s)

\* The window a miss fetches: up to the next cached sector, or the aligned
\* prefetch window when nothing of the rest is cached.
Prefetches(nx)  == nx = End /\ nx - At < Prefetch
FetchStart(nx)  == IF Prefetches(nx) THEN (At \div Prefetch) * Prefetch ELSE At
FetchLength(nx) ==
  LET wanted == IF Prefetches(nx) THEN Prefetch ELSE nx - At IN
  Lesser(Lesser(wanted, NbSectors - FetchStart(nx)), Lesser(MaxSectors, CacheSectors))

\* The part of it that is fetched; a window that would end before At is replaced.
FetchSpan(nx) ==
  IF FetchStart(nx) + FetchLength(nx) <= At
  THEN At .. nx - 1
  ELSE FetchStart(nx) .. FetchStart(nx) + FetchLength(nx) - 1

ReadFetch ==
  /\ pc = "read" /\ cur < call.n
  /\ \A w \in Window : read_cache[w][At] = Nil
  /\ \E nx \in At + 1 .. End :
       /\ NextCached(nx)
       /\ \/ /\ RequestOK
             /\ read_cache' = [read_cache EXCEPT ![read_cache_next] =
                                 Overlay(NoData, FetchSpan(nx), image)]
             /\ read_cache_next' = (read_cache_next + 1) % CacheWindows
             /\ UNCHANGED <<pc, rc>>
          \/ /\ RequestFails
             /\ read_cache' = [read_cache EXCEPT ![read_cache_next] = NoData]
             /\ UNCHANGED read_cache_next
             /\ Finish(-1)
  /\ UNCHANGED <<image, write_sector, write_sectors, write_buffer, table,
                 writeback, writeback_count, call, cur, out, stamp, acked, reply>>

ReadDone ==
  /\ pc = "read" /\ cur = call.n
  /\ Finish(0)
  /\ UNCHANGED <<image, link, clientVars, call, cur, out, stamp, acked, reply>>

(***************************************************************************)
(* netblk_write_async and netblk_store_write                               *)
(***************************************************************************)
\* Mutant: a run that does not continue the buffered one is appended to it.
MustFlushFirst_SizeOnly(first, n) ==
  write_sectors > 0 /\ write_sectors + n > BufferSectors

\* The buffered run cannot be extended by the n sectors from first on.
MustFlushFirst(first, n) ==
  /\ write_sectors > 0
  /\ \/ write_sector + write_sectors # first
     \/ write_sectors + n > BufferSectors

\* netblk_alloc_writes: obtained once, tried again on every write until then.
AllocWrites == WritebackEnabled /\ table' = "present"
AllocFails  == (~WritebackEnabled \/ table = "absent") /\ UNCHANGED table

WriteCall ==
  /\ stamp < MaxStamp
  /\ \E first \in 0 .. NbSectors, n \in 1 .. NbSectors :
       LET c == [op |-> "write", first |-> first, n |-> n, stamp |-> stamp + 1] IN
       /\ Begin(c)
       /\ stamp' = stamp + 1
       /\ \/ /\ ~(Writable /\ Acceptable(c))
             /\ Finish(-1)
             /\ UNCHANGED <<read_cache, table>>
          \/ /\ Writable /\ Acceptable(c)
             /\ Invalidate(Span(c))
             /\ UNCHANGED rc
             /\ \/ n <= TableSectors /\ AllocWrites /\ pc' = "store"
                \/ /\ \/ n > TableSectors /\ UNCHANGED table
                      \/ n <= TableSectors /\ AllocFails
                   /\ pc' = IF n > BufferSectors THEN "direct_drain"
                            ELSE IF MustFlushFirst(first, n) THEN "append_flush"
                            ELSE "append"

\* One sector goes into the table, over its dirty entry if it has one.
Store ==
  /\ pc = "store" /\ cur < call.n
  /\ \/ writeback[At] # Nil /\ UNCHANGED writeback_count
     \/ /\ writeback[At] = Nil
        /\ writeback_count < TableSectors
        /\ writeback_count' = writeback_count + 1
  /\ writeback' = [writeback EXCEPT ![At] = call.stamp]
  /\ cur' = cur + 1
  /\ UNCHANGED <<image, link, read_cache, read_cache_next, write_sector,
                 write_sectors, write_buffer, table, call, pc, out, rc, stamp,
                 acked, reply>>

StoreFull ==
  /\ pc = "store" /\ cur < call.n
  /\ writeback[At] = Nil
  /\ writeback_count = TableSectors
  /\ pc' = "store_drain"
  /\ UNCHANGED <<image, link, clientVars, callVars>>

StoreDone ==
  /\ pc = "store" /\ cur = call.n
  /\ Finish(0)
  /\ UNCHANGED <<image, link, clientVars, call, cur, out, stamp, acked, reply>>

\* A write too long for the buffer goes out at once.
WriteDirect ==
  /\ pc = "direct"
  /\ \/ WriteOK(call.first, call.n, Fill(call.stamp)) /\ Finish(0) /\ cur' = call.n
     \/ WriteFails(call.first, call.n, Fill(call.stamp)) /\ Finish(-1) /\ UNCHANGED cur
  /\ UNCHANGED <<clientVars, call, out, stamp, acked, reply>>

AppendFlush ==
  /\ pc = "append_flush"
  /\ \/ BufferOut /\ pc' = "append" /\ UNCHANGED rc
     \/ BufferOutFails /\ Finish(-1)
  /\ UNCHANGED <<read_cache, read_cache_next, write_sector, table, writeback,
                 writeback_count, call, cur, out, stamp, acked, reply>>

AppendRun ==
  /\ pc = "append"
  /\ write_sector' = IF write_sectors = 0 THEN call.first ELSE write_sector
  /\ write_buffer' = Overlay(write_buffer, Span(call), Fill(call.stamp))
  /\ write_sectors' = write_sectors + call.n
  /\ cur' = call.n
  /\ \/ write_sectors' >= BufferSectors /\ pc' = "full_flush" /\ UNCHANGED rc
     \/ write_sectors' < BufferSectors /\ Finish(0)
  /\ UNCHANGED <<image, link, read_cache, read_cache_next, table, writeback,
                 writeback_count, call, out, stamp, acked, reply>>

FullFlush ==
  /\ pc = "full_flush"
  /\ \/ BufferOut /\ Finish(0)
     \/ BufferOutFails /\ Finish(-1)
  /\ UNCHANGED <<read_cache, read_cache_next, write_sector, table, writeback,
                 writeback_count, call, cur, out, stamp, acked, reply>>

(***************************************************************************)
(* netblk_flush, and ide_delete's drain, flush and close                   *)
(***************************************************************************)
\* Mutant: the flush request is sent without draining first.
FlushCall_NoDrain ==
  /\ Begin([op |-> "flush", first |-> 0, n |-> 0, stamp |-> 0])
  /\ \/ ~Writable /\ Finish(0)
     \/ Writable /\ pc' = "flush" /\ UNCHANGED rc
  /\ UNCHANGED <<read_cache, table, stamp>>

FlushCall ==
  /\ Begin([op |-> "flush", first |-> 0, n |-> 0, stamp |-> 0])
  /\ \/ ~Writable /\ Finish(0)
     \/ Writable /\ pc' = "flush_drain" /\ UNCHANGED rc
  /\ UNCHANGED <<read_cache, table, stamp>>

\* Mutant: the result of the flush request is not looked at.
FlushRequest_IgnoresResult ==
  /\ pc = "flush"
  /\ RequestOK \/ RequestFails
  /\ Finish(0)
  /\ UNCHANGED <<image, clientVars, call, cur, out, stamp, acked, reply>>

\* A strict server answers a flush it could not do with an error status.
FlushRequest ==
  /\ pc = "flush"
  /\ \/ RequestOK /\ Finish(0)
     \/ (RequestFails \/ RequestOK) /\ Finish(-1)
  /\ UNCHANGED <<image, clientVars, call, cur, out, stamp, acked, reply>>

Delete ==
  /\ pc = "idle"
  /\ pc' = IF Writable THEN "delete_drain" ELSE "closed"
  /\ UNCHANGED <<image, link, clientVars, callVars>>

DeleteRequest ==
  /\ pc = "delete"
  /\ RequestOK \/ RequestFails
  /\ pc' = "closed"
  /\ UNCHANGED <<image, clientVars, callVars>>

Closed == pc = "closed" /\ UNCHANGED vars

\* The hook returns to the drive.
Return ==
  /\ pc = "return"
  /\ pc' = "idle"
  /\ reply' = [op |-> call.op, rc |-> rc,
               data |-> IF call.op = "read" /\ rc = 0 THEN out ELSE NoData]
  /\ acked' = IF call.op = "write" /\ rc = 0
              THEN Overlay(acked, Span(call), Fill(call.stamp)) ELSE acked
  /\ call' = NoCall /\ cur' = 0 /\ out' = NoData /\ rc' = 0
  /\ UNCHANGED <<image, link, clientVars, stamp>>

Step ==
  \/ DrainBuffer \/ DrainRun \/ DrainEnd
  \/ ReadHit \/ ReadFetch \/ ReadDone
  \/ Store \/ StoreFull \/ StoreDone \/ WriteDirect
  \/ AppendFlush \/ AppendRun \/ FullFlush
  \/ FlushRequest \/ DeleteRequest \/ Return

Next == ReadCall \/ WriteCall \/ FlushCall \/ Delete \/ Closed \/ Step

Spec == Init /\ [][Next]_vars

\* The client runs on until its call returns; requests end by their timeout.
FairSpec == Spec /\ WF_vars(Step)

(***************************************************************************)
(* Properties                                                              *)
(***************************************************************************)
\* What a sector holds for the device: the table over the buffer over the image.
Visible(s) ==
  CASE writeback[s] # Nil                          -> writeback[s]
    [] writeback[s] = Nil /\ write_buffer[s] # Nil -> write_buffer[s]
    [] OTHER                                       -> image[s]

\* What it has to hold: the write in progress has passed its first cur sectors.
Expected(s) ==
  IF call.op = "write" /\ s \in call.first .. call.first + cur - 1
  THEN call.stamp ELSE acked[s]

\* As long as the connection lives, draining, coalescing and re-storing lose no
\* sector of an acknowledged write and invent none (netblk_store_write,
\* netblk_drain_writes, netblk_flush_writes, the append path of
\* netblk_write_async).
NothingLost == link = "up" => \A s \in Sector : Visible(s) = Expected(s)

\* A flush the drive is told succeeded has brought every acknowledged write
\* into the server's image (netblk_flush).
FlushCommits == reply.op = "flush" /\ reply.rc = 0 => image = acked

\* Writes reach the image in the order they were issued, sector by sector: the
\* image never goes back to older contents, whatever mixture of table, buffer
\* and direct writes carries them and wherever the connection breaks.
CommitsInOrder == [][\A s \in Sector : image'[s] >= image[s]]_image

\* A read answered with success delivers the latest acknowledged write of every
\* sector it covers (netblk_read_async's drain on overlap, netblk_invalidate).
ReadsLatest ==
  reply.op = "read" /\ reply.rc = 0 =>
    \A s \in Sector : reply.data[s] \in {Nil, acked[s]}

\* Every sector a read window holds is the latest acknowledged one: a write has
\* dropped every window that overlapped it, and no window is filled with a
\* sector that is still on its way to the server.
WindowsCoherent ==
  \A w \in Window, s \in Sector : read_cache[w][s] \in {Nil, acked[s]}

\* netblk_drain_writes reuses the table because "Every dirty entry has been
\* committed": when it does, no acknowledged write is missing from the image.
DrainCommitsTable ==
  pc \in DrainPcs /\ write_sectors = 0 /\ writeback = NoData
    => \A s \in Sector : image[s] >= acked[s]

\* Every hook call returns: the loops of netblk_read_async, netblk_store_write
\* and netblk_drain_writes make progress whatever the windows hold.
CallsReturn == pc # "idle" ~> pc \in {"idle", "closed"}

\* The caches implement a plain disk with a write-behind image.
Disk == INSTANCE BlockDisk WITH disk <- acked, media <- image

RefinesBlockDisk == Disk!Spec
==============================================================================
