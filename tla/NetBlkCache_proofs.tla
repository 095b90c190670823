------------------------- MODULE NetBlkCache_proofs -------------------------
(***************************************************************************)
(* Proofs about the network block device's caches, for every size of the   *)
(* device, the windows, the buffer and the table, and every number of      *)
(* writes.                                                                 *)
(***************************************************************************)
EXTENDS NetBlkCache, TLAPS

WritePcs == {"store", "store_drain", "direct_drain", "direct", "append_flush",
             "append", "full_flush"}

\* Which call is running where, and how far it can have come.
CallShape ==
  /\ pc \in {"idle", "delete_drain", "delete", "closed"} => call = NoCall /\ cur = 0
  /\ pc \in {"read_drain", "read"} => call.op = "read"
  /\ pc \in WritePcs => call.op = "write" /\ call.stamp = stamp /\ Writable
  /\ pc \in {"flush_drain", "flush"} => call.op = "flush" /\ Writable
  /\ pc \in {"delete_drain", "delete"} => Writable
  /\ pc \in WritePcs \cup {"read_drain", "read"} =>
       call.n > 0 /\ call.first + call.n <= NbSectors
  /\ cur <= call.n
  /\ pc = "return" => call.op # "none"
  /\ pc = "return" /\ call.op \in {"read", "write"} /\ (rc = 0 \/ cur > 0)
       => call.first + call.n <= NbSectors
  /\ pc = "return" /\ call.op = "write" => call.stamp = stamp
  /\ pc = "return" /\ call.op = "write" /\ (rc = 0 \/ cur > 0) => Writable

\* The write buffer is the run it says it is.
BufferShape ==
  /\ \A s \in Sector :
       write_buffer[s] # Nil <=> s \in write_sector .. write_sector + write_sectors - 1
  /\ write_sectors > 0 => write_sector + write_sectors <= NbSectors
  /\ pc = "append" => /\ write_sectors + call.n <= BufferSectors
                      /\ write_sectors > 0 => write_sector + write_sectors = call.first

\* The table only holds something once it is there, and then the buffer is
\* never appended to again.
TableShape ==
  /\ table = "absent" => writeback = NoData
  /\ table = "present" => WritebackEnabled
  /\ pc \in {"append_flush", "append", "full_flush"} => table = "absent"
  /\ pc \in {"append_flush", "append"} => call.n <= BufferSectors
  /\ pc \in {"store", "store_drain"} => table = "present"
  /\ pc \in {"direct", "flush"} => writeback = NoData /\ write_sectors = 0
  /\ ~Writable => writeback = NoData /\ write_sectors = 0

Shape == TypeOK /\ CallShape /\ BufferShape /\ TableShape

\* The limits block_device_init_net computes are positive numbers.
LEMMA LimitTypes == MaxSectors \in Nat \ {0} /\ Prefetch \in Nat \ {0}
BY NetBlkAssumption DEF MaxSectors, Prefetch, Lesser, Greater

\* A device just opened has the shape.
LEMMA InitShape == Init => Shape
<1> USE BlockCallsAssumption, NetBlkAssumption
<1> SUFFICES ASSUME Init PROVE Shape
  OBVIOUS
<1>1. TypeOK
  <2>1. 0 \in Stamp /\ 0 \in Window /\ 0 \in 0 .. NbSectors
    BY DEF Stamp, Window
  <2>2. NoData \in Contents
    BY DEF NoData, Contents
  <2>3. NoCall \in Call /\ NoReply \in Reply
    BY <2>1, <2>2 DEF NoCall, Call, NoReply, Reply, Contents
  <2>4. "idle" \in Pcs
    BY DEF Pcs
  <2>6. /\ write_sector \in Nat /\ write_sectors \in 0 .. BufferSectors
        /\ writeback_count \in 0 .. TableSectors /\ rc \in {0, -1}
    BY DEF Init
  <2>7. /\ image \in [Sector -> Stamp] /\ acked \in [Sector -> Stamp]
        /\ read_cache \in [Window -> Contents]
    BY <2>1, <2>2 DEF Init
  <2> QED
    BY <2>1, <2>2, <2>3, <2>4, <2>6, <2>7 DEF Init, TypeOK
<1>2. CallShape
  BY DEF Init, CallShape, NoCall, WritePcs
<1>3. BufferShape
  BY DEF Init, BufferShape, NoData, Sector, Nil
<1>4. TableShape
  BY DEF Init, TableShape
<1> QED
  BY <1>1, <1>2, <1>3, <1>4 DEF Shape

\* Copying known sectors over contents gives contents; over an image, an image.
LEMMA OverlayImage ==
  ASSUME NEW f \in [Sector -> Stamp], NEW g \in Contents, NEW S,
         \A s \in Sector : s \in S => g[s] # Nil
  PROVE  Overlay(f, S, g) \in [Sector -> Stamp]
BY DEF Overlay, Contents

\* Copying an image's sectors over contents gives contents.
LEMMA OverlayContents ==
  ASSUME NEW f \in Contents, NEW g \in Contents, NEW S
  PROVE  Overlay(f, S, g) \in Contents
BY DEF Overlay, Contents

\* Forgetting sectors leaves contents.
LEMMA EraseContents ==
  ASSUME NEW f \in Contents, NEW S PROVE Erase(f, S) \in Contents
BY DEF Erase, Contents

\* Holding nothing is contents.
LEMMA NoDataContents == NoData \in Contents
BY DEF NoData, Contents

\* The payload of one write is contents.
LEMMA FillContents ==
  ASSUME NEW v \in Stamp PROVE Fill(v) \in Contents /\ \A s \in Sector : Fill(v)[s] # Nil
BY BlockCallsAssumption DEF Fill, Contents, Stamp, Nil

\* A WRITE request of known sectors, done or broken off, leaves an image.
LEMMA WriteImage ==
  ASSUME TypeOK, NEW first \in Nat, NEW n \in Nat, NEW g \in Contents,
         \A s \in Sector : s \in first .. first + n - 1 => g[s] # Nil,
         WriteOK(first, n, g) \/ WriteFails(first, n, g)
  PROVE  /\ image' \in [Sector -> Stamp]
         /\ link' \in {"up", "down"}
<1>1. CASE WriteOK(first, n, g)
  BY <1>1, OverlayImage DEF WriteOK, RequestOK, TypeOK
<1>2. CASE WriteFails(first, n, g)
  <2>1. PICK k \in 0 .. n : image' = Overlay(image, first .. first + k - 1, g)
    <3>1. CASE link = "up"
      BY <1>2, <3>1 DEF WriteFails
    <3>2. CASE link # "up"
      BY <1>2, <3>2 DEF WriteFails
    <3> QED
      BY <3>1, <3>2
  <2>2. \A s \in Sector : s \in first .. first + k - 1 => g[s] # Nil
    BY <2>1 DEF Sector
  <2> QED
    BY <1>2, <2>1, <2>2, OverlayImage DEF WriteFails, RequestFails, TypeOK
<1> QED
  BY <1>1, <1>2

\* A drain leads from its pc to the one that goes with the result.
LEMMA DrainBufferShape == Shape /\ DrainBuffer => Shape'
<1> USE BlockCallsAssumption, NetBlkAssumption
<1> SUFFICES ASSUME Shape, DrainBuffer PROVE Shape'
  OBVIOUS
<1>0. TypeOK /\ CallShape /\ BufferShape /\ TableShape
  BY DEF Shape
<1>1. /\ image' \in [Sector -> Stamp] /\ link' \in {"up", "down"}
  <2>1. BufferOut \/ BufferOutFails
    BY DEF DrainBuffer
  <2> QED
    BY <1>0, <2>1, WriteImage DEF BufferOut, BufferOutFails, TypeOK, BufferShape
<1>2. pc' \in Pcs /\ rc' \in {0, -1}
  BY <1>0 DEF DrainBuffer, DrainFails, Finish, TypeOK, Pcs
<1>3. TypeOK'
  BY <1>0, <1>1, <1>2, NoDataContents DEF DrainBuffer, TypeOK, BufferOut, BufferOutFails
<1>4. CallShape'
  BY <1>0 DEF DrainBuffer, DrainFails, Finish, DrainPcs, CallShape, WritePcs, TypeOK, Call
<1>5. BufferShape'
  <2>1. pc' # "append"
    BY DEF DrainBuffer, DrainFails, Finish, DrainPcs
  <2>2. CASE BufferOut
    BY <1>0, <2>1, <2>2 DEF DrainBuffer, BufferShape, TypeOK, BufferOut, NoData, Sector
  <2>3. CASE BufferOutFails
    BY <1>0, <2>1, <2>3 DEF DrainBuffer, BufferShape, TypeOK, BufferOutFails
  <2> QED
    BY <2>2, <2>3 DEF DrainBuffer
<1>6. TableShape'
  BY <1>0 DEF DrainBuffer, DrainFails, Finish, DrainPcs, TableShape, TypeOK, BufferOut, BufferOutFails
<1> QED
  BY <1>3, <1>4, <1>5, <1>6 DEF Shape

\* A drained run leaves the table and the image what they have to be.
LEMMA DrainRunShape == Shape /\ DrainRun => Shape'
<1> USE BlockCallsAssumption, NetBlkAssumption
<1> SUFFICES ASSUME Shape, DrainRun PROVE Shape'
  OBVIOUS
<1>0. TypeOK /\ CallShape /\ BufferShape /\ TableShape
  BY DEF Shape
<1>1. PICK first \in Sector, n \in 1 .. Lesser(BufferSectors, NbSectors) :
        /\ DirtyRun(first, n)
        /\ writeback' = Erase(writeback, first .. first + n - 1)
        /\ \/ WriteOK(first, n, writeback) /\ UNCHANGED <<pc, rc>>
           \/ WriteFails(first, n, writeback) /\ DrainFails
  BY DEF DrainRun
<1>2. first \in Nat /\ n \in Nat /\ writeback \in Contents
  BY <1>0, <1>1 DEF Sector, TypeOK, Lesser
<1>3. \A s \in Sector : s \in first .. first + n - 1 => writeback[s] # Nil
  BY <1>1 DEF DirtyRun
<1>4. image' \in [Sector -> Stamp] /\ link' \in {"up", "down"}
  BY <1>0, <1>1, <1>2, <1>3, WriteImage
<1>5. pc' \in Pcs /\ rc' \in {0, -1}
  BY <1>0, <1>1 DEF DrainFails, Finish, TypeOK, Pcs
<1>6. writeback' \in Contents
  BY <1>1, <1>2, EraseContents
<1>7. TypeOK'
  BY <1>0, <1>4, <1>5, <1>6 DEF DrainRun, TypeOK
<1>8. CallShape'
  BY <1>0, <1>1 DEF DrainRun, DrainFails, Finish, DrainPcs, CallShape, WritePcs, TypeOK, Call
<1>9. BufferShape'
  BY <1>0, <1>1 DEF DrainRun, DrainFails, Finish, DrainPcs, BufferShape
<1>10. writeback = NoData => writeback' = NoData
  BY <1>1 DEF Erase, NoData
<1>11. TableShape'
  BY <1>0, <1>1, <1>10 DEF DrainRun, DrainFails, Finish, DrainPcs, TableShape
<1> QED
  BY <1>7, <1>8, <1>9, <1>11 DEF Shape

\* The end of a drain resets the table's count and goes on with its caller.
LEMMA DrainEndShape == Shape /\ DrainEnd => Shape'
<1> USE BlockCallsAssumption, NetBlkAssumption
<1> SUFFICES ASSUME Shape, DrainEnd PROVE Shape'
  OBVIOUS
<1>0. TypeOK /\ CallShape /\ BufferShape /\ TableShape
  BY DEF Shape
<1>1. TypeOK'
  BY <1>0 DEF DrainEnd, DrainSucceeds, TypeOK, Pcs
<1>2. CallShape'
  BY <1>0 DEF DrainEnd, DrainSucceeds, CallShape, WritePcs, TypeOK, Call
<1>3. BufferShape'
  BY <1>0 DEF DrainEnd, DrainSucceeds, BufferShape
<1>4. TableShape'
  BY <1>0 DEF DrainEnd, DrainSucceeds, TableShape
<1> QED
  BY <1>1, <1>2, <1>3, <1>4 DEF Shape

\* The head of netblk_read_async rejects a range or starts on it.
LEMMA ReadCallShape == Shape /\ ReadCall => Shape'
<1> USE BlockCallsAssumption, NetBlkAssumption, LimitTypes
<1> SUFFICES ASSUME Shape, ReadCall PROVE Shape'
  OBVIOUS
<1>0. TypeOK /\ CallShape /\ BufferShape /\ TableShape
  BY DEF Shape
<1>1. PICK first \in 0 .. NbSectors, n \in 1 .. NbSectors :
        LET c == [op |-> "read", first |-> first, n |-> n, stamp |-> 0] IN
        /\ Begin(c)
        /\ \/ ~Acceptable(c) /\ Finish(-1)
           \/ /\ Acceptable(c)
              /\ pc' = IF WriteOverlaps(Span(c)) THEN "read_drain" ELSE "read"
              /\ UNCHANGED rc
        /\ UNCHANGED <<read_cache, table, stamp>>
  BY DEF ReadCall
<1> DEFINE c == [op |-> "read", first |-> first, n |-> n, stamp |-> 0]
<1>2. c \in Call
  BY <1>1 DEF Call, Ops, Stamp
<1>3. TypeOK'
  BY <1>0, <1>1, <1>2 DEF Begin, Finish, TypeOK, Pcs, NoReply, Reply, Ops, NoData, Contents, Nil
<1>4. CallShape'
  BY <1>0, <1>1 DEF Begin, Finish, CallShape, WritePcs, Acceptable
<1>5. BufferShape'
  BY <1>0, <1>1 DEF Begin, Finish, BufferShape
<1>6. TableShape'
  BY <1>0, <1>1 DEF Begin, Finish, TableShape
<1> QED
  BY <1>3, <1>4, <1>5, <1>6 DEF Shape

\* A hit or a fetch moves a read on inside its range.
LEMMA ReadStepShape == Shape /\ (ReadHit \/ ReadFetch \/ ReadDone) => Shape'
<1> USE BlockCallsAssumption, NetBlkAssumption, LimitTypes
<1> SUFFICES ASSUME Shape, ReadHit \/ ReadFetch \/ ReadDone PROVE Shape'
  OBVIOUS
<1>0. TypeOK /\ CallShape /\ BufferShape /\ TableShape
  BY DEF Shape
<1>1. CASE ReadHit
  <2>1. PICK w \in Window, k \in 1 .. call.n - cur :
          /\ out' = Overlay(out, At .. At + k - 1, read_cache[w])
          /\ cur' = cur + k
    BY <1>1 DEF ReadHit
  <2>2. out' \in Contents
    BY <1>0, <2>1, OverlayContents DEF TypeOK
  <2>3. cur' \in 0 .. NbSectors /\ cur' <= call.n
    BY <1>0, <2>1 DEF TypeOK, Call
  <2>4. TypeOK'
    BY <1>0, <1>1, <2>2, <2>3 DEF ReadHit, TypeOK, clientVars
  <2>5. CallShape' /\ BufferShape' /\ TableShape'
    BY <1>0, <1>1, <2>3 DEF ReadHit, CallShape, BufferShape, TableShape, WritePcs, clientVars
  <2> QED
    BY <2>4, <2>5 DEF Shape
<1>2. CASE ReadFetch
  <2>1. image \in Contents
    BY <1>0 DEF TypeOK, Contents
  <2>2. read_cache' \in [Window -> Contents] /\ read_cache_next' \in Window
    <3>1. (read_cache_next + 1) % CacheWindows \in Window
      BY <1>0 DEF TypeOK, Window
    <3>2. PICK nx \in At + 1 .. End :
            \/ /\ read_cache' = [read_cache EXCEPT ![read_cache_next] =
                                   Overlay(NoData, FetchSpan(nx), image)]
               /\ read_cache_next' = (read_cache_next + 1) % CacheWindows
            \/ /\ read_cache' = [read_cache EXCEPT ![read_cache_next] = NoData]
               /\ UNCHANGED read_cache_next
      BY <1>2 DEF ReadFetch
    <3>3. Overlay(NoData, FetchSpan(nx), image) \in Contents
      BY <2>1, NoDataContents, OverlayContents
    <3> QED
      BY <1>0, <3>1, <3>2, <3>3, NoDataContents DEF TypeOK
  <2>3. TypeOK'
    BY <1>0, <1>2, <2>2 DEF ReadFetch, TypeOK, RequestOK, RequestFails, Finish, Pcs
  <2>4. CallShape' /\ BufferShape' /\ TableShape'
    BY <1>0, <1>2 DEF ReadFetch, CallShape, BufferShape, TableShape, WritePcs, Finish
  <2> QED
    BY <2>3, <2>4 DEF Shape
<1>3. CASE ReadDone
  <2>1. TypeOK'
    BY <1>0, <1>3 DEF ReadDone, TypeOK, Finish, Pcs, clientVars
  <2>2. CallShape' /\ BufferShape' /\ TableShape'
    BY <1>0, <1>3 DEF ReadDone, CallShape, BufferShape, TableShape, WritePcs, Finish, clientVars
  <2> QED
    BY <2>1, <2>2 DEF Shape
<1> QED
  BY <1>1, <1>2, <1>3

\* The head of netblk_write_async chooses a path that fits the write's length.
LEMMA WriteCallShape == Shape /\ WriteCall => Shape'
<1> USE BlockCallsAssumption, NetBlkAssumption, LimitTypes, TableCoversBuffer
<1> SUFFICES ASSUME Shape, WriteCall PROVE Shape'
  OBVIOUS
<1>0. TypeOK /\ CallShape /\ BufferShape /\ TableShape
  BY DEF Shape
<1>1. PICK first \in 0 .. NbSectors, n \in 1 .. NbSectors :
       LET c == [op |-> "write", first |-> first, n |-> n, stamp |-> stamp + 1] IN
       /\ Begin(c)
       /\ stamp' = stamp + 1
       /\ \/ /\ ~(Writable /\ Acceptable(c))
             /\ Finish(-1)
             /\ UNCHANGED <<read_cache, table>>
          \/ /\ Writable /\ Acceptable(c)
             /\ Invalidate(Span(c))
             /\ UNCHANGED rc
             /\ \/ n <= TableSectors /\ AllocWrites /\ pc' = "store"
                \/ /\ \/ n > TableSectors /\ UNCHANGED table
                      \/ n <= TableSectors /\ AllocFails
                   /\ pc' = IF n > BufferSectors THEN "direct_drain"
                            ELSE IF MustFlushFirst(first, n) THEN "append_flush"
                            ELSE "append"
  BY DEF WriteCall
<1> DEFINE c == [op |-> "write", first |-> first, n |-> n, stamp |-> stamp + 1]
<1>2. stamp' \in Stamp /\ c \in Call
  BY <1>0, <1>1 DEF WriteCall, TypeOK, Stamp, Call, Ops
<1>3. read_cache' \in [Window -> Contents]
  BY <1>0, <1>1, NoDataContents DEF Invalidate, TypeOK
<1>4. TypeOK'
  BY <1>0, <1>1, <1>2, <1>3 DEF AllocWrites, AllocFails, Begin, Finish, TypeOK, Pcs, NoReply, Reply, Ops, NoData, Contents, Nil
<1>5. CallShape'
  BY <1>0, <1>1 DEF AllocWrites, AllocFails, Begin, Finish, CallShape, WritePcs, Acceptable
<1>6. BufferShape'
  BY <1>0, <1>1 DEF AllocWrites, AllocFails, Begin, Finish, BufferShape, MustFlushFirst, TypeOK
<1>7. TableShape'
  BY <1>0, <1>1 DEF AllocWrites, AllocFails, Begin, Finish, TableShape, TypeOK
<1> QED
  BY <1>4, <1>5, <1>6, <1>7 DEF Shape

\* The store loop stays inside its write and inside the table.
LEMMA StoreShape == Shape /\ (Store \/ StoreFull \/ StoreDone) => Shape'
<1> USE BlockCallsAssumption, NetBlkAssumption
<1> SUFFICES ASSUME Shape, Store \/ StoreFull \/ StoreDone PROVE Shape'
  OBVIOUS
<1>0. TypeOK /\ CallShape /\ BufferShape /\ TableShape
  BY DEF Shape
<1>1. CASE Store
  <2>1. call.stamp \in Stamp
    BY <1>0 DEF TypeOK, Call
  <2>2. writeback' \in Contents
    BY <1>0, <1>1, <2>1 DEF Store, TypeOK, Contents
  <2>3. TypeOK'
    BY <1>0, <1>1, <2>2 DEF Store, TypeOK, CallShape, WritePcs, Call
  <2>4. CallShape' /\ BufferShape' /\ TableShape'
    BY <1>0, <1>1 DEF Store, CallShape, BufferShape, TableShape, WritePcs, TypeOK, Call
  <2> QED
    BY <2>3, <2>4 DEF Shape
<1>2. CASE StoreFull
  <2>1. TypeOK'
    BY <1>0, <1>2 DEF StoreFull, TypeOK, Pcs, clientVars, callVars
  <2>2. CallShape' /\ BufferShape' /\ TableShape'
    BY <1>0, <1>2 DEF StoreFull, CallShape, BufferShape, TableShape, WritePcs, clientVars, callVars
  <2> QED
    BY <2>1, <2>2 DEF Shape
<1>3. CASE StoreDone
  <2>1. TypeOK'
    BY <1>0, <1>3 DEF StoreDone, TypeOK, Finish, Pcs, clientVars
  <2>2. CallShape' /\ BufferShape' /\ TableShape'
    BY <1>0, <1>3 DEF StoreDone, CallShape, BufferShape, TableShape, WritePcs, Finish, clientVars
  <2> QED
    BY <2>1, <2>2 DEF Shape
<1> QED
  BY <1>1, <1>2, <1>3

\* A write that goes out at once leaves an image.
LEMMA WriteDirectShape == Shape /\ WriteDirect => Shape'
<1> USE BlockCallsAssumption, NetBlkAssumption
<1> SUFFICES ASSUME Shape, WriteDirect PROVE Shape'
  OBVIOUS
<1>0. TypeOK /\ CallShape /\ BufferShape /\ TableShape
  BY DEF Shape
<1>1. call.first \in Nat /\ call.n \in Nat /\ call.stamp \in Stamp /\ call.n <= NbSectors
  BY <1>0 DEF TypeOK, Call
<1>2. image' \in [Sector -> Stamp] /\ link' \in {"up", "down"}
  BY <1>0, <1>1, FillContents, WriteImage DEF WriteDirect
<1>3. TypeOK'
  BY <1>0, <1>1, <1>2 DEF WriteDirect, TypeOK, Finish, Pcs, clientVars
<1>4. CallShape'
  BY <1>0, <1>1 DEF WriteDirect, CallShape, WritePcs, Finish, TypeOK
<1>5. BufferShape' /\ TableShape'
  BY <1>0 DEF WriteDirect, BufferShape, TableShape, Finish, clientVars
<1> QED
  BY <1>3, <1>4, <1>5 DEF Shape

\* netblk_flush_writes before or after an append leaves the buffer empty or full.
LEMMA BufferFlushShape == Shape /\ (AppendFlush \/ FullFlush) => Shape'
<1> USE BlockCallsAssumption, NetBlkAssumption
<1> SUFFICES ASSUME Shape, AppendFlush \/ FullFlush PROVE Shape'
  OBVIOUS
<1>0. TypeOK /\ CallShape /\ BufferShape /\ TableShape
  BY DEF Shape
<1>1. BufferOut \/ BufferOutFails
  BY DEF AppendFlush, FullFlush
<1>2. image' \in [Sector -> Stamp] /\ link' \in {"up", "down"}
  BY <1>0, <1>1, WriteImage DEF BufferOut, BufferOutFails, TypeOK, BufferShape
<1>3. TypeOK'
  BY <1>0, <1>2, NoDataContents
     DEF AppendFlush, FullFlush, TypeOK, Finish, Pcs, BufferOut, BufferOutFails
<1>4. CallShape'
  BY <1>0 DEF AppendFlush, FullFlush, CallShape, WritePcs, Finish, TypeOK, Call
<1>5. BufferShape'
  <2>1. CASE BufferOut
    <3>1. \A s \in Sector : write_buffer'[s] = Nil
      BY <2>1 DEF BufferOut, NoData
    <3>2. write_sectors' = 0 /\ write_sector' = write_sector /\ write_sector \in Nat
      BY <1>0, <2>1 DEF BufferOut, AppendFlush, FullFlush, TypeOK
    <3>3. pc' = "append" => call'.n <= BufferSectors /\ call'.n \in Nat
      BY <1>0 DEF AppendFlush, FullFlush, TableShape, Finish, TypeOK, Call
    <3> QED
      BY <3>1, <3>2, <3>3 DEF BufferShape, Sector
  <2>2. CASE BufferOutFails
    <3>1. pc' # "append"
      BY <2>2 DEF AppendFlush, FullFlush, BufferOut, BufferOutFails, WriteOK, WriteFails,
                  RequestOK, RequestFails, Finish
    <3> QED
      BY <1>0, <2>2, <3>1 DEF AppendFlush, FullFlush, BufferShape, BufferOutFails
  <2> QED
    BY <1>1, <2>1, <2>2
<1>6. TableShape'
  BY <1>0 DEF AppendFlush, FullFlush, TableShape, Finish, BufferOut, BufferOutFails
<1> QED
  BY <1>3, <1>4, <1>5, <1>6 DEF Shape

\* An appended write fits the buffer and continues its run.
LEMMA AppendRunShape == Shape /\ AppendRun => Shape'
<1> USE BlockCallsAssumption, NetBlkAssumption
<1> SUFFICES ASSUME Shape, AppendRun PROVE Shape'
  OBVIOUS
<1>0. TypeOK /\ CallShape /\ BufferShape /\ TableShape
  BY DEF Shape
<1>1. /\ call.first \in Nat /\ call.n \in Nat \ {0} /\ call.stamp \in Stamp
      /\ call.n <= NbSectors /\ call.first + call.n <= NbSectors
  BY <1>0 DEF TypeOK, Call, AppendRun, CallShape, WritePcs
<1>2. write_buffer' \in Contents
  BY <1>0, <1>1, FillContents, OverlayContents DEF AppendRun, TypeOK
<1>3. write_sector' \in Nat /\ write_sectors' \in 0 .. BufferSectors
  BY <1>0, <1>1 DEF AppendRun, TypeOK, BufferShape
<1>4. TypeOK'
  BY <1>0, <1>1, <1>2, <1>3 DEF AppendRun, TypeOK, Finish, Pcs
<1>5. CallShape'
  BY <1>0, <1>1 DEF AppendRun, CallShape, WritePcs, Finish
<1>6. BufferShape'
  <2>1. \A s \in Sector : write_buffer'[s] =
           IF s \in call.first .. call.first + call.n - 1 THEN call.stamp ELSE write_buffer[s]
    BY DEF AppendRun, Overlay, Fill, Span
  <2>2. call.stamp # Nil
    BY <1>1 DEF Stamp, Nil
  <2>3. write_sector' + write_sectors' = call.first + call.n
    BY <1>0, <1>1 DEF AppendRun, BufferShape, TypeOK
  <2>4. \A s \in Sector : s \in write_sector' .. write_sector' + write_sectors' - 1
           <=> \/ s \in write_sector .. write_sector + write_sectors - 1
               \/ s \in call.first .. call.first + call.n - 1
    <3>1. CASE write_sectors = 0
      BY <1>0, <1>1, <3>1 DEF AppendRun, TypeOK, Sector
    <3>2. CASE write_sectors > 0
      <4>1. /\ write_sector' = write_sector /\ write_sector + write_sectors = call.first
            /\ write_sectors' = write_sectors + call.n
        BY <1>0, <3>2 DEF AppendRun, BufferShape
      <4> QED
        BY <1>0, <1>1, <3>2, <4>1, SMTT(30) DEF TypeOK, Sector
    <3> QED
      BY <1>0, <3>1, <3>2 DEF TypeOK
  <2>5. pc' # "append"
    BY DEF AppendRun, Finish
  <2> QED
    BY <1>0, <1>1, <2>1, <2>2, <2>3, <2>4, <2>5 DEF BufferShape
<1>7. TableShape'
  BY <1>0 DEF AppendRun, TableShape, Finish, CallShape, WritePcs
<1> QED
  BY <1>4, <1>5, <1>6, <1>7 DEF Shape

\* The head of netblk_flush starts a drain or answers at once.
LEMMA FlushCallShape == Shape /\ FlushCall => Shape'
<1> USE BlockCallsAssumption, NetBlkAssumption
<1> SUFFICES ASSUME Shape, FlushCall PROVE Shape'
  OBVIOUS
<1>0. TypeOK /\ CallShape /\ BufferShape /\ TableShape
  BY DEF Shape
<1>1. [op |-> "flush", first |-> 0, n |-> 0, stamp |-> 0] \in Call
  BY DEF Call, Ops, Stamp
<1>2. NoReply \in Reply
  BY DEF NoReply, Reply, NoData
<1>3. TypeOK'
  BY <1>0, <1>1, <1>2 DEF FlushCall, Begin, Finish, TypeOK, Pcs
<1>4. CallShape' /\ BufferShape' /\ TableShape'
  BY <1>0 DEF FlushCall, Begin, Finish, CallShape, BufferShape, TableShape, WritePcs
<1> QED
  BY <1>3, <1>4 DEF Shape

\* The flush request and ide_delete leave the caches alone.
LEMMA OtherStepShape ==
  Shape /\ (FlushRequest \/ Delete \/ DeleteRequest \/ UNCHANGED vars) => Shape'
<1> USE BlockCallsAssumption, NetBlkAssumption
<1> SUFFICES ASSUME Shape, FlushRequest \/ Delete \/ DeleteRequest \/ UNCHANGED vars
             PROVE  Shape'
  OBVIOUS
<1>0. TypeOK /\ CallShape /\ BufferShape /\ TableShape
  BY DEF Shape
<1>1. CASE FlushRequest
  <2>1. TypeOK'
    BY <1>0, <1>1 DEF FlushRequest, RequestOK, RequestFails, Finish, TypeOK, Pcs, clientVars
  <2>2. CallShape' /\ BufferShape' /\ TableShape'
    BY <1>0, <1>1 DEF FlushRequest, Finish, CallShape, BufferShape, TableShape, WritePcs, clientVars
  <2> QED
    BY <2>1, <2>2 DEF Shape
<1>2. CASE Delete \/ DeleteRequest
  <2>1. TypeOK'
    BY <1>0, <1>2 DEF Delete, DeleteRequest, RequestOK, RequestFails, TypeOK, Pcs, clientVars, callVars
  <2>2. CallShape' /\ BufferShape' /\ TableShape'
    BY <1>0, <1>2 DEF Delete, DeleteRequest, CallShape, BufferShape, TableShape, WritePcs, clientVars, callVars
  <2> QED
    BY <2>1, <2>2 DEF Shape
<1>3. CASE UNCHANGED vars
  BY <1>0, <1>3 DEF vars, clientVars, callVars, Shape, TypeOK, CallShape, BufferShape, TableShape
<1> QED
  BY <1>1, <1>2, <1>3

\* After a return the drive may call again.
LEMMA ReturnShape == Shape /\ Return => Shape'
<1> USE BlockCallsAssumption, NetBlkAssumption
<1> SUFFICES ASSUME Shape, Return PROVE Shape'
  OBVIOUS
<1>0. TypeOK /\ CallShape /\ BufferShape /\ TableShape
  BY DEF Shape
<1>1. call.stamp \in Stamp /\ call.op \in Ops \cup {"none"}
  BY <1>0 DEF TypeOK, Call
<1>2. acked' \in [Sector -> Stamp]
  BY <1>0, <1>1, FillContents, OverlayImage DEF Return, TypeOK
<1>3. reply' \in Reply
  BY <1>0, <1>1, NoDataContents DEF Return, Reply, TypeOK, Contents
<1>4. NoCall \in Call
  BY DEF NoCall, Call, Stamp
<1>5. TypeOK'
  BY <1>0, <1>2, <1>3, <1>4, NoDataContents DEF Return, TypeOK, Pcs, clientVars
<1>6. CallShape' /\ BufferShape' /\ TableShape'
  BY <1>0 DEF Return, CallShape, BufferShape, TableShape, WritePcs, clientVars, NoCall
<1> QED
  BY <1>5, <1>6 DEF Shape

\* The type invariant, with what it rests on, holds of every reachable state.
LEMMA ShapeInvariant == Spec => []Shape
<1>1. Shape /\ [Next]_vars => Shape'
  BY DrainBufferShape, DrainRunShape, DrainEndShape, ReadCallShape, ReadStepShape,
     WriteCallShape, StoreShape, WriteDirectShape, BufferFlushShape, AppendRunShape,
     FlushCallShape, OtherStepShape, ReturnShape DEF Next, Step, Closed
<1> QED
  BY <1>1, InitShape, PTL DEF Spec

(***************************************************************************)
(* No acknowledged write is lost while the connection lives, and writes    *)
(* reach the image in order.  Alone, neither is inductive: the order needs *)
(* to know how old the table, the buffer and the image are relative to     *)
(* each other, and the answer of a write how far it came.                  *)
(***************************************************************************)
Progress ==
  /\ pc \in {"direct_drain", "direct", "append_flush", "append"} => cur = 0
  /\ pc = "full_flush" => cur = call.n
  /\ pc = "return" /\ call.op = "write" /\ link = "up" =>
       cur = IF rc = 0 THEN call.n ELSE 0

Ordered ==
  \A s \in Sector :
    /\ image[s] <= stamp
    /\ write_buffer[s] # Nil => image[s] <= write_buffer[s] /\ write_buffer[s] <= stamp
    /\ writeback[s] # Nil => image[s] <= writeback[s] /\ writeback[s] <= stamp
    /\ writeback[s] # Nil => write_buffer[s] <= writeback[s]

Flushed ==
  /\ FlushCommits
  /\ pc = "return" /\ call.op = "flush" /\ rc = 0 => image = acked
  /\ ~Writable => image = acked
  /\ pc \in {"idle", "delete_drain", "delete", "closed"} \/ reply = NoReply

Safe == Progress /\ Ordered /\ NothingLost /\ Flushed

\* What a WRITE request that succeeded leaves in each sector of the image.
LEMMA WriteOKPoint ==
  ASSUME NEW first, NEW n, NEW g, WriteOK(first, n, g)
  PROVE  /\ link = "up" /\ link' = "up"
         /\ \A s \in Sector : image'[s] = IF s \in first .. first + n - 1 THEN g[s] ELSE image[s]
BY DEF WriteOK, RequestOK, Overlay

\* What a WRITE request that broke off leaves in each sector: old or new.
LEMMA WriteFailsPoint ==
  ASSUME NEW first \in Nat, NEW n \in Nat, NEW g, WriteFails(first, n, g)
  PROVE  /\ link' = "down"
         /\ \A s \in Sector :
              \/ image'[s] = image[s]
              \/ link = "up" /\ s \in first .. first + n - 1 /\ image'[s] = g[s]
<1>1. PICK k \in 0 .. n : image' = Overlay(image, first .. first + k - 1, g)
  <2>1. CASE link = "up"
    BY <2>1 DEF WriteFails
  <2>2. CASE link # "up"
    BY <2>2 DEF WriteFails
  <2> QED
    BY <2>1, <2>2
<1>2. \A s \in Sector : s \in first .. first + k - 1 => s \in first .. first + n - 1
  BY <1>1 DEF Sector
<1>3. link # "up" => \A s \in Sector : image'[s] = image[s]
  BY DEF WriteFails, Overlay, Sector
<1> QED
  BY <1>1, <1>2, <1>3 DEF Overlay, WriteFails, RequestFails

\* The write buffer goes out: the sectors it held are in the image, or it is
\* still there and the connection is gone.
LEMMA BufferOutPoint ==
  ASSUME TypeOK, BufferShape, BufferOut
  PROVE  /\ link = "up" /\ link' = "up"
         /\ \A s \in Sector : /\ write_buffer'[s] = Nil
                              /\ image'[s] = IF write_buffer[s] # Nil
                                             THEN write_buffer[s] ELSE image[s]
BY WriteOKPoint DEF BufferOut, BufferShape, TypeOK, NoData

\* A buffer that could not be sent is still there.
LEMMA BufferOutFailsPoint ==
  ASSUME TypeOK, BufferShape, BufferOutFails
  PROVE  /\ link' = "down"
         /\ write_buffer' = write_buffer
         /\ \A s \in Sector :
              \/ image'[s] = image[s]
              \/ link = "up" /\ write_buffer[s] # Nil /\ image'[s] = write_buffer[s]
BY NetBlkAssumption, WriteFailsPoint DEF BufferOutFails, BufferShape, TypeOK

\* A device just opened has lost nothing.
LEMMA InitSafe == Init => Safe
<1> SUFFICES ASSUME Init PROVE Safe
  OBVIOUS
<1> USE BlockCallsAssumption, NetBlkAssumption
<1>1. Progress
  BY DEF Init, Progress
<1>2. Ordered
  BY DEF Init, Ordered, NoData, Nil
<1>3. NothingLost
  BY DEF Init, NothingLost, Visible, Expected, NoData, NoCall, Nil
<1>4. Flushed
  BY DEF Init, Flushed, FlushCommits, NoReply
<1> QED
  BY <1>1, <1>2, <1>3, <1>4 DEF Safe

\* Draining moves what is pending into the image, so it cannot disturb a
\* flush that was answered with success.
LEMMA DrainKeepsFlush ==
  ASSUME TypeOK, image' \in [Sector -> Stamp], CallShape, Ordered, NothingLost, Flushed,
         pc \notin {"idle", "closed"}, pc' = "return" => call.op # "flush" \/ rc' # 0,
         Writable, call' = call, acked' = acked, reply' = reply,
         pc \in {"delete_drain", "delete"} => pc' \in {"delete_drain", "delete"},
         pc \notin {"delete_drain", "delete"} => pc' \notin {"delete_drain", "delete", "idle", "closed"},
         \A s \in Sector :
           \/ image'[s] = image[s]
           \/ link = "up" /\ write_buffer[s] # Nil /\ image'[s] = write_buffer[s]
           \/ link = "up" /\ writeback[s] # Nil /\ image'[s] = writeback[s]
  PROVE  Flushed'
<1> USE BlockCallsAssumption, NetBlkAssumption
<1>1. CASE pc \in {"delete_drain", "delete"}
  <2>1. call = NoCall /\ cur = 0
    BY <1>1 DEF CallShape
  <2>2. ASSUME image = acked, link = "up", NEW s \in Sector PROVE image'[s] = image[s]
    <3>1. Visible(s) = acked[s]
      BY <2>1, <2>2 DEF NothingLost, Expected, NoCall
    <3>2. writeback[s] # Nil => writeback[s] = image[s] /\ write_buffer[s] <= writeback[s]
      BY <2>2, <3>1 DEF Visible, Ordered
    <3>3. writeback[s] = Nil /\ write_buffer[s] # Nil => write_buffer[s] = image[s]
      BY <2>2, <3>1 DEF Visible
    <3>4. write_buffer[s] # Nil => image[s] <= write_buffer[s]
      BY DEF Ordered
    <3>5. image[s] \in Int /\ write_buffer[s] \in Int /\ writeback[s] \in Int
      BY DEF TypeOK, Contents, Stamp, Nil
    <3> QED
      BY <3>2, <3>3, <3>4, <3>5
  <2>3. image = acked => image' = image
    BY <2>2 DEF TypeOK
  <2> QED
    BY <1>1, <2>3 DEF Flushed, FlushCommits
<1>2. CASE pc \notin {"delete_drain", "delete"}
  BY <1>2 DEF Flushed, FlushCommits, NoReply
<1> QED
  BY <1>1, <1>2

\* Sending the buffer, from a drain or an append, keeps everything safe.
LEMMA BufferSafe == Shape /\ Safe /\ (DrainBuffer \/ AppendFlush \/ FullFlush) => Safe'
<1> USE BlockCallsAssumption, NetBlkAssumption
<1> SUFFICES ASSUME Shape, Safe, DrainBuffer \/ AppendFlush \/ FullFlush PROVE Safe'
  OBVIOUS
<1>0. /\ TypeOK /\ CallShape /\ BufferShape /\ TableShape
      /\ Progress /\ Ordered /\ NothingLost /\ Flushed
  BY DEF Shape, Safe
<1>1. /\ write_sectors > 0
      /\ writeback' = writeback /\ call' = call /\ cur' = cur /\ stamp' = stamp
      /\ acked' = acked /\ reply' = reply
  BY DEF DrainBuffer, AppendFlush, FullFlush, BufferOut, BufferOutFails
<1>2. Writable
  BY <1>0, <1>1 DEF TableShape
<1>3. TypeOK'
  BY DrainBufferShape, BufferFlushShape DEF Shape
<1>4. \A s \in Sector : /\ image[s] \in Int /\ write_buffer[s] \in Int
                        /\ writeback[s] \in Int /\ image'[s] \in Int
  BY <1>0, <1>3 DEF TypeOK, Contents, Stamp, Nil
<1>5. CASE BufferOut
  <2>0. /\ link = "up" /\ link' = "up"
        /\ \A s \in Sector : /\ write_buffer'[s] = Nil
                             /\ image'[s] = IF write_buffer[s] # Nil
                                            THEN write_buffer[s] ELSE image[s]
    BY <1>0, <1>5, BufferOutPoint
  <2>1. /\ pc = "append_flush" => pc' = "append" /\ rc' = rc
        /\ pc = "full_flush" => pc' = "return" /\ rc' = 0
        /\ pc \in DrainPcs => pc' = pc /\ rc' = rc
        /\ pc \in DrainPcs \cup {"append_flush", "full_flush"}
    BY <2>0 DEF DrainBuffer, AppendFlush, FullFlush, BufferOutFails, WriteFails, RequestFails,
                DrainPcs, Finish
  <2>2. Progress'
    BY <1>0, <1>1, <2>1 DEF Progress, DrainPcs
  <2>3. Ordered'
    BY <1>0, <1>1, <1>4, <2>0 DEF Ordered, Nil, TypeOK, Stamp
  <2>4. NothingLost'
    BY <1>0, <1>1, <2>0 DEF NothingLost, Visible, Expected
  <2>5. Flushed'
    BY <1>0, <1>1, <1>2, <1>3, <2>0, <2>1, DrainKeepsFlush DEF DrainPcs, CallShape, WritePcs, TypeOK
  <2> QED
    BY <2>2, <2>3, <2>4, <2>5 DEF Safe
<1>6. CASE BufferOutFails
  <2>0. /\ link' = "down"
        /\ write_buffer' = write_buffer
        /\ \A s \in Sector :
             \/ image'[s] = image[s]
             \/ link = "up" /\ write_buffer[s] # Nil /\ image'[s] = write_buffer[s]
    BY <1>0, <1>6, BufferOutFailsPoint
  <2>1. /\ pc \in {"append_flush", "full_flush", "read_drain", "direct_drain", "flush_drain"}
             => pc' = "return" /\ rc' = -1
        /\ pc = "store_drain" => pc' = "return"
        /\ pc = "delete_drain" => pc' = "delete"
        /\ pc \in DrainPcs \cup {"append_flush", "full_flush"}
    BY <2>0 DEF DrainBuffer, AppendFlush, FullFlush, BufferOut, WriteOK, RequestOK,
                DrainPcs, Finish, DrainFails
  <2>2. Progress'
    BY <2>0, <2>1 DEF Progress, DrainPcs
  <2>3. Ordered'
    BY <1>0, <1>1, <1>4, <2>0 DEF Ordered
  <2>4. NothingLost'
    BY <2>0 DEF NothingLost
  <2>5. Flushed'
    BY <1>0, <1>1, <1>2, <1>3, <2>0, <2>1, DrainKeepsFlush DEF DrainPcs, CallShape, WritePcs, TypeOK
  <2> QED
    BY <2>2, <2>3, <2>4, <2>5 DEF Safe
<1> QED
  BY <1>5, <1>6 DEF DrainBuffer, AppendFlush, FullFlush

\* A run of dirty table entries goes out.  The buffer is empty, so the run is
\* newer than the image; if the connection breaks, nothing more is promised.
LEMMA DrainRunSafe == Shape /\ Safe /\ DrainRun => Safe'
<1> USE BlockCallsAssumption, NetBlkAssumption
<1> SUFFICES ASSUME Shape, Safe, DrainRun PROVE Safe'
  OBVIOUS
<1>0. /\ TypeOK /\ CallShape /\ BufferShape /\ TableShape
      /\ Progress /\ Ordered /\ NothingLost /\ Flushed
  BY DEF Shape, Safe
<1>1. /\ write_sectors = 0 /\ pc \in DrainPcs
      /\ write_buffer' = write_buffer /\ call' = call /\ cur' = cur /\ stamp' = stamp
      /\ acked' = acked /\ reply' = reply
  BY DEF DrainRun
<1>2. PICK first \in Sector, n \in 1 .. Lesser(BufferSectors, NbSectors) :
        /\ DirtyRun(first, n)
        /\ writeback' = Erase(writeback, first .. first + n - 1)
        /\ \/ WriteOK(first, n, writeback) /\ UNCHANGED <<pc, rc>>
           \/ WriteFails(first, n, writeback) /\ DrainFails
  BY DEF DrainRun
<1>3. /\ first \in Nat /\ n \in Nat /\ first \in first .. first + n - 1
      /\ \A s \in first .. first + n - 1 : s \in Sector /\ writeback[s] # Nil
  BY <1>2 DEF Sector, DirtyRun, Lesser
<1>4. Writable
  BY <1>0, <1>2, <1>3 DEF TableShape, NoData
<1>5. TypeOK'
  BY DrainRunShape DEF Shape
<1>6. \A s \in Sector : /\ image[s] \in Int /\ write_buffer[s] \in Int
                        /\ writeback[s] \in Int /\ image'[s] \in Int
                        /\ write_buffer[s] = Nil
                        /\ writeback'[s] = IF s \in first .. first + n - 1 THEN Nil ELSE writeback[s]
  <2>1. \A s \in Sector : /\ image[s] \in Int /\ write_buffer[s] \in Int
                          /\ writeback[s] \in Int /\ image'[s] \in Int
    BY <1>0, <1>5 DEF TypeOK, Contents, Stamp, Nil
  <2>2. \A s \in Sector : write_buffer[s] = Nil
    BY <1>0, <1>1 DEF BufferShape, TypeOK, Sector
  <2>3. \A s \in Sector :
          writeback'[s] = IF s \in first .. first + n - 1 THEN Nil ELSE writeback[s]
    BY <1>2 DEF Erase
  <2> QED
    BY <2>1, <2>2, <2>3
<1>7. CASE WriteOK(first, n, writeback) /\ UNCHANGED <<pc, rc>>
  <2>0. /\ link = "up" /\ link' = "up"
        /\ \A s \in Sector : image'[s] = IF s \in first .. first + n - 1
                                         THEN writeback[s] ELSE image[s]
    BY <1>7, WriteOKPoint
  <2>2. Progress'
    BY <1>0, <1>1, <1>7, <2>0 DEF Progress, DrainPcs
  <2>3. Ordered'
    BY <1>0, <1>1, <1>3, <1>6, <2>0 DEF Ordered
  <2>4. NothingLost'
    BY <1>0, <1>1, <1>3, <1>6, <2>0 DEF NothingLost, Visible, Expected
  <2>5. Flushed'
    BY <1>0, <1>1, <1>3, <1>4, <1>5, <1>7, <2>0, DrainKeepsFlush DEF DrainPcs, TypeOK
  <2> QED
    BY <2>2, <2>3, <2>4, <2>5 DEF Safe
<1>8. CASE WriteFails(first, n, writeback) /\ DrainFails
  <2>0. /\ link' = "down"
        /\ \A s \in Sector :
             \/ image'[s] = image[s]
             \/ link = "up" /\ s \in first .. first + n - 1 /\ image'[s] = writeback[s]
    <3>1. WriteFails(first, n, writeback)
      BY <1>8
    <3>2. first \in Nat /\ n \in Nat
      BY <1>3
    <3>3. ASSUME NEW g, WriteFails(first, n, g)
          PROVE  /\ link' = "down"
                 /\ \A s \in Sector :
                      \/ image'[s] = image[s]
                      \/ link = "up" /\ s \in first .. first + n - 1 /\ image'[s] = g[s]
      BY <3>2, <3>3, WriteFailsPoint
    <3> QED
      BY <3>1, <3>3
  <2>1. /\ pc \in {"read_drain", "direct_drain", "flush_drain"} => pc' = "return" /\ rc' = -1
        /\ pc = "store_drain" => pc' = "return"
        /\ pc = "delete_drain" => pc' = "delete"
    BY <1>8 DEF DrainFails, Finish
  <2>2. Progress'
    BY <1>1, <2>0, <2>1 DEF Progress, DrainPcs
  <2>3. Ordered'
    BY <1>0, <1>1, <1>3, <1>6, <2>0 DEF Ordered
  <2>4. NothingLost'
    BY <2>0 DEF NothingLost
  <2>5. Flushed'
    BY <1>0, <1>1, <1>3, <1>4, <1>5, <2>0, <2>1, DrainKeepsFlush DEF DrainPcs, CallShape, WritePcs, TypeOK
  <2> QED
    BY <2>2, <2>3, <2>4, <2>5 DEF Safe
<1> QED
  BY <1>2, <1>7, <1>8

\* The steps that move no data: the end of a drain, the calls, the steps of a
\* read, the turns of the store loop, the flush request and ide_delete.
LEMMA QuietSafe ==
  Shape /\ Safe /\ (\/ DrainEnd \/ ReadHit \/ ReadFetch \/ ReadDone \/ StoreFull
                    \/ StoreDone \/ FlushRequest \/ Delete \/ DeleteRequest
                    \/ UNCHANGED vars) => Safe'
<1> USE BlockCallsAssumption, NetBlkAssumption
<1> SUFFICES ASSUME Shape, Safe,
                    \/ DrainEnd \/ ReadHit \/ ReadFetch \/ ReadDone \/ StoreFull
                    \/ StoreDone \/ FlushRequest \/ Delete \/ DeleteRequest
                    \/ UNCHANGED vars
             PROVE  Safe'
  OBVIOUS
<1>0. /\ TypeOK /\ CallShape /\ BufferShape /\ TableShape
      /\ Progress /\ Ordered /\ NothingLost /\ Flushed
  BY DEF Shape, Safe
<1>1. /\ image' = image /\ write_buffer' = write_buffer /\ writeback' = writeback
      /\ call' = call /\ stamp' = stamp /\ acked' = acked /\ reply' = reply
      /\ link' = "up" => link = "up"
      /\ cur' = cur \/ call.op = "read"
  BY <1>0 DEF DrainEnd, ReadHit, ReadFetch, ReadDone, StoreFull, StoreDone, FlushRequest,
     Delete, DeleteRequest, vars, clientVars, callVars, RequestOK, RequestFails, CallShape
<1>2. Progress'
  BY <1>0, <1>1 DEF DrainEnd, ReadHit, ReadFetch, ReadDone, StoreFull, StoreDone, FlushRequest,
     Delete, DeleteRequest, vars, clientVars, callVars, Finish, Progress, DrainSucceeds, DrainPcs,
     CallShape, WritePcs
<1>3. Ordered'
  BY <1>0, <1>1 DEF Ordered
<1>4. NothingLost'
  BY <1>0, <1>1 DEF NothingLost, Visible, Expected
<1>5. Flushed'
  <2>1. CASE FlushRequest
    <3>1. pc = "flush" /\ call.op = "flush" /\ writeback = NoData /\ write_sectors = 0 /\ Writable
      BY <1>0, <2>1 DEF FlushRequest, CallShape, TableShape
    <3>2. rc' = 0 => link = "up"
      BY <2>1 DEF FlushRequest, RequestOK, RequestFails, Finish
    <3>3. \A s \in Sector : writeback[s] = Nil /\ write_buffer[s] = Nil
      BY <1>0, <3>1 DEF BufferShape, NoData, TypeOK, Sector
    <3>4. link = "up" => \A s \in Sector : image[s] = acked[s]
      BY <1>0, <3>1, <3>3 DEF NothingLost, Visible, Expected
    <3>5. rc' = 0 => image = acked
      BY <1>0, <3>2, <3>4 DEF TypeOK
    <3> QED
      BY <1>0, <1>1, <3>1, <3>5 DEF Flushed, FlushCommits, NoReply
  <2>2. CASE ~FlushRequest
    <3>1. /\ pc \in {"idle", "delete_drain", "delete", "closed"} =>
                pc' \in {"idle", "delete_drain", "delete", "closed"}
          /\ pc' = "return" /\ call.op = "flush" => pc = "return" /\ rc' = rc
      BY <1>0, <2>2 DEF DrainEnd, ReadHit, ReadFetch, ReadDone, StoreFull, StoreDone,
         Delete, DeleteRequest, vars, clientVars, callVars, Finish, DrainSucceeds, DrainPcs,
         CallShape, WritePcs
    <3> QED
      BY <1>0, <1>1, <3>1 DEF Flushed, FlushCommits
  <2> QED
    BY <2>1, <2>2
<1> QED
  BY <1>2, <1>3, <1>4, <1>5 DEF Safe

\* A new call promises nothing yet.
LEMMA CallSafe == Shape /\ Safe /\ (ReadCall \/ WriteCall \/ FlushCall) => Safe'
<1> USE BlockCallsAssumption, NetBlkAssumption
<1> SUFFICES ASSUME Shape, Safe, ReadCall \/ WriteCall \/ FlushCall PROVE Safe'
  OBVIOUS
<1>0. /\ TypeOK /\ CallShape /\ BufferShape /\ TableShape
      /\ Progress /\ Ordered /\ NothingLost /\ Flushed
  BY DEF Shape, Safe
<1>1. /\ pc = "idle" /\ image' = image /\ write_buffer' = write_buffer
      /\ writeback' = writeback /\ link' = link /\ cur' = cur
      /\ acked' = acked /\ reply' = NoReply
      /\ stamp' \in {stamp, stamp + 1}
      /\ pc' # "full_flush"
      /\ pc' = "return" => rc' = -1 \/ call'.op # "write"
      /\ call'.op = "flush" /\ pc' = "return" => ~Writable
      /\ call'.first \in Nat
  <2>1. CASE ReadCall
    BY <2>1 DEF ReadCall, Begin, Finish
  <2>2. CASE WriteCall
    BY <2>2 DEF WriteCall, Begin, Finish
  <2>3. CASE FlushCall
    BY <2>3 DEF FlushCall, Begin, Finish
  <2> QED
    BY <2>1, <2>2, <2>3
<1>2. call = NoCall /\ cur = 0
  BY <1>0, <1>1 DEF CallShape
<1>4. Progress'
  BY <1>1, <1>2 DEF Progress
<1>5. Ordered'
  BY <1>0, <1>1 DEF Ordered, TypeOK, Contents, Stamp, Nil
<1>6. NothingLost'
  BY <1>0, <1>1, <1>2 DEF NothingLost, Visible, Expected, NoCall
<1>7. Flushed'
  BY <1>0, <1>1 DEF Flushed, FlushCommits, NoReply
<1> QED
  BY <1>4, <1>5, <1>6, <1>7 DEF Safe

\* The steps that take sectors of the write in progress, each newer than
\* everything there is.
LEMMA StoreSafe == Shape /\ Safe /\ Store => Safe'
<1> USE BlockCallsAssumption, NetBlkAssumption
<1> SUFFICES ASSUME Shape, Safe, Store PROVE Safe'
  OBVIOUS
<1>0. /\ TypeOK /\ CallShape /\ BufferShape /\ TableShape
      /\ Progress /\ Ordered /\ NothingLost /\ Flushed
  BY DEF Shape, Safe
<1>1. /\ pc = "store" /\ pc' = pc /\ cur < call.n /\ cur' = cur + 1 /\ image' = image
      /\ link' = link /\ write_buffer' = write_buffer /\ call' = call /\ rc' = rc
      /\ stamp' = stamp /\ acked' = acked /\ reply' = reply
      /\ writeback' = [writeback EXCEPT ![At] = call.stamp]
  BY DEF Store
<1>2. /\ call.op = "write" /\ call.stamp = stamp /\ stamp \in Nat /\ cur \in Nat
      /\ call.first \in Nat /\ call.n \in Nat /\ call.first + call.n <= NbSectors
  BY <1>0, <1>1 DEF CallShape, WritePcs, TypeOK, Call, Stamp
<1>3. At \in Sector
  BY <1>1, <1>2 DEF At, Sector
<1>4. \A s \in Sector : writeback'[s] = IF s = At THEN stamp ELSE writeback[s]
  BY <1>0, <1>1, <1>2, <1>3 DEF TypeOK, Contents
<1>5. \A s \in Sector : image[s] \in Int /\ write_buffer[s] \in Int /\ writeback[s] \in Int
  BY <1>0 DEF TypeOK, Contents, Stamp, Nil
<1>6. Progress'
  BY <1>1 DEF Progress
<1>7. Ordered'
  BY <1>0, <1>1, <1>2, <1>4, <1>5 DEF Ordered, Nil
<1>8. NothingLost'
  <2>1. ASSUME link = "up", NEW s \in Sector PROVE Visible(s)' = Expected(s)'
    <3>0. Visible(s) = Expected(s)
      BY <1>0, <2>1 DEF NothingLost
    <3>1. CASE s = At
      BY <1>1, <1>2, <1>4, <3>1 DEF Visible, Expected, At, Nil
    <3>2. CASE s # At
      <4>1. Visible(s)' = Visible(s)
        BY <1>1, <1>4, <3>2 DEF Visible
      <4>2. s \in call.first .. call.first + cur - 1 <=> s \in call.first .. call.first + cur' - 1
        BY <1>1, <1>2, <3>2 DEF At, Sector
      <4>3. Expected(s)' = Expected(s)
        BY <1>1, <4>2 DEF Expected
      <4> QED
        BY <3>0, <4>1, <4>3
    <3> QED
      BY <3>1, <3>2
  <2> QED
    BY <1>1, <2>1 DEF NothingLost
<1>9. Flushed'
  BY <1>0, <1>1 DEF Flushed, FlushCommits, NoReply
<1> QED
  BY <1>6, <1>7, <1>8, <1>9 DEF Safe

\* A write that goes out at once finds table and buffer drained.
LEMMA WriteDirectSafe == Shape /\ Safe /\ WriteDirect => Safe'
<1> USE BlockCallsAssumption, NetBlkAssumption
<1> SUFFICES ASSUME Shape, Safe, WriteDirect PROVE Safe'
  OBVIOUS
<1>0. /\ TypeOK /\ CallShape /\ BufferShape /\ TableShape
      /\ Progress /\ Ordered /\ NothingLost /\ Flushed
  BY DEF Shape, Safe
<1>1. /\ pc = "direct" /\ pc' = "return" /\ write_buffer' = write_buffer
      /\ writeback' = writeback /\ call' = call /\ stamp' = stamp /\ acked' = acked
      /\ reply' = reply
  BY DEF WriteDirect, clientVars, Finish
<1>2. /\ call.op = "write" /\ call.stamp = stamp /\ stamp \in Nat /\ cur = 0
      /\ call.first \in Nat /\ call.n \in Nat /\ Writable
      /\ writeback = NoData /\ write_sectors = 0
  BY <1>0, <1>1 DEF CallShape, WritePcs, TypeOK, Call, Stamp, TableShape, Progress
<1>3. \A s \in Sector : writeback[s] = Nil /\ write_buffer[s] = Nil
  BY <1>0, <1>2 DEF BufferShape, NoData, TypeOK, Sector
<1>4. \A s \in Sector : image[s] \in Int /\ Fill(call.stamp)[s] = stamp
  BY <1>0, <1>2 DEF TypeOK, Stamp, Fill
<1>5. Flushed'
  BY <1>0, <1>1, <1>2 DEF Flushed, FlushCommits, NoReply
<1>6. CASE WriteOK(call.first, call.n, Fill(call.stamp)) /\ Finish(0) /\ cur' = call.n
  <2>0. /\ link = "up" /\ link' = "up"
        /\ \A s \in Sector : image'[s] = IF s \in call.first .. call.first + call.n - 1
                                         THEN Fill(call.stamp)[s] ELSE image[s]
    BY <1>6, WriteOKPoint
  <2>1. Progress'
    BY <1>1, <1>6 DEF Progress, Finish
  <2>2. Ordered'
    BY <1>0, <1>1, <1>2, <1>3, <1>4, <2>0 DEF Ordered
  <2>3. NothingLost'
    BY <1>0, <1>1, <1>2, <1>3, <1>4, <1>6, <2>0 DEF NothingLost, Visible, Expected
  <2> QED
    BY <1>5, <2>1, <2>2, <2>3 DEF Safe
<1>7. CASE WriteFails(call.first, call.n, Fill(call.stamp)) /\ Finish(-1) /\ UNCHANGED cur
  <2>0. /\ link' = "down"
        /\ \A s \in Sector : image'[s] = image[s] \/ image'[s] = Fill(call.stamp)[s]
    <3>1. WriteFails(call.first, call.n, Fill(call.stamp))
      BY <1>7
    <3>2. call.first \in Nat /\ call.n \in Nat
      BY <1>2
    <3> QED
      BY <3>1, <3>2, WriteFailsPoint
  <2>1. Progress'
    BY <1>1, <2>0 DEF Progress
  <2>2. Ordered'
    BY <1>0, <1>1, <1>2, <1>3, <1>4, <2>0 DEF Ordered
  <2>3. NothingLost'
    BY <2>0 DEF NothingLost
  <2> QED
    BY <1>5, <2>1, <2>2, <2>3 DEF Safe
<1> QED
  BY <1>6, <1>7 DEF WriteDirect

\* A write is appended to the buffer only while the table is absent, so no
\* older table entry can come after it.
LEMMA AppendRunSafe == Shape /\ Safe /\ AppendRun => Safe'
<1> USE BlockCallsAssumption, NetBlkAssumption
<1> SUFFICES ASSUME Shape, Safe, AppendRun PROVE Safe'
  OBVIOUS
<1>0. /\ TypeOK /\ CallShape /\ BufferShape /\ TableShape
      /\ Progress /\ Ordered /\ NothingLost /\ Flushed
  BY DEF Shape, Safe
<1>1. /\ pc = "append" /\ pc' \in {"full_flush", "return"} /\ cur' = call.n
      /\ pc' = "return" => rc' = 0
      /\ image' = image /\ link' = link /\ writeback' = writeback /\ call' = call
      /\ stamp' = stamp /\ acked' = acked /\ reply' = reply
  BY DEF AppendRun, Finish
<1>2. /\ call.op = "write" /\ call.stamp = stamp /\ stamp \in Nat /\ cur = 0
      /\ call.first \in Nat /\ call.n \in Nat /\ Writable /\ writeback = NoData
  BY <1>0, <1>1 DEF CallShape, WritePcs, TypeOK, Call, Stamp, TableShape, Progress
<1>3. \A s \in Sector :
        /\ writeback[s] = Nil
        /\ image[s] \in Int /\ write_buffer[s] \in Int
        /\ write_buffer'[s] = IF s \in call.first .. call.first + call.n - 1
                              THEN stamp ELSE write_buffer[s]
  BY <1>0, <1>2 DEF AppendRun, NoData, TypeOK, Contents, Stamp, Nil, Overlay, Fill, Span
<1>4. Progress'
  BY <1>1 DEF Progress
<1>5. Ordered'
  BY <1>0, <1>1, <1>2, <1>3 DEF Ordered
<1>6. NothingLost'
  BY <1>0, <1>1, <1>2, <1>3 DEF NothingLost, Visible, Expected, Nil
<1>7. Flushed'
  BY <1>0, <1>1, <1>2 DEF Flushed, FlushCommits, NoReply
<1> QED
  BY <1>4, <1>5, <1>6, <1>7 DEF Safe

\* The answer of a write makes its sectors the acknowledged ones.
LEMMA ReturnSafe == Shape /\ Safe /\ Return => Safe'
<1> USE BlockCallsAssumption, NetBlkAssumption
<1> SUFFICES ASSUME Shape, Safe, Return PROVE Safe'
  OBVIOUS
<1>0. /\ TypeOK /\ CallShape /\ BufferShape /\ TableShape
      /\ Progress /\ Ordered /\ NothingLost /\ Flushed
  BY DEF Shape, Safe
<1>1. /\ pc = "return" /\ pc' = "idle" /\ image' = image /\ link' = link
      /\ writeback' = writeback /\ write_buffer' = write_buffer /\ stamp' = stamp
      /\ call' = NoCall /\ cur' = 0 /\ reply'.op = call.op /\ reply'.rc = rc
  BY DEF Return, clientVars
<1>2. \A s \in Sector :
        acked'[s] = IF call.op = "write" /\ rc = 0 /\ s \in call.first .. call.first + call.n - 1
                    THEN call.stamp ELSE acked[s]
  BY DEF Return, Overlay, Fill, Span
<1>3. call.op # "write" \/ rc # 0 => acked' = acked
  BY DEF Return
<1>4. Progress'
  BY <1>1 DEF Progress
<1>5. Ordered'
  BY <1>0, <1>1 DEF Ordered
<1>6. NothingLost'
  <2>1. ASSUME link = "up", NEW s \in Sector PROVE Visible(s)' = Expected(s)'
    <3>0. Visible(s) = Expected(s) /\ Visible(s)' = Visible(s)
      BY <1>0, <1>1, <2>1 DEF NothingLost, Visible
    <3>1. call.op = "write" => cur = IF rc = 0 THEN call.n ELSE 0
      BY <1>0, <1>1, <2>1 DEF Progress
    <3>2. Expected(s)' = acked'[s]
      BY <1>1 DEF Expected, NoCall
    <3>3. Expected(s) = acked'[s]
      <4>1. call.first \in Nat /\ rc \in {0, -1}
        BY <1>0 DEF TypeOK, Call
      <4>2. rc # 0 /\ call.op = "write" => s \notin call.first .. call.first + cur - 1
        BY <3>1, <4>1
      <4> QED
        BY <1>2, <3>1, <4>1, <4>2 DEF Expected
    <3> QED
      BY <3>0, <3>2, <3>3
  <2> QED
    BY <1>1, <2>1 DEF NothingLost
<1>7. Flushed'
  <2>1. CASE Writable
    BY <1>0, <1>1, <1>3, <2>1 DEF Flushed, FlushCommits
  <2>2. CASE ~Writable
    BY <1>0, <1>1, <1>3, <2>2 DEF Flushed, FlushCommits, CallShape
  <2> QED
    BY <2>1, <2>2
<1> QED
  BY <1>4, <1>5, <1>6, <1>7 DEF Safe

\* Shape and Safe together are inductive.
LEMMA SafeInvariant == Spec => [](Shape /\ Safe)
<1>1. Shape /\ Safe /\ [Next]_vars => Safe'
  BY BufferSafe, DrainRunSafe, QuietSafe, CallSafe, StoreSafe, WriteDirectSafe,
     AppendRunSafe, ReturnSafe DEF Next, Step, Closed
<1> QED
  BY <1>1, InitSafe, ShapeInvariant, PTL DEF Spec

\* Every buffer, table and window index of the device's caches stays in its
\* range, whatever calls come and wherever the connection breaks.
THEOREM TypeCorrect == Spec => []TypeOK
BY ShapeInvariant, PTL DEF Shape

\* While the connection lives no acknowledged write is lost on its way through
\* the table, the buffer and the image.
THEOREM NoWriteLost == Spec => []NothingLost
BY SafeInvariant, PTL DEF Safe

\* A flush answered with success has committed every acknowledged write.
THEOREM FlushIsDurable == Spec => []FlushCommits
BY SafeInvariant, PTL DEF Safe, Flushed

\* Every WRITE request carries contents at least as new as the image's.
LEMMA ImageStep == Shape /\ Safe /\ [Next]_vars => \A s \in Sector : image'[s] >= image[s]
<1> USE BlockCallsAssumption, NetBlkAssumption
<1> SUFFICES ASSUME Shape, Safe, [Next]_vars, NEW s \in Sector PROVE image'[s] >= image[s]
  OBVIOUS
<1>0. /\ TypeOK /\ CallShape /\ BufferShape /\ TableShape
      /\ Progress /\ Ordered /\ NothingLost /\ Flushed
  BY DEF Shape, Safe
<1>1. /\ image[s] \in Int /\ write_buffer[s] \in Int /\ writeback[s] \in Int
      /\ write_buffer[s] # Nil => image[s] <= write_buffer[s]
      /\ writeback[s] # Nil => image[s] <= writeback[s]
      /\ image[s] <= stamp
  BY <1>0 DEF TypeOK, Contents, Stamp, Nil, Ordered
<1>2. CASE BufferOut
  BY <1>0, <1>1, <1>2, BufferOutPoint
<1>3. CASE BufferOutFails
  BY <1>0, <1>1, <1>3, BufferOutFailsPoint
<1>4. CASE DrainRun
  <2>1. PICK first \in Sector, n \in 1 .. Lesser(BufferSectors, NbSectors) :
          /\ DirtyRun(first, n)
          /\ WriteOK(first, n, writeback) \/ WriteFails(first, n, writeback)
    BY <1>4 DEF DrainRun
  <2>2. first \in Nat /\ n \in Nat /\ (s \in first .. first + n - 1 => writeback[s] # Nil)
    BY <2>1 DEF Sector, DirtyRun, Lesser
  <2>3. image'[s] = image[s] \/ (s \in first .. first + n - 1 /\ image'[s] = writeback[s])
    <3>1. CASE WriteOK(first, n, writeback)
      BY <3>1, WriteOKPoint
    <3>2. CASE WriteFails(first, n, writeback)
      BY <2>2, <3>2, WriteFailsPoint
    <3> QED
      BY <2>1, <3>1, <3>2
  <2> QED
    BY <1>1, <2>2, <2>3
<1>5. CASE WriteDirect
  <2>1. call.stamp = stamp /\ stamp \in Nat /\ call.first \in Nat /\ call.n \in Nat
    BY <1>0, <1>5 DEF WriteDirect, CallShape, WritePcs, TypeOK, Call, Stamp
  <2>2. image'[s] = image[s] \/ image'[s] = Fill(call.stamp)[s]
    <3>1. CASE WriteOK(call.first, call.n, Fill(call.stamp))
      BY <3>1, WriteOKPoint
    <3>2. CASE WriteFails(call.first, call.n, Fill(call.stamp))
      BY <2>1, <3>2, WriteFailsPoint
    <3> QED
      BY <1>5, <3>1, <3>2 DEF WriteDirect
  <2>3. Fill(call.stamp)[s] = stamp
    BY <2>1 DEF Fill
  <2> QED
    BY <1>1, <2>2, <2>3
<1>6. CASE image' = image
  BY <1>1, <1>6
<1>7. \/ BufferOut \/ BufferOutFails \/ DrainRun \/ WriteDirect \/ image' = image
  BY DEF Next, Step, Closed, vars, callVars, DrainBuffer, AppendFlush, FullFlush, DrainEnd,
     ReadCall, WriteCall, FlushCall, Begin, ReadHit, ReadFetch, ReadDone, Store, StoreFull,
     StoreDone, AppendRun, FlushRequest, Delete, DeleteRequest, Return
<1> QED
  BY <1>2, <1>3, <1>4, <1>5, <1>6, <1>7

\* Writes reach the image in the order they were issued.
THEOREM WritesInOrder == Spec => CommitsInOrder
<1>1. Shape /\ Safe /\ [Next]_vars => [\A s \in Sector : image'[s] >= image[s]]_image
  BY ImageStep
<1> QED
  BY <1>1, SafeInvariant, PTL DEF Spec, CommitsInOrder

(***************************************************************************)
(* The read windows are coherent as long as nothing is prefetched: then a  *)
(* fetch stays within the sectors whose pending writes the read has        *)
(* drained.  (With a longer prefetch the statement is false, which the run *)
(* NetBlkCache_stale shows.)                                               *)
(***************************************************************************)
OnSpan(w) == \A s \in Sector : s \in Span(call) => read_cache[w][s] = Nil

Coherent ==
  /\ WindowsCoherent
  /\ ReadsLatest
  /\ \A s \in Sector : out[s] \in {Nil, acked[s]}
  /\ pc \in WritePcs \/ (pc = "return" /\ call.op = "write" /\ rc = 0) =>
       \A w \in Window : OnSpan(w)
  /\ pc = "read" =>
       \A s \in Sector : s \in Span(call) => write_buffer[s] = Nil /\ writeback[s] = Nil

\* Empty windows are coherent.
LEMMA InitCoherent == Init => Coherent
BY DEF Init, Coherent, WindowsCoherent, ReadsLatest, NoData, NoReply, WritePcs

\* Without prefetch a fetch covers only sectors the read asked for.
LEMMA FetchWithinCall ==
  ASSUME Prefetch = 1, Shape, pc = "read", cur < call.n, NEW nx \in At + 1 .. End,
         NEW s \in FetchSpan(nx)
  PROVE  s \in Span(call)
<1> USE BlockCallsAssumption, NetBlkAssumption, LimitTypes
<1>1. /\ call.first \in Nat /\ call.n \in Nat /\ cur \in Nat
      /\ call.first + call.n <= NbSectors
  BY DEF Shape, TypeOK, Call, CallShape
<1>2. ~Prefetches(nx)
  BY <1>1 DEF Prefetches, At, End
<1>3. FetchStart(nx) = At
  BY <1>2 DEF FetchStart
<1>4. FetchLength(nx) \in Int /\ FetchLength(nx) <= nx - At
  BY <1>1, <1>2, <1>3 DEF FetchLength, Lesser, At, End
<1>5. FetchSpan(nx) \subseteq At .. nx - 1
  BY <1>1, <1>3, <1>4 DEF FetchSpan, At, End
<1> QED
  BY <1>1, <1>5 DEF Span, At, End

\* The steps that touch neither the windows nor what has been answered.
LEMMA FrameCoherent ==
  Shape /\ Coherent
    /\ (\/ DrainBuffer \/ DrainRun \/ DrainEnd \/ ReadDone \/ Store \/ StoreFull \/ StoreDone
        \/ WriteDirect \/ AppendFlush \/ AppendRun \/ FullFlush \/ FlushRequest \/ Delete
        \/ DeleteRequest \/ UNCHANGED vars)
    => Coherent'
<1> USE BlockCallsAssumption, NetBlkAssumption
<1> SUFFICES ASSUME Shape, Coherent,
               \/ DrainBuffer \/ DrainRun \/ DrainEnd \/ ReadDone \/ Store \/ StoreFull
               \/ StoreDone \/ WriteDirect \/ AppendFlush \/ AppendRun \/ FullFlush
               \/ FlushRequest \/ Delete \/ DeleteRequest \/ UNCHANGED vars
             PROVE  Coherent'
  OBVIOUS
<1>0. TypeOK /\ CallShape /\ BufferShape /\ TableShape
  BY DEF Shape
<1>1. read_cache' = read_cache /\ acked' = acked /\ reply' = reply /\ out' = out /\ call' = call
  BY DEF DrainBuffer, DrainRun, DrainEnd, ReadDone, Store, StoreFull, StoreDone, WriteDirect,
     AppendFlush, AppendRun, FullFlush, FlushRequest, Delete, DeleteRequest, vars,
     clientVars, callVars
<1>2. pc' \in WritePcs \/ (pc' = "return" /\ call'.op = "write" /\ rc' = 0) =>
      pc \in WritePcs \/ (pc = "return" /\ call.op = "write" /\ rc = 0)
  BY <1>0, <1>1 DEF DrainBuffer, DrainRun, DrainEnd, ReadDone, Store, StoreFull, StoreDone,
     WriteDirect, AppendFlush, AppendRun, FullFlush, FlushRequest, Delete, DeleteRequest, vars,
     clientVars, callVars, DrainSucceeds, DrainFails, Finish, DrainPcs, WritePcs, CallShape
<1>3. pc' = "read" =>
        \/ pc = "read" /\ write_buffer' = write_buffer /\ writeback' = writeback
        \/ DrainEnd
  BY DEF DrainBuffer, DrainRun, ReadDone, Store, StoreFull, StoreDone, WriteDirect,
     AppendFlush, AppendRun, FullFlush, FlushRequest, Delete, DeleteRequest, vars,
     clientVars, callVars, DrainFails, Finish, DrainPcs
<1>4. DrainEnd => \A s \in Sector : write_buffer'[s] = Nil /\ writeback'[s] = Nil
  BY <1>0 DEF DrainEnd, BufferShape, NoData, TypeOK, Sector
<1> QED
  BY <1>1, <1>2, <1>3, <1>4 DEF Coherent, WindowsCoherent, ReadsLatest, OnSpan, Span

\* The head of a call: a write drops the windows it overlaps, a read drains first.
LEMMA CallCoherent ==
  Shape /\ Coherent /\ (ReadCall \/ WriteCall \/ FlushCall) => Coherent'
<1> USE BlockCallsAssumption, NetBlkAssumption
<1> SUFFICES ASSUME Shape, Coherent, ReadCall \/ WriteCall \/ FlushCall PROVE Coherent'
  OBVIOUS
<1>0. TypeOK /\ CallShape /\ BufferShape /\ TableShape
  BY DEF Shape
<1>1. CASE FlushCall
  BY <1>1 DEF FlushCall, Begin, Finish, Coherent, WindowsCoherent, ReadsLatest, NoReply, WritePcs
<1>2. CASE ReadCall
  <2>1. /\ read_cache' = read_cache /\ acked' = acked /\ reply' = NoReply /\ out' = out
        /\ pc' \in {"read", "read_drain", "return"} /\ call'.op = "read"
        /\ write_buffer' = write_buffer /\ writeback' = writeback
    BY <1>2 DEF ReadCall, Begin, Finish
  <2>2. pc' = "read" => ~WriteOverlaps(Span(call'))
    BY <1>2 DEF ReadCall, Begin, Finish
  <2> QED
    BY <2>1, <2>2 DEF Coherent, WindowsCoherent, ReadsLatest, NoReply, WritePcs, WriteOverlaps, Span
<1>3. CASE WriteCall
  <2>1. /\ acked' = acked /\ reply' = NoReply /\ out' = out /\ call'.op = "write"
        /\ \/ pc' = "return" /\ rc' = -1 /\ read_cache' = read_cache
           \/ pc' # "return" /\ Invalidate(Span(call'))
        /\ pc' # "read"
    BY <1>3 DEF WriteCall, Begin, Finish
  <2>2. CASE pc' = "return" /\ rc' = -1 /\ read_cache' = read_cache
    BY <2>1, <2>2 DEF Coherent, WindowsCoherent, ReadsLatest, NoReply, WritePcs
  <2>3. CASE pc' # "return" /\ Invalidate(Span(call'))
    <3>1. \A w \in Window, s \in Sector :
            /\ read_cache'[w][s] \in {Nil, read_cache[w][s]}
            /\ s \in Span(call') => read_cache'[w][s] = Nil
      BY <2>3 DEF Invalidate, NoData
    <3> QED
      BY <2>1, <2>3, <3>1 DEF Coherent, WindowsCoherent, ReadsLatest, NoReply, OnSpan, Span
  <2> QED
    BY <2>1, <2>2, <2>3
<1> QED
  BY <1>1, <1>2, <1>3

\* A window filled without prefetch holds only sectors the read has drained.
LEMMA ReadCoherent ==
  Prefetch = 1 => (Shape /\ Safe /\ Coherent /\ (ReadHit \/ ReadFetch) => Coherent')
<1> USE BlockCallsAssumption, NetBlkAssumption
<1> SUFFICES ASSUME Prefetch = 1, Shape, Safe, Coherent, ReadHit \/ ReadFetch PROVE Coherent'
  OBVIOUS
<1>0. /\ TypeOK /\ CallShape /\ BufferShape /\ TableShape /\ NothingLost
  BY DEF Shape, Safe
<1>1. /\ pc = "read" /\ cur < call.n /\ call.op = "read" /\ call' = call /\ acked' = acked
      /\ reply' = reply /\ write_buffer' = write_buffer /\ writeback' = writeback
      /\ pc' \in {"read", "return"}
  BY <1>0 DEF ReadHit, ReadFetch, clientVars, CallShape, Finish
<1>2. CASE ReadHit
  <2>1. PICK w \in Window, k \in 1 .. call.n - cur :
          out' = Overlay(out, At .. At + k - 1, read_cache[w])
    BY <1>2 DEF ReadHit
  <2>2. \A s \in Sector : out'[s] \in {out[s], read_cache[w][s]}
    BY <2>1 DEF Overlay
  <2>3. read_cache' = read_cache
    BY <1>2 DEF ReadHit, clientVars
  <2> QED
    BY <1>1, <2>2, <2>3 DEF Coherent, WindowsCoherent, ReadsLatest, WritePcs, Span
<1>3. CASE ReadFetch
  <2>1. PICK nx \in At + 1 .. End :
          \/ /\ RequestOK
             /\ read_cache' = [read_cache EXCEPT ![read_cache_next] =
                                 Overlay(NoData, FetchSpan(nx), image)]
          \/ read_cache' = [read_cache EXCEPT ![read_cache_next] = NoData]
    BY <1>3 DEF ReadFetch
  <2>2. ASSUME link = "up", NEW s \in Sector, s \in FetchSpan(nx) PROVE image[s] = acked[s]
    <3>1. s \in Span(call)
      BY <1>1, <2>2, FetchWithinCall
    <3>2. write_buffer[s] = Nil /\ writeback[s] = Nil
      BY <1>1, <3>1 DEF Coherent
    <3> QED
      BY <1>0, <1>1, <2>2, <3>2 DEF NothingLost, Visible, Expected
  <2>3. link = "up" => \A s \in Sector : Overlay(NoData, FetchSpan(nx), image)[s] \in {Nil, acked[s]}
    BY <2>2 DEF Overlay, NoData
  <2>4. \A w \in Window, s \in Sector : read_cache'[w][s] \in {Nil, acked[s]}
    <3>1. CASE RequestOK /\ read_cache' = [read_cache EXCEPT ![read_cache_next] =
                                             Overlay(NoData, FetchSpan(nx), image)]
      BY <1>0, <2>3, <3>1 DEF RequestOK, Coherent, WindowsCoherent, TypeOK
    <3>2. CASE read_cache' = [read_cache EXCEPT ![read_cache_next] = NoData]
      BY <1>0, <3>2 DEF NoData, Coherent, WindowsCoherent, TypeOK
    <3> QED
      BY <2>1, <3>1, <3>2
  <2>5. out' = out
    BY <1>3 DEF ReadFetch
  <2> QED
    BY <1>1, <2>4, <2>5 DEF Coherent, WindowsCoherent, ReadsLatest, WritePcs, Span
<1> QED
  BY <1>2, <1>3

\* An acknowledged write finds no window holding its sectors.
LEMMA ReturnCoherent == Shape /\ Coherent /\ Return => Coherent'
<1> SUFFICES ASSUME Shape, Coherent, Return PROVE Coherent'
  OBVIOUS
<1>1. /\ read_cache' = read_cache /\ pc = "return" /\ pc' = "idle" /\ out' = NoData
      /\ reply' = [op |-> call.op, rc |-> rc,
                   data |-> IF call.op = "read" /\ rc = 0 THEN out ELSE NoData]
  BY DEF Return, clientVars
<1>2. \A s \in Sector :
        acked'[s] = IF call.op = "write" /\ rc = 0 /\ s \in Span(call)
                    THEN call.stamp ELSE acked[s]
  BY DEF Return, Overlay, Fill
<1>3. WindowsCoherent'
  BY <1>1, <1>2 DEF Coherent, WindowsCoherent, OnSpan
<1>4. ReadsLatest'
  BY <1>1, <1>2 DEF Coherent, ReadsLatest, NoData
<1> QED
  BY <1>1, <1>3, <1>4 DEF Coherent, NoData, WritePcs

\* Shape, Safe and Coherent together are inductive without prefetch.
LEMMA CoherentInvariant == Prefetch = 1 => (Spec => [](Shape /\ Safe /\ Coherent))
<1> SUFFICES ASSUME Prefetch = 1 PROVE Spec => [](Shape /\ Safe /\ Coherent)
  OBVIOUS
<1>1. Shape /\ Safe /\ Coherent /\ [Next]_vars => Coherent'
  BY FrameCoherent, CallCoherent, ReadCoherent, ReturnCoherent DEF Next, Step, Closed
<1> QED
  BY <1>1, InitCoherent, SafeInvariant, PTL DEF Spec

\* Without prefetch no read window ever holds a superseded sector.
THEOREM WindowsAreCoherent == Prefetch = 1 => (Spec => []WindowsCoherent)
<1> SUFFICES ASSUME Prefetch = 1 PROVE Spec => []WindowsCoherent
  OBVIOUS
<1>1. Spec => [](Shape /\ Safe /\ Coherent)
  BY CoherentInvariant
<1> QED
  BY <1>1, PTL DEF Coherent

\* Without prefetch a successful read delivers the latest acknowledged writes.
THEOREM ReadsAreLatest == Prefetch = 1 => (Spec => []ReadsLatest)
<1> SUFFICES ASSUME Prefetch = 1 PROVE Spec => []ReadsLatest
  OBVIOUS
<1>1. Spec => [](Shape /\ Safe /\ Coherent)
  BY CoherentInvariant
<1> QED
  BY <1>1, PTL DEF Coherent

-----------------------------------------------------------------------------
(***************************************************************************)
(* Refinement of BlockDisk                                                 *)
(***************************************************************************)
\* What the buffer holds has been acknowledged or is of the write in progress: sending it is
\* never ahead of the disk the drive knows.
Pending ==
  link = "up" =>
    \A s \in Sector : write_buffer[s] # Nil =>
      \/ write_buffer[s] <= acked[s]
      \/ call.op = "write" /\ s \in Span(call) /\ write_buffer[s] = call.stamp

\* A read has delivered exactly the sectors it has passed.
Delivers ==
  /\ call.op # "read" => out = NoData
  /\ call.op = "read" =>
       \A s \in Sector : out[s] # Nil <=> s \in call.first .. call.first + cur - 1
  /\ pc = "return" /\ call.op = "read" /\ rc = 0 => cur = call.n

\* Outside the sectors a write has passed, the buffer is no newer than what was acknowledged.
LEMMA BufferAcked ==
  ASSUME Shape, Safe, link = "up", NEW s \in Sector, write_buffer[s] # Nil,
         ~(call.op = "write" /\ s \in call.first .. call.first + cur - 1)
  PROVE  write_buffer[s] <= acked[s]
<1> USE BlockCallsAssumption
<1>1. TypeOK /\ Ordered /\ NothingLost
  BY DEF Shape, Safe
<1>2. write_buffer[s] \in Int /\ writeback[s] \in Int /\ acked[s] \in Int
  BY <1>1 DEF TypeOK, Contents, Stamp, Nil
<1>3. Visible(s) = acked[s]
  BY <1>1 DEF NothingLost, Expected
<1>4. write_buffer[s] <= Visible(s)
  BY <1>1, <1>2 DEF Visible, Ordered
<1> QED
  BY <1>3, <1>4

\* What the heads of the three hooks have in common.
LEMMA CallBegins ==
  ASSUME ReadCall \/ WriteCall \/ FlushCall
  PROVE  /\ pc = "idle" /\ image' = image /\ link' = link /\ write_buffer' = write_buffer /\ acked' = acked
         /\ cur' = cur /\ out' = out /\ reply' = NoReply
         /\ call'.op \in Ops
         /\ call'.op = "read" => call'.first \in Nat /\ (pc' = "return" => rc' = -1)
<1>1. CASE ReadCall
  <2>1. PICK first \in 0 .. NbSectors, n \in 1 .. NbSectors :
          LET c == [op |-> "read", first |-> first, n |-> n, stamp |-> 0] IN
          /\ Begin(c)
          /\ pc' = "return" => rc' = -1
    BY <1>1 DEF ReadCall, Finish
  <2>2. call' = [op |-> "read", first |-> first, n |-> n, stamp |-> 0]
    BY <2>1 DEF Begin
  <2>3. call'.op = "read" /\ call'.first \in Nat
    BY <2>2
  <2> QED
    BY <2>1, <2>3 DEF Begin, Ops
<1>2. CASE WriteCall
  <2>1. PICK first \in 0 .. NbSectors, n \in 1 .. NbSectors :
          Begin([op |-> "write", first |-> first, n |-> n, stamp |-> stamp + 1])
    BY <1>2 DEF WriteCall
  <2>2. call'.op = "write"
    BY <2>1 DEF Begin
  <2> QED
    BY <2>1, <2>2 DEF Begin, Ops
<1>3. CASE FlushCall
  <2>1. Begin([op |-> "flush", first |-> 0, n |-> 0, stamp |-> 0])
    BY <1>3 DEF FlushCall
  <2>2. call'.op = "flush"
    BY <2>1 DEF Begin
  <2> QED
    BY <2>1, <2>2 DEF Begin, Ops
<1> QED
  BY <1>1, <1>2, <1>3

\* The steps before the answer keep it.
LEMMA PendingStep == Shape /\ Safe /\ Pending /\ Shape' /\ Safe' /\ [Next]_vars => Pending'
<1> USE BlockCallsAssumption, NetBlkAssumption
<1> SUFFICES ASSUME Shape, Safe, Pending, Shape', Safe', [Next]_vars, link' = "up",
                    NEW s \in Sector, write_buffer'[s] # Nil
             PROVE  \/ write_buffer'[s] <= acked'[s]
                    \/ call'.op = "write" /\ s \in Span(call') /\ write_buffer'[s] = call'.stamp
  BY DEF Pending, Span
<1>0. TypeOK /\ CallShape /\ BufferShape
  BY DEF Shape
<1>1. CASE ReadCall \/ WriteCall \/ FlushCall
  <2>1. pc = "idle" /\ link' = link /\ write_buffer' = write_buffer /\ acked' = acked
    BY <1>1, CallBegins
  <2>3. call.op = "none" /\ link = "up"
    BY <1>0, <2>1 DEF CallShape, NoCall
  <2>2. write_buffer[s] <= acked[s]
    BY <2>1, <2>3, BufferAcked
  <2> QED
    BY <2>1, <2>2
<1>2. CASE AppendRun
  <2>1. link = "up" /\ acked' = acked /\ call' = call /\ call.op = "write"
        /\ write_buffer' = Overlay(write_buffer, Span(call), Fill(call.stamp))
    BY <1>0, <1>2 DEF AppendRun, CallShape, WritePcs
  <2>2. write_buffer'[s] = IF s \in Span(call) THEN call.stamp ELSE write_buffer[s]
    BY <2>1 DEF Overlay, Fill
  <2> QED
    BY <2>1, <2>2 DEF Pending
<1>3. CASE Return
  <2>1. /\ link = "up" /\ write_buffer' = write_buffer /\ pc = "return"
        /\ acked'[s] = IF call.op = "write" /\ rc = 0 /\ s \in Span(call) THEN call.stamp ELSE acked[s]
    BY <1>3 DEF Return, clientVars, Overlay, Fill
  <2>2. CASE call.op = "write" /\ rc = 0 /\ s \in Span(call)
    <3>1. call.stamp = stamp /\ write_buffer[s] <= stamp
      BY <1>0, <2>1, <2>2 DEF CallShape, Safe, Ordered
    <3> QED
      BY <2>1, <2>2, <3>1
  <2>3. CASE ~(call.op = "write" /\ rc = 0 /\ s \in Span(call))
    <3>1. rc \in {0, -1} /\ call.first \in Nat /\ (call.op = "write" => cur = IF rc = 0 THEN call.n ELSE 0)
      BY <1>0, <2>1 DEF TypeOK, Call, Safe, Progress
    <3>2. ~(call.op = "write" /\ s \in call.first .. call.first + cur - 1)
      BY <2>3, <3>1 DEF Span
    <3>3. write_buffer[s] <= acked[s]
      BY <2>1, <3>2, BufferAcked
    <3> QED
      BY <2>1, <2>3, <3>3
  <2> QED
    BY <2>2, <2>3
<1>4. CASE BufferOut
  BY <1>0, <1>4, BufferOutPoint
<1>5. CASE link = "up" /\ write_buffer' = write_buffer /\ acked' = acked /\ call' = call
  BY <1>5 DEF Pending
<1>6. \/ ReadCall \/ WriteCall \/ FlushCall \/ AppendRun \/ Return \/ BufferOut
      \/ link = "up" /\ write_buffer' = write_buffer /\ acked' = acked /\ call' = call
  BY DEF Next, Step, Closed, vars, callVars, clientVars, DrainBuffer, AppendFlush, FullFlush, DrainEnd,
     ReadHit, ReadFetch, ReadDone, Store, StoreFull, StoreDone, FlushRequest, Delete, DeleteRequest,
     DrainRun, WriteDirect, BufferOutFails, WriteFails, WriteOK, RequestOK, RequestFails
<1> QED
  BY <1>1, <1>2, <1>3, <1>4, <1>5, <1>6

\* A hit delivers the next sectors of the read, all of them known.
LEMMA DeliversStep == Shape /\ Delivers /\ [Next]_vars => Delivers'
<1> USE BlockCallsAssumption, NetBlkAssumption
<1> SUFFICES ASSUME Shape, Delivers, [Next]_vars PROVE Delivers'
  OBVIOUS
<1>0. TypeOK /\ CallShape
  BY DEF Shape
<1>1. CASE ReadHit
  <2>1. PICK w \in Window, k \in 1 .. call.n - cur :
          /\ \A s \in At .. At + k - 1 : read_cache[w][s] # Nil
          /\ out' = Overlay(out, At .. At + k - 1, read_cache[w])
          /\ cur' = cur + k
    BY <1>1 DEF ReadHit
  <2>2. /\ call' = call /\ pc' = "read" /\ call.op = "read" /\ call.first \in Nat /\ call.n \in Nat
        /\ cur \in Nat /\ k \in Nat
    BY <1>0, <1>1, <2>1 DEF ReadHit, CallShape, TypeOK, Call
  <2>3. \A s \in Sector : out'[s] # Nil <=> s \in call.first .. call.first + (cur + k) - 1
    <3> SUFFICES ASSUME NEW s \in Sector
                 PROVE  out'[s] # Nil <=> s \in call.first .. call.first + (cur + k) - 1
      OBVIOUS
    <3>1. out'[s] = IF s \in At .. At + k - 1 THEN read_cache[w][s] ELSE out[s]
      BY <2>1 DEF Overlay
    <3>2. s \in call.first .. call.first + (cur + k) - 1
            <=> s \in call.first .. call.first + cur - 1 \/ s \in At .. At + k - 1
      BY <2>2 DEF At, Sector
    <3>3. out[s] # Nil <=> s \in call.first .. call.first + cur - 1
      BY <2>2 DEF Delivers
    <3>4. s \in At .. At + k - 1 => read_cache[w][s] # Nil
      BY <2>1
    <3> QED
      BY <3>1, <3>2, <3>3, <3>4
  <2> QED
    BY <2>1, <2>2, <2>3 DEF Delivers
<1>2. CASE ReadCall \/ WriteCall \/ FlushCall
  <2>1. /\ out' = out /\ cur' = cur /\ pc = "idle"
        /\ call'.op = "read" => call'.first \in Nat /\ (pc' = "return" => rc' = -1)
    BY <1>2, CallBegins
  <2>2. cur = 0 /\ out = NoData
    BY <1>0, <2>1 DEF CallShape, NoCall, Delivers
  <2>3. call'.op = "read" => call'.first \in Nat
    BY <2>1
  <2>4. \A s \in Sector : NoData[s] = Nil
    BY DEF NoData
  <2>5. ASSUME call'.op = "read", NEW s \in Sector PROVE ~(s \in call'.first .. call'.first + 0 - 1)
    <3> DEFINE f == call'.first
    <3>1. f \in Nat
      BY <2>3, <2>5
    <3> HIDE DEF f
    <3>2. ~(s \in f .. f + 0 - 1)
      BY <3>1 DEF Sector
    <3> QED
      BY <3>2 DEF f
  <2> QED
    BY <2>1, <2>2, <2>4, <2>5 DEF Delivers
<1>3. CASE Return
  BY <1>3 DEF Return, NoCall, Delivers
<1>4. CASE ReadDone
  BY <1>4 DEF ReadDone, Finish, Delivers
<1>5. CASE out' = out /\ call' = call /\ call.op # "read"
  BY <1>5 DEF Delivers
<1>6. CASE out' = out /\ call' = call /\ cur' = cur /\ (pc' = "return" /\ rc' = 0 => pc = "return" /\ rc = 0)
  BY <1>6 DEF Delivers
<1>7. CASE ReadFetch \/ DrainBuffer \/ DrainRun \/ DrainEnd
  <2>1. out' = out /\ call' = call /\ cur' = cur
    BY <1>7 DEF ReadFetch, DrainBuffer, DrainRun, DrainEnd
  <2>2. call.op = "read" /\ pc' = "return" => rc' = -1
    BY <1>0, <1>7 DEF ReadFetch, DrainBuffer, DrainRun, DrainEnd, DrainFails, DrainSucceeds, Finish, DrainPcs,
       CallShape, WritePcs, NoCall
  <2> QED
    BY <2>1, <2>2 DEF Delivers
<1>8. CASE Store \/ StoreFull \/ StoreDone \/ WriteDirect \/ AppendFlush \/ AppendRun \/ FullFlush \/ FlushRequest
           \/ Delete \/ DeleteRequest
  <2>1. out' = out /\ call' = call
    BY <1>8 DEF Store, StoreFull, StoreDone, WriteDirect, AppendFlush, AppendRun, FullFlush, FlushRequest,
       Delete, DeleteRequest, callVars
  <2>2. call.op # "read"
    BY <1>0, <1>8 DEF Store, StoreFull, StoreDone, WriteDirect, AppendFlush, AppendRun, FullFlush, FlushRequest,
       Delete, DeleteRequest, CallShape, WritePcs, NoCall
  <2> QED
    BY <1>5, <2>1, <2>2
<1>9. CASE UNCHANGED vars
  BY <1>6, <1>9 DEF vars, callVars
<1> QED
  BY <1>1, <1>2, <1>3, <1>4, <1>7, <1>8, <1>9 DEF Next, Step, Closed
\* The invariant of the refinement holds of a device just opened.
LEMMA InitPending == Init => Pending /\ Delivers
<1> SUFFICES ASSUME Init PROVE Pending /\ Delivers
  OBVIOUS
<1>1. \A s \in Sector : write_buffer[s] = Nil
  BY DEF Init, NoData
<1>2. call.op = "none"
  BY DEF Init, NoCall
<1> QED
  BY <1>1, <1>2 DEF Init, Pending, Delivers

\* Without prefetch, all of the invariants hold together.
LEMMA RefinementInvariant ==
  Prefetch = 1 => (Spec => [](Shape /\ Safe /\ Coherent /\ Pending /\ Delivers))
<1> SUFFICES ASSUME Prefetch = 1
             PROVE  Spec => [](Shape /\ Safe /\ Coherent /\ Pending /\ Delivers)
  OBVIOUS
<1>1. Spec => [](Shape /\ Safe /\ Coherent)
  BY CoherentInvariant
<1> QED
  BY <1>1, InitPending, PendingStep, DeliversStep, PTL DEF Spec

\* The calls of the abstract disk are those of the device.
LEMMA SameTerms ==
  /\ Disk!Sector = Sector /\ Disk!Stamp = Stamp /\ Disk!Nil = Nil
  /\ Disk!Call = Call /\ Disk!NoCall = NoCall /\ Disk!Span(call) = Span(call)
  /\ Disk!NoData = NoData /\ Disk!NoReply = NoReply
<1>1. Disk!Sector = Sector /\ Disk!Stamp = Stamp /\ Disk!Nil = Nil /\ Disk!Ops = Ops
  BY DEF Disk!Sector, Sector, Disk!Stamp, Stamp, Disk!Nil, Nil, Disk!Ops, Ops
<1>2. Disk!Call = Call
  BY <1>1 DEF Disk!Call, Call
<1>3. Disk!NoData = NoData
  BY <1>1 DEF Disk!NoData, NoData
<1>4. Disk!NoReply = NoReply
  BY <1>3 DEF Disk!NoReply, NoReply
<1>5. Disk!Span(call) = Span(call) /\ Disk!NoCall = NoCall
  BY DEF Disk!Span, Span, Disk!NoCall, NoCall
<1> QED
  BY <1>1, <1>2, <1>3, <1>4, <1>5

\* A device just opened shows the initial plain disk.
LEMMA DiskInit == Init => Disk!Init
BY SameTerms DEF Init, Disk!Init

\* A request that changes the image is a commit: each sector gets contents between what the
\* image held and what was acknowledged, or what the write in progress brings.
LEMMA ImageCommits ==
  ASSUME Shape, Safe, Pending, [Next]_vars, image' # image, NEW s \in Sector
  PROVE  \/ image'[s] = image[s]
         \/ image[s] <= image'[s] /\ image'[s] <= acked[s]
         \/ call.op = "write" /\ s \in Span(call) /\ image'[s] = call.stamp
<1> USE BlockCallsAssumption, NetBlkAssumption
<1>0. /\ TypeOK /\ CallShape /\ BufferShape /\ TableShape
      /\ Progress /\ Ordered /\ NothingLost /\ Flushed
  BY DEF Shape, Safe
<1>1. /\ image[s] \in Int /\ write_buffer[s] \in Int /\ writeback[s] \in Int /\ acked[s] \in Int
      /\ write_buffer[s] # Nil => image[s] <= write_buffer[s]
      /\ writeback[s] # Nil => image[s] <= writeback[s]
  BY <1>0 DEF TypeOK, Contents, Stamp, Nil, Ordered
<1>2. CASE BufferOut \/ BufferOutFails
  <2>1. \/ image'[s] = image[s]
        \/ link = "up" /\ write_buffer[s] # Nil /\ image'[s] = write_buffer[s]
    <3>1. CASE BufferOut
      BY <1>0, <3>1, BufferOutPoint
    <3>2. CASE BufferOutFails
      BY <1>0, <3>2, BufferOutFailsPoint
    <3> QED
      BY <1>2, <3>1, <3>2
  <2>2. link = "up" /\ write_buffer[s] # Nil =>
          \/ write_buffer[s] <= acked[s]
          \/ call.op = "write" /\ s \in Span(call) /\ write_buffer[s] = call.stamp
    BY DEF Pending
  <2> QED
    BY <1>1, <2>1, <2>2
<1>3. CASE DrainRun
  <2>1. PICK first \in Sector, n \in 1 .. Lesser(BufferSectors, NbSectors) :
          /\ DirtyRun(first, n)
          /\ WriteOK(first, n, writeback) \/ WriteFails(first, n, writeback)
    BY <1>3 DEF DrainRun
  <2>2. first \in Nat /\ n \in Nat /\ (s \in first .. first + n - 1 => writeback[s] # Nil)
    BY <2>1 DEF Sector, DirtyRun, Lesser
  <2>3. \/ image'[s] = image[s]
        \/ link = "up" /\ s \in first .. first + n - 1 /\ image'[s] = writeback[s]
    <3>1. CASE WriteOK(first, n, writeback)
      BY <3>1, WriteOKPoint
    <3>2. CASE WriteFails(first, n, writeback)
      BY <2>2, <3>2, WriteFailsPoint
    <3> QED
      BY <2>1, <3>1, <3>2
  <2>4. link = "up" /\ writeback[s] # Nil => writeback[s] = Expected(s)
    BY <1>0 DEF NothingLost, Visible
  <2>5. Expected(s) = acked[s] \/ (call.op = "write" /\ s \in Span(call) /\ Expected(s) = call.stamp)
    <3>1. call.first \in Nat /\ call.n \in Nat /\ cur \in Nat /\ cur <= call.n /\ s \in Nat
      BY <1>0 DEF TypeOK, Call, CallShape, Sector
    <3> QED
      BY <3>1 DEF Expected, Span
  <2> QED
    BY <1>1, <2>2, <2>3, <2>4, <2>5
<1>4. CASE WriteDirect
  <2>1. call.op = "write" /\ call.first \in Nat /\ call.n \in Nat
    BY <1>0, <1>4 DEF WriteDirect, CallShape, WritePcs, TypeOK, Call
  <2>2. image'[s] = image[s] \/ (s \in Span(call) /\ image'[s] = Fill(call.stamp)[s])
    <3>1. CASE WriteOK(call.first, call.n, Fill(call.stamp))
      BY <3>1, WriteOKPoint DEF Span
    <3>2. CASE WriteFails(call.first, call.n, Fill(call.stamp))
      BY <2>1, <3>2, WriteFailsPoint DEF Span
    <3> QED
      BY <1>4, <3>1, <3>2 DEF WriteDirect
  <2> QED
    BY <2>1, <2>2 DEF Fill
<1>5. BufferOut \/ BufferOutFails \/ DrainRun \/ WriteDirect
  BY DEF Next, Step, Closed, vars, callVars, DrainBuffer, AppendFlush, FullFlush, DrainEnd,
     ReadCall, WriteCall, FlushCall, Begin, ReadHit, ReadFetch, ReadDone, Store, StoreFull,
     StoreDone, AppendRun, FlushRequest, Delete, DeleteRequest, Return
<1> QED
  BY <1>2, <1>3, <1>4, <1>5

\* The heads of the hooks are the abstract disk's calls.
LEMMA HeadsBegin ==
  ASSUME Shape, Shape', ReadCall \/ WriteCall \/ FlushCall
  PROVE  Disk!Begin
<1>1. pc = "idle" /\ image' = image /\ acked' = acked /\ reply' = NoReply /\ call'.op \in Ops
  BY CallBegins
<1>2. call = NoCall /\ call' \in Call
  BY <1>1 DEF Shape, CallShape, TypeOK
<1>3. call'.op # "none"
  BY <1>1 DEF Ops
<1> QED
  BY <1>1, <1>2, <1>3, SameTerms DEF Disk!Begin

\* What a read answered with success hands over is what was acknowledged last.
LEMMA ReadDelivers ==
  ASSUME Shape, Coherent, Delivers, pc = "return", call.op = "read", rc = 0
  PROVE  /\ out = [s \in Sector |-> IF s \in Span(call) THEN acked[s] ELSE Nil]
         /\ Span(call) \subseteq Sector
<1> USE BlockCallsAssumption
<1>1. cur = call.n /\ out \in [Sector -> Stamp \cup {Nil}]
  BY DEF Delivers, Shape, TypeOK, Contents
<1>2. \A s \in Sector : out[s] # Nil <=> s \in Span(call)
  BY <1>1 DEF Delivers, Span
<1>3. \A s \in Sector : out[s] \in {Nil, acked[s]}
  BY DEF Coherent
<1>4. \A s \in Sector : out[s] = IF s \in Span(call) THEN acked[s] ELSE Nil
  BY <1>2, <1>3
<1>5. call.first \in Nat /\ call.n \in Nat /\ call.first + call.n <= NbSectors
  BY DEF Shape, CallShape, TypeOK, Call
<1>6. Span(call) \subseteq Sector
  BY <1>5 DEF Span, Sector
<1> QED
  BY <1>1, <1>4, <1>6

\* The answer of a hook is an answer of the abstract disk.
LEMMA ReturnAnswers ==
  ASSUME Shape, Safe, Coherent, Delivers, Return
  PROVE  Disk!ReadOK \/ Disk!WriteOK \/ Disk!FlushOK \/ Disk!Fail
<1> USE BlockCallsAssumption
<1>1. /\ pc = "return" /\ image' = image /\ call' = NoCall
      /\ reply' = [op |-> call.op, rc |-> rc,
                   data |-> IF call.op = "read" /\ rc = 0 THEN out ELSE NoData]
      /\ acked' = IF call.op = "write" /\ rc = 0
                  THEN Overlay(acked, Span(call), Fill(call.stamp)) ELSE acked
  BY DEF Return
<1>2. call.op \in Ops /\ rc \in {0, -1} /\ acked \in [Sector -> Stamp]
  BY <1>1 DEF Shape, CallShape, TypeOK, Call, Ops
<1>3. CASE rc = -1
  <2>1. Disk!Answer(-1, NoData)
    BY <1>1, <1>3, SameTerms DEF Disk!Answer
  <2>2. acked' = acked /\ call.op # "none"
    BY <1>1, <1>2, <1>3 DEF Ops
  <2> QED
    BY <1>2, <2>1, <2>2, SameTerms DEF Disk!Fail
<1>4. CASE rc = 0 /\ call.op = "read"
  <2>1. /\ out = [s \in Sector |-> IF s \in Span(call) THEN acked[s] ELSE Nil]
        /\ Span(call) \subseteq Sector
    BY <1>1, <1>4, ReadDelivers
  <2>2. Disk!Answer(0, out)
    BY <1>1, <1>4, SameTerms DEF Disk!Answer
  <2>3. acked' = acked
    BY <1>1, <1>4
  <2> QED
    BY <1>4, <2>1, <2>2, <2>3, SameTerms DEF Disk!ReadOK
<1>5. CASE rc = 0 /\ call.op = "write"
  <2>1. call.first \in Nat /\ call.n \in Nat /\ call.first + call.n <= NbSectors
    BY <1>1, <1>5 DEF Shape, CallShape, TypeOK, Call
  <2>2. Span(call) \subseteq Sector
    BY <2>1 DEF Span, Sector
  <2>3. acked' = [s \in Sector |-> IF s \in Span(call) THEN call.stamp ELSE acked[s]]
    BY <1>1, <1>5 DEF Overlay, Fill
  <2>4. Disk!Answer(0, NoData)
    BY <1>1, <1>5, SameTerms DEF Disk!Answer
  <2> QED
    BY <1>5, <2>2, <2>3, <2>4, SameTerms DEF Disk!WriteOK
<1>6. CASE rc = 0 /\ call.op = "flush"
  <2>1. image = acked /\ acked' = acked
    BY <1>1, <1>6 DEF Safe, Flushed
  <2>2. Disk!Answer(0, NoData)
    BY <1>1, <1>6, SameTerms DEF Disk!Answer
  <2> QED
    BY <1>6, <2>1, <2>2, SameTerms DEF Disk!FlushOK
<1> QED
  BY <1>2, <1>3, <1>4, <1>5, <1>6 DEF Ops

\* Every step is a step of the plain disk, or leaves what it shows alone.
LEMMA DiskNext ==
  Shape /\ Safe /\ Coherent /\ Pending /\ Delivers /\ Shape' /\ [Next]_vars
    => [Disk!Next]_(Disk!vars)
<1> USE BlockCallsAssumption
<1> SUFFICES ASSUME Shape, Safe, Coherent, Pending, Delivers, Shape', [Next]_vars
             PROVE  [Disk!Next]_(Disk!vars)
  OBVIOUS
<1>1. CASE ReadCall \/ WriteCall \/ FlushCall
  BY <1>1, HeadsBegin DEF Disk!Next
<1>2. CASE Return
  BY <1>2, ReturnAnswers DEF Disk!Next
<1>3. CASE image' # image /\ UNCHANGED <<acked, call, reply>>
  <2>1. image' \in [Sector -> Stamp]
    BY DEF Shape, TypeOK
  <2>2. \A s \in Sector :
          \/ image'[s] \in {image[s]} \cup image[s] .. acked[s]
          \/ call.op = "write" /\ s \in Span(call) /\ image'[s] = call.stamp
    <3> TAKE s \in Sector
    <3>1. image[s] \in Int /\ acked[s] \in Int /\ image'[s] \in Int
      BY <2>1 DEF Shape, TypeOK, Stamp
    <3>2. \/ image'[s] = image[s]
          \/ image[s] <= image'[s] /\ image'[s] <= acked[s]
          \/ call.op = "write" /\ s \in Span(call) /\ image'[s] = call.stamp
      BY <1>3, ImageCommits
    <3> QED
      BY <3>1, <3>2
  <2>3. Disk!Commit
    BY <1>3, <2>1, <2>2, SameTerms DEF Disk!Commit
  <2> QED
    BY <2>3 DEF Disk!Next
<1>4. CASE UNCHANGED <<acked, image, call, reply>>
  BY <1>4 DEF Disk!vars
<1>5. \/ ReadCall \/ WriteCall \/ FlushCall \/ Return
      \/ UNCHANGED <<acked, call, reply>>
  BY DEF Next, Step, Closed, vars, callVars, DrainBuffer, DrainRun, DrainEnd, ReadHit, ReadFetch,
     ReadDone, Store, StoreFull, StoreDone, WriteDirect, AppendFlush, AppendRun, FullFlush,
     FlushRequest, Delete, DeleteRequest
<1> QED
  BY <1>1, <1>2, <1>3, <1>4, <1>5

\* Without prefetch the windows, the buffer and the table together are a plain disk with a
\* write-behind image: nothing of the caching shows in an answer, and what a flush answered
\* with success promises is in the image.
THEOREM CachesImplementDisk == Prefetch = 1 => (Spec => RefinesBlockDisk)
<1> SUFFICES ASSUME Prefetch = 1 PROVE Spec => RefinesBlockDisk
  OBVIOUS
<1>1. Spec => [](Shape /\ Safe /\ Coherent /\ Pending /\ Delivers)
  BY RefinementInvariant
<1> QED
  BY <1>1, DiskInit, DiskNext, PTL DEF Spec, RefinesBlockDisk, Disk!Spec
==============================================================================
