---------------------------- MODULE AtapiCd_proofs ---------------------------
(***************************************************************************)
(* Proofs about the CD-ROM drive of an IDE channel: for every disc, sector *)
(* size, byte count limit and reply, and with errors, resets and changes   *)
(* of the disc at any time, the guest is given what it was told of.        *)
(***************************************************************************)
EXTENDS AtapiCd, TLAPS

(***************************************************************************)
(* The inductive invariant.                                                *)
(***************************************************************************)
\* A part of a reply is ready, whether the guest has seen so or not.
Moving == guest.phase = "data" \/ (guest.phase = "wait" /\ "DRQ" \in status)

\* What is ready and what is left of the reply fit together.  A read goes on with the sector
\* after the one held; of any other reply the announced part is started at once.
Flow ==
  /\ Left >= 2 /\ Left % 2 = 0 /\ data_end = io_buffer_index /\ io_buffer_index % 2 = 0
  /\ io_buffer_index <= SectorBytes
  /\ packet_transfer_size >= elementary_transfer_size
  /\ packet_transfer_size % 2 = 0 /\ elementary_transfer_size % 2 = 0
  /\ limit >= 2
  /\ guest.phase = "data" => guest.expect = Left + elementary_transfer_size
  /\ guest.phase = "wait" => limit = Left + elementary_transfer_size
  /\ \/ /\ guest.op = "read"
        /\ lba = held + 1 /\ held >= 0 /\ cd_sector_size = SectorBytes
        /\ held * SectorBytes + data_index = guest.first * SectorBytes + guest.got
        /\ guest.bytes < IntLimit => guest.got + Left + packet_transfer_size = guest.bytes
     \/ /\ guest.op = "other"
        /\ lba = -1 /\ elementary_transfer_size = 0
        /\ io_buffer_index + packet_transfer_size <= SectorBytes

CdInv ==
  /\ TypeOK
  /\ guest.told = 0 => cdrom_changed = 1
  /\ guest.phase = "wait" => irq = 1
  /\ guest.phase = "data" => "DRQ" \in status
  /\ guest.phase = "packet" => limit >= 2
  /\ Moving => Flow
  /\ ReadsComplete

-----------------------------------------------------------------------------
(***************************************************************************)
(* Arithmetic.                                                             *)
(***************************************************************************)
\* The assumption on the constants, as the proofs use it.
LEMMA Params ==
  /\ DiscSectors \in Nat /\ SectorBytes \in Nat /\ SectorBytes >= 2 /\ SectorBytes % 2 = 0
  /\ RawBytes \in Nat /\ SectorBytes < RawBytes /\ PacketBytes \in Nat /\ PacketBytes <= SectorBytes
  /\ ByteLimit \in Nat /\ ByteLimit > 2 /\ IntLimit \in Nat /\ IntLimit > SectorBytes
  /\ MaxCommands \in Nat
BY AtapiAssumption

\* A product with an even number is even.
LEMMA EvenProduct ==
  ASSUME NEW n \in Int, NEW b \in Int, b % 2 = 0
  PROVE  n * b \in Int /\ (n * b) % 2 = 0
<1> DEFINE h == b \div 2
<1>1. h \in Int /\ b = 2 * h
  OBVIOUS
<1> HIDE DEF h
<1>2. n * b = 2 * (n * h) /\ n * h \in Int
  BY <1>1
<1> DEFINE t == n * h
<1>3. t \in Int /\ n * b = 2 * t
  BY <1>2
<1> HIDE DEF t
<1>4. (2 * t) % 2 = 0
  BY <1>3
<1> QED
  BY <1>3, <1>4

\* Sums and differences of even numbers are even.
LEMMA EvenSums ==
  ASSUME NEW a \in Int, NEW b \in Int, a % 2 = 0, b % 2 = 0
  PROVE  (a + b) % 2 = 0 /\ (a - b) % 2 = 0
OBVIOUS

\* A product kept in an int: in range, exact when it fits, and as even as it was.
LEMMA WrapType ==
  ASSUME NEW x \in Int
  PROVE  /\ Wrap(x) \in -IntLimit .. IntLimit - 1
         /\ x \in 0 .. IntLimit - 1 => Wrap(x) = x
         /\ x % 2 = 0 => Wrap(x) % 2 = 0
<1> DEFINE d == 2 * IntLimit
           y == x + IntLimit
           q == y \div d
           m == y % d
<1>1. IntLimit \in Nat \ {0} /\ d \in Nat \ {0} /\ y \in Int
  BY Params
<1>2. Wrap(x) = m - IntLimit
  BY DEF Wrap
<1>3. q \in Int /\ m \in 0 .. d - 1 /\ y = d * q + m
  <2> HIDE DEF d, y
  <2> QED
    BY <1>1
<1>4. x \in 0 .. IntLimit - 1 => m = y
  BY <1>1
<1>5. x % 2 = 0 => (m - IntLimit) % 2 = 0
  <2> DEFINE t == IntLimit * q
  <2>1. d * q = 2 * t /\ t \in Int
    BY <1>1, <1>3
  <2>2. m - IntLimit = x - 2 * t
    <3> HIDE DEF t, q, m
    <3> QED
      BY <1>1, <1>3, <2>1
  <2> HIDE DEF t
  <2>3. x % 2 = 0 => (x - 2 * t) % 2 = 0
    BY <2>1
  <2> QED
    BY <2>2, <2>3
<1> HIDE DEF m
<1> QED
  BY <1>1, <1>2, <1>3, <1>4, <1>5

-----------------------------------------------------------------------------
(***************************************************************************)
(* ide_atapi_cmd_reply_end.                                                *)
(***************************************************************************)
ReplySet == [left : Int, part : Nat, index : Nat, next : Int, size : Nat, sector : Int]

\* The reply r has ended.
Ended(r) ==
  /\ data_index' = 0 /\ data_end' = 0 /\ end_transfer_func' = "stop"
  /\ status' = {"DRDY", "DSC"} /\ reason' = "io_cd" /\ irq' = 1 /\ limit' = limit
  /\ packet_transfer_size' = r.left /\ elementary_transfer_size' = r.part
  /\ io_buffer_index' = r.index /\ lba' = r.next /\ cd_sector_size' = r.size /\ held' = r.sector

\* size bytes of r are ready, of the part that is being moved.
Ready(r, part, size) ==
  /\ data_index' = r.index /\ data_end' = r.index + size /\ end_transfer_func' = "reply"
  /\ status' = {"DRDY", "DSC", "DRQ"}
  /\ packet_transfer_size' = r.left - size /\ elementary_transfer_size' = part - size
  /\ io_buffer_index' = r.index + size /\ lba' = r.next /\ cd_sector_size' = r.size /\ held' = r.sector

\* What the two lines of Sent and Keep come to.
LEMMA KeepSent ==
  ASSUME NEW r \in ReplySet, NEW size \in Int, NEW part \in Int, Keep(Sent([r EXCEPT !.part = part], size))
  PROVE  /\ packet_transfer_size' = r.left - size /\ elementary_transfer_size' = part - size
         /\ io_buffer_index' = r.index + size /\ lba' = r.next /\ cd_sector_size' = r.size /\ held' = r.sector
BY DEF Keep, Sent, ReplySet

\* The announced part is even, not empty and no more than is left.
LEMMA ChunkType ==
  ASSUME NEW r \in ReplySet, r.left > 0, r.left % 2 = 0, limit \in 2 .. ByteLimit
  PROVE  Chunk(r) \in 2 .. r.left /\ Chunk(r) % 2 = 0 /\ Chunk(r) \in 2 .. ByteLimit
<1> DEFINE most == IF limit = ByteLimit THEN limit - 1 ELSE limit
<1>1. most \in 2 .. ByteLimit /\ r.left \in Int
  BY Params DEF ReplySet
<1>2. Chunk(r) = IF r.left > most THEN most - (most % 2) ELSE r.left
  BY DEF Chunk
<1> HIDE DEF most
<1>3. most - (most % 2) \in 2 .. most /\ (most - (most % 2)) % 2 = 0
  BY <1>1, Params
<1> QED
  BY <1>1, <1>2, <1>3, Params

\* ide_atapi_cmd_reply_end once a sector is there: the reply ends, or a part of it that is even
\* and not empty is ready, announced anew when the last one is used up.
LEMMA GoEffect ==
  ASSUME NEW r \in ReplySet, r.left % 2 = 0, r.part % 2 = 0, r.index % 2 = 0,
         r.left > 0 => r.part <= r.left /\ limit \in 2 .. ByteLimit,
         r.next # -1 => r.index < r.size /\ r.size % 2 = 0,
         r.next = -1 => r.part = 0, Go(r)
  PROVE  \/ r.left <= 0 /\ Ended(r)
         \/ /\ r.left > 0
            /\ \E part \in 2 .. r.left : \E size \in 2 .. part :
                 /\ part % 2 = 0 /\ size % 2 = 0 /\ Ready(r, part, size)
                 /\ r.next # -1 => size <= r.size - r.index
                 /\ r.next = -1 => size = part
                 /\ \/ r.part > 0 /\ part = r.part /\ limit' = limit /\ irq' = irq /\ reason' = reason
                    \/ r.part = 0 /\ part = limit' /\ limit' \in 2 .. ByteLimit /\ irq' = 1 /\ reason' = "io"
<1>1. r.left \in Int /\ r.part \in Nat /\ r.index \in Nat /\ r.next \in Int /\ r.size \in Nat /\ r.sector \in Int
  BY DEF ReplySet
<1>2. CASE Finished(r)
  BY <1>2 DEF Finished, Stop, Keep, Ended
<1>3. CASE Continued(r)
  <2> DEFINE size == Lesser(r.size - r.index, r.part)
  <2>1. /\ r.left > 0 /\ r.part > 0 /\ r.next # -1
        /\ Start(r.index, size, "reply") /\ Keep(Sent(r, size))
        /\ status' = {"DRDY", "DSC", "DRQ"} /\ reason' = reason /\ limit' = limit /\ irq' = irq
    BY <1>1, <1>3 DEF Continued
  <2>2. size \in 2 .. r.part /\ size % 2 = 0 /\ size <= r.size - r.index
    BY <1>1, <2>1 DEF Lesser
  <2>3. r.part \in 2 .. r.left
    BY <1>1, <2>1
  <2> HIDE DEF size
  <2>4. r = [r EXCEPT !.part = r.part]
    BY DEF ReplySet
  <2>5. Keep(Sent([r EXCEPT !.part = r.part], size))
    BY <2>1, <2>4
  <2>6. size \in Int
    BY <1>1, <2>2
  <2>7. Ready(r, r.part, size)
    BY <1>1, <2>1, <2>5, <2>6, KeepSent DEF Start, Ready
  <2> QED
    BY <1>1, <2>1, <2>2, <2>3, <2>7
<1>4. CASE Announced(r)
  <2> DEFINE c == Chunk(r)
             size == IF r.next # -1 THEN Lesser(c, r.size - r.index) ELSE c
  <2>1. /\ r.left > 0 /\ r.part = 0 /\ limit' = c
        /\ Start(r.index, size, "reply") /\ Keep(Sent([r EXCEPT !.part = c], size))
        /\ status' = {"DRDY", "DSC", "DRQ"} /\ reason' = "io" /\ irq' = 1
    BY <1>1, <1>4 DEF Announced
  <2>2. c \in 2 .. r.left /\ c % 2 = 0 /\ c \in 2 .. ByteLimit
    BY <2>1, ChunkType
  <2> HIDE DEF c
  <2>3. size \in 2 .. c /\ size % 2 = 0 /\ (r.next # -1 => size <= r.size - r.index) /\ (r.next = -1 => size = c)
    BY <1>1, <2>2 DEF Lesser
  <2> HIDE DEF size
  <2>4. size \in Int /\ c \in Int
    BY <1>1, <2>2, <2>3
  <2>5. Ready(r, c, size)
    BY <2>1, <2>4, KeepSent DEF Start, Ready
  <2> QED
    BY <2>1, <2>2, <2>3, <2>5
<1> QED
  BY <1>2, <1>3, <1>4 DEF Go

\* The registers and counters of the drive have their types.
DriveOK ==
  /\ status \subseteq {"BSY", "DRDY", "DSC", "DRQ", "ERR"}
  /\ reason \in {"none", "cd", "io", "io_cd"}
  /\ limit \in 0 .. ByteLimit
  /\ irq \in {0, 1}
  /\ sense_key \in Senses /\ cdrom_changed \in {0, 1}
  /\ packet_transfer_size \in -IntLimit .. IntLimit - 1
  /\ elementary_transfer_size \in 0 .. ByteLimit
  /\ io_buffer_index \in 0 .. RawBytes
  /\ lba \in Int /\ cd_sector_size \in {0, SectorBytes, RawBytes}
  /\ data_index \in 0 .. data_end /\ data_end \in 0 .. SectorBytes
  /\ end_transfer_func \in {"stop", "packet", "reply"}
  /\ held \in -1 .. DiscSectors - 1

\* A reply that is kept is one the drive can have.
Fits(r) ==
  /\ r.left \in -IntLimit .. IntLimit - 1 /\ r.part \in 0 .. ByteLimit /\ r.index \in 0 .. RawBytes
  /\ r.size \in {0, SectorBytes, RawBytes} /\ r.sector \in -1 .. DiscSectors - 1

\* The end of a reply keeps the types.
LEMMA EndedType ==
  ASSUME DriveOK, NEW r \in ReplySet, Fits(r), Ended(r), sense_key' \in Senses, cdrom_changed' \in {0, 1}
  PROVE  DriveOK'
BY Params DEF DriveOK, Fits, Ended, ReplySet

\* A ready part keeps the types.
LEMMA ReadyType ==
  ASSUME DriveOK, NEW r \in ReplySet, Fits(r), NEW part \in 2 .. r.left, NEW size \in 2 .. part,
         Ready(r, part, size), part <= ByteLimit, r.index + size <= SectorBytes,
         irq' \in {0, 1}, limit' \in 0 .. ByteLimit, reason' \in {"none", "cd", "io", "io_cd"},
         sense_key' \in Senses, cdrom_changed' \in {0, 1}
  PROVE  DriveOK'
<1>1. /\ r.left \in Int /\ r.index \in Nat /\ r.next \in Int
  BY DEF ReplySet
<1>2. /\ r.left - size \in -IntLimit .. IntLimit - 1 /\ part - size \in 0 .. ByteLimit
      /\ r.index + size \in 0 .. RawBytes /\ r.index \in 0 .. r.index + size /\ r.index + size \in 0 .. SectorBytes
  BY <1>1, Params DEF Fits
<1> QED
  BY <1>1, <1>2 DEF DriveOK, Fits, Ready

\* A sector could not be read.
Failed(r) ==
  /\ Stop
  /\ status' = {"DRDY", "ERR"} /\ reason' = "io_cd" /\ irq' = 1
  /\ sense_key' = "illegal"
  /\ Keep(r)
  /\ UNCHANGED <<limit, cdrom_changed>>

\* A failed read keeps the types.
LEMMA FailedType ==
  ASSUME DriveOK, NEW r \in ReplySet, Fits(r), Failed(r)
  PROVE  DriveOK'
BY Params DEF DriveOK, Fits, Failed, ReplySet, Stop, Keep, Senses

\* More of the read r is ready: the bytes of the disc it has come to, from byte
\* (r.next - 1) * SectorBytes + r.index on.
ReadPart(r, part, size) ==
  /\ part % 2 = 0 /\ size % 2 = 0
  /\ data_index' \in Nat /\ data_index' % 2 = 0 /\ data_end' = data_index' + size
  /\ io_buffer_index' = data_end' /\ data_end' <= SectorBytes
  /\ packet_transfer_size' = r.left - size /\ elementary_transfer_size' = part - size
  /\ lba' = held' + 1 /\ held' \in Nat /\ cd_sector_size' = SectorBytes
  /\ held' * SectorBytes + data_index' = (r.next - 1) * SectorBytes + r.index
  /\ \/ r.part > 0 /\ part = r.part /\ limit' = limit
     \/ r.part = 0 /\ part = limit' /\ limit' \in 2 .. ByteLimit /\ irq' = 1

ReadMore(r) ==
  /\ r.left > 0 /\ status' = {"DRDY", "DSC", "DRQ"}
  /\ \E part \in 2 .. r.left : \E size \in 2 .. part : ReadPart(r, part, size)

\* The read r is at its end.
ReadOver(r) == r.left <= 0 /\ status' = {"DRDY", "DSC"} /\ irq' = 1

\* A sector of the read could not be had.
ReadFailed == status' = {"DRDY", "ERR"} /\ irq' = 1

\* The next bytes of a read: they are those of the disc the read has come to, byte
\* (r.next - 1) * SectorBytes + r.index of it, from the sector held or from the next one.
LEMMA ReadEffect ==
  ASSUME DriveOK, NEW r \in ReplySet, Fits(r), r.left % 2 = 0, r.part % 2 = 0, r.index % 2 = 0,
         r.left > 0 => r.part <= r.left /\ limit >= 2,
         r.size = SectorBytes, r.next \in Nat, r.index <= SectorBytes,
         r.index < SectorBytes => r.sector = r.next - 1 /\ r.sector >= 0,
         ReplyEnd(r)
  PROVE  /\ DriveOK'
         /\ UNCHANGED cdrom_changed
         /\ ReadFailed \/ ReadOver(r) \/ ReadMore(r)
<1>1. /\ r.left \in Int /\ r.part \in Nat /\ r.index \in Nat /\ r.next \in Int /\ r.size \in Nat /\ r.sector \in Int
  BY DEF ReplySet
<1>2. r.next # -1 /\ (limit >= 2 => limit \in 2 .. ByteLimit)
  BY Params DEF DriveOK
<1>3. ASSUME NEW q \in ReplySet, Fits(q), q.left = r.left, q.part = r.part, q.size = SectorBytes,
             q.index \in 0 .. SectorBytes - 1, q.index % 2 = 0, q.next \in Nat, q.sector \in Nat,
             q.next = q.sector + 1,
             q.sector * SectorBytes + q.index = (r.next - 1) * SectorBytes + r.index, Go(q), UNCHANGED sense
      PROVE  /\ DriveOK'
             /\ ReadOver(r) \/ ReadMore(r)
  <2>1. sense_key' \in Senses /\ cdrom_changed' \in {0, 1}
    BY <1>3 DEF DriveOK, sense
  <2>2. q.next # -1 /\ q.index < q.size /\ q.size % 2 = 0
    BY <1>3, Params
  <2>3. \/ q.left <= 0 /\ Ended(q)
        \/ /\ q.left > 0
           /\ \E part \in 2 .. q.left : \E size \in 2 .. part :
                /\ part % 2 = 0 /\ size % 2 = 0 /\ Ready(q, part, size)
                /\ q.next # -1 => size <= q.size - q.index
                /\ q.next = -1 => size = part
                /\ \/ q.part > 0 /\ part = q.part /\ limit' = limit /\ irq' = irq /\ reason' = reason
                   \/ q.part = 0 /\ part = limit' /\ limit' \in 2 .. ByteLimit /\ irq' = 1 /\ reason' = "io"
    BY <1>2, <1>3, <2>2, GoEffect
  <2>4. CASE q.left <= 0 /\ Ended(q)
    <3>1. DriveOK'
      BY <1>3, <2>1, <2>4, EndedType
    <3> QED
      BY <1>3, <2>4, <3>1 DEF Ended, ReadOver
  <2>5. ASSUME q.left > 0, NEW part \in 2 .. q.left, NEW size \in 2 .. part,
               part % 2 = 0, size % 2 = 0, Ready(q, part, size), size <= q.size - q.index,
               \/ q.part > 0 /\ part = q.part /\ limit' = limit /\ irq' = irq /\ reason' = reason
               \/ q.part = 0 /\ part = limit' /\ limit' \in 2 .. ByteLimit /\ irq' = 1 /\ reason' = "io"
        PROVE  /\ DriveOK' /\ status' = {"DRDY", "DSC", "DRQ"}
               /\ data_index' \in Nat /\ data_index' % 2 = 0 /\ data_end' = data_index' + size
               /\ io_buffer_index' = data_end' /\ data_end' <= SectorBytes
               /\ packet_transfer_size' = r.left - size /\ elementary_transfer_size' = part - size
               /\ lba' = held' + 1 /\ held' \in Nat /\ cd_sector_size' = SectorBytes
               /\ held' * SectorBytes + data_index' = (r.next - 1) * SectorBytes + r.index
    <3>1. q.index + size <= SectorBytes /\ size \in Nat /\ part \in Nat
      BY <1>1, <1>3, <2>5, Params
    <3>2. /\ part <= ByteLimit /\ irq' \in {0, 1} /\ limit' \in 0 .. ByteLimit
          /\ reason' \in {"none", "cd", "io", "io_cd"}
      BY <1>3, <2>5, <3>1, Params DEF DriveOK, Fits
    <3>3. DriveOK'
      BY <1>3, <2>1, <2>5, <3>1, <3>2, ReadyType
    <3>4. /\ data_index' = q.index /\ data_end' = q.index + size /\ io_buffer_index' = q.index + size
          /\ packet_transfer_size' = r.left - size /\ elementary_transfer_size' = part - size
          /\ lba' = q.next /\ held' = q.sector /\ cd_sector_size' = SectorBytes
          /\ status' = {"DRDY", "DSC", "DRQ"}
      BY <1>3, <2>5 DEF Ready
    <3>5. q.index \in Nat
      BY <1>3, Params
    <3> QED
      BY <1>3, <3>1, <3>3, <3>4, <3>5
  <2> QED
    BY <1>3, <2>2, <2>3, <2>4, <2>5 DEF ReadMore, ReadPart
<1>4. CASE r.left > 0 /\ NeedsSector(r) /\ Readable(r) /\ UNCHANGED sense
             /\ Go([r EXCEPT !.next = @ + 1, !.index = 0, !.sector = r.next])
  <2> DEFINE q == [r EXCEPT !.next = @ + 1, !.index = 0, !.sector = r.next]
  <2> DEFINE q1 == [r EXCEPT !.next = r.next + 1]
             q2 == [q1 EXCEPT !.index = 0]
  <2>1. /\ q \in ReplySet /\ q.left = r.left /\ q.part = r.part /\ q.size = r.size
        /\ q.index = 0 /\ q.next = r.next + 1 /\ q.sector = r.next
    <3>1. q1 \in ReplySet /\ q1.left = r.left /\ q1.part = r.part /\ q1.size = r.size /\ q1.next = r.next + 1
      BY <1>1 DEF ReplySet
    <3> HIDE DEF q1
    <3>2. /\ q2 \in ReplySet /\ q2.left = r.left /\ q2.part = r.part /\ q2.size = r.size /\ q2.next = r.next + 1
          /\ q2.index = 0
      BY <3>1 DEF ReplySet
    <3> HIDE DEF q2
    <3>3. q = [q2 EXCEPT !.sector = r.next]
      BY DEF q1, q2
    <3> HIDE DEF q
    <3> QED
      BY <1>1, <3>2, <3>3 DEF ReplySet
  <2>2. r.next \in 0 .. DiscSectors - 1 /\ r.index = SectorBytes
    BY <1>1, <1>2, <1>4, Params DEF Readable, NeedsSector
  <2> HIDE DEF q
  <2>3. q \in ReplySet /\ Fits(q)
    BY <1>1, <2>1, <2>2, Params DEF Fits
  <2>4. /\ q.left = r.left /\ q.part = r.part /\ q.size = SectorBytes /\ q.index = 0 /\ q.next = r.next + 1
        /\ q.sector = r.next
    BY <2>1
  <2>5. q.index \in 0 .. SectorBytes - 1 /\ q.index % 2 = 0 /\ q.next \in Nat /\ q.sector \in Nat
        /\ q.next = q.sector + 1
    BY <1>1, <2>4, Params
  <2>6. q.sector * SectorBytes + q.index = (r.next - 1) * SectorBytes + r.index
    BY <1>1, <2>2, <2>4, Params
  <2>7. Go(q)
    BY <1>4 DEF q
  <2> QED
    BY <1>3, <1>4, <2>3, <2>4, <2>5, <2>6, <2>7 DEF sense
<1>5. CASE r.left > 0 /\ NeedsSector(r) /\ Failed(r)
  <2>1. DriveOK'
    BY <1>5, FailedType
  <2> QED
    BY <1>5, <2>1 DEF Failed, ReadFailed
<1>6. CASE ~(r.left > 0 /\ NeedsSector(r)) /\ Go(r) /\ UNCHANGED sense
  <2>1. CASE r.left <= 0
    <3>1. Finished(r)
      BY <1>1, <1>6, <2>1 DEF Go, Continued, Announced
    <3>2. Ended(r)
      BY <3>1 DEF Finished, Stop, Keep, Ended
    <3>3. sense_key' \in Senses /\ cdrom_changed' \in {0, 1}
      BY <1>6 DEF DriveOK, sense
    <3>4. DriveOK'
      BY <3>2, <3>3, EndedType
    <3> QED
      BY <1>6, <2>1, <3>2, <3>4 DEF Ended, ReadOver, sense
  <2>2. CASE r.left > 0
    <3>1. r.index \in 0 .. SectorBytes - 1
      BY <1>1, <1>2, <1>6, <2>2, Params DEF NeedsSector
    <3>2. r.sector = r.next - 1 /\ r.sector \in Nat /\ r.next = r.sector + 1
      BY <1>1, <3>1, Params
    <3> QED
      BY <1>3, <1>6, <2>2, <3>1, <3>2 DEF sense
  <2> QED
    BY <1>1, <2>1, <2>2
<1> QED
  BY <1>4, <1>5, <1>6 DEF ReplyEnd, Failed

\* More of the reply r, which is no read, is ready: all of the part that is announced.
OtherMore(r) ==
  /\ r.left > 0 /\ status' = {"DRDY", "DSC", "DRQ"} /\ irq' = 1
  /\ \E size \in 2 .. r.left :
       /\ size % 2 = 0
       /\ data_index' = r.index /\ data_end' = r.index + size /\ io_buffer_index' = r.index + size
       /\ packet_transfer_size' = r.left - size /\ elementary_transfer_size' = 0
       /\ lba' = -1 /\ limit' = size /\ limit' \in 2 .. ByteLimit

\* The next bytes of a reply that is no read.
LEMMA OtherEffect ==
  ASSUME DriveOK, NEW r \in ReplySet, Fits(r), r.left % 2 = 0, r.index % 2 = 0, r.part = 0, r.next = -1,
         r.left > 0 => limit >= 2, r.left > 0 => r.index + r.left <= SectorBytes,
         Go(r), sense_key' \in Senses, cdrom_changed' \in {0, 1}
  PROVE  DriveOK' /\ (ReadOver(r) \/ OtherMore(r))
<1>1. /\ r.left \in Int /\ r.part \in Nat /\ r.index \in Nat /\ r.next \in Int /\ r.size \in Nat /\ r.sector \in Int
  BY DEF ReplySet
<1>2. limit >= 2 => limit \in 2 .. ByteLimit
  BY Params DEF DriveOK
<1>3. \/ r.left <= 0 /\ Ended(r)
      \/ /\ r.left > 0
         /\ \E part \in 2 .. r.left : \E size \in 2 .. part :
              /\ part % 2 = 0 /\ size % 2 = 0 /\ Ready(r, part, size)
              /\ r.next # -1 => size <= r.size - r.index
              /\ r.next = -1 => size = part
              /\ \/ r.part > 0 /\ part = r.part /\ limit' = limit /\ irq' = irq /\ reason' = reason
                 \/ r.part = 0 /\ part = limit' /\ limit' \in 2 .. ByteLimit /\ irq' = 1 /\ reason' = "io"
  BY <1>1, <1>2, GoEffect
<1>4. CASE r.left <= 0 /\ Ended(r)
  <2>1. DriveOK'
    BY <1>4, EndedType
  <2> QED
    BY <1>4, <2>1 DEF Ended, ReadOver
<1>5. ASSUME r.left > 0, NEW size \in 2 .. r.left, size % 2 = 0, Ready(r, size, size),
             size = limit', limit' \in 2 .. ByteLimit, irq' = 1, reason' = "io"
      PROVE  DriveOK' /\ OtherMore(r)
  <2>1. size \in Nat /\ size \in 2 .. size /\ size <= ByteLimit /\ r.index + size <= SectorBytes
    BY <1>1, <1>5, Params
  <2>2. irq' \in {0, 1} /\ limit' \in 0 .. ByteLimit /\ reason' \in {"none", "cd", "io", "io_cd"}
    BY <1>5, Params
  <2>3. DriveOK'
    BY <1>5, <2>1, <2>2, ReadyType
  <2>4. /\ data_index' = r.index /\ data_end' = r.index + size /\ io_buffer_index' = r.index + size
        /\ packet_transfer_size' = r.left - size /\ elementary_transfer_size' = size - size /\ lba' = r.next
        /\ status' = {"DRDY", "DSC", "DRQ"}
    BY <1>5 DEF Ready
  <2>5. elementary_transfer_size' = 0 /\ lba' = -1
    BY <2>1, <2>4
  <2> QED
    BY <1>5, <2>3, <2>4, <2>5 DEF OtherMore
<1> QED
  BY <1>3, <1>4, <1>5

-----------------------------------------------------------------------------
(***************************************************************************)
(* ide_atapi_cmd.                                                          *)
(***************************************************************************)
\* The reply with which a read of n sectors from first on begins.
FirstRead(first, n, size) == Reply(Wrap(n * size), 0, size, first, size, held)

\* What a packet comes to: an end with an error, an end, or the first part of a reply.
PacketRead(first, n) ==
  \/ "DRQ" \notin status' /\ "ERR" \in status'
  \/ "DRQ" \notin status' /\ Wrap(n * SectorBytes) <= 0
  \/ ReadMore(FirstRead(first, n, SectorBytes))

PacketOther ==
  \/ "DRQ" \notin status'
  \/ \E r \in ReplySet : r.part = 0 /\ r.index = 0 /\ r.left % 2 = 0 /\ r.left <= SectorBytes /\ OtherMore(r)

\* The three ways to end a command at once.
LEMMA PlainEnd ==
  ASSUME DriveOK, NEW key \in Senses,
         CmdOk \/ CheckStatus \/ (CmdError(key) /\ cdrom_changed' \in {0, 1})
  PROVE  DriveOK' /\ irq' = 1 /\ "DRQ" \notin status' /\ (CheckStatus => "ERR" \in status')
<1>1. "DRQ" \notin status' /\ irq' = 1 /\ (CheckStatus => "ERR" \in status')
  BY DEF CmdOk, CheckStatus, CmdError
<1>2. DriveOK'
  BY DEF DriveOK, CmdOk, CheckStatus, CmdError, sense, reply, transfer
<1> QED
  BY <1>1, <1>2

\* A reply without sectors.
LEMMA CmdReplyEffect ==
  ASSUME DriveOK, limit >= 2, NEW size \in ReplySizes, NEW max \in ReplySizes \cup {0}, CmdReply(size, max),
         sense_key' \in Senses, cdrom_changed' \in {0, 1}
  PROVE  DriveOK' /\ irq' = 1 /\ PacketOther
<1> DEFINE left == Lesser(size, max)
           r == Reply(left, 0, 0, -1, cd_sector_size, -1)
<1>1. left \in Nat /\ left % 2 = 0 /\ left <= SectorBytes
  BY AtapiAssumption, Params DEF Lesser
<1> HIDE DEF left
<1>2. r \in ReplySet /\ r.left = left /\ r.part = 0 /\ r.index = 0 /\ r.next = -1 /\ r.size = cd_sector_size /\ r.sector = -1
  BY <1>1, Params DEF Reply, ReplySet, DriveOK
<1>3. Go(r)
  BY DEF CmdReply, left
<1> HIDE DEF r
<1>4. Fits(r)
  BY <1>1, <1>2, Params DEF Fits, DriveOK
<1>5. r.index + r.left <= SectorBytes /\ r.left % 2 = 0 /\ r.index % 2 = 0
  BY <1>1, <1>2, Params
<1>6. DriveOK' /\ (ReadOver(r) \/ OtherMore(r))
  BY <1>2, <1>3, <1>4, <1>5, OtherEffect
<1>7. CASE ReadOver(r)
  BY <1>6, <1>7 DEF ReadOver, PacketOther
<1>8. CASE OtherMore(r)
  <2>1. irq' = 1
    BY <1>8 DEF OtherMore
  <2>2. PacketOther
    BY <1>1, <1>2, <1>5, <1>8 DEF PacketOther
  <2> QED
    BY <1>6, <2>1, <2>2
<1> QED
  BY <1>6, <1>7, <1>8

\* READ with sectors of 2048 bytes.
LEMMA CmdReadEffect ==
  ASSUME DriveOK, limit >= 2, NEW first \in 0 .. DiscSectors, NEW n \in Counts, CmdRead(first, n, SectorBytes)
  PROVE  DriveOK' /\ irq' = 1 /\ UNCHANGED cdrom_changed /\ PacketRead(first, n)
<1> DEFINE w == Wrap(n * SectorBytes)
           r == FirstRead(first, n, SectorBytes)
<1>1. n \in Nat /\ first \in Nat
  BY AtapiAssumption, Params
<1>2. w \in -IntLimit .. IntLimit - 1 /\ w % 2 = 0
  <2> DEFINE x == n * SectorBytes
  <2>1. x \in Int /\ x % 2 = 0
    <3>1. n \in Int /\ SectorBytes \in Int /\ SectorBytes % 2 = 0
      BY <1>1, Params
    <3> QED
      BY <3>1, EvenProduct, Zenon
  <2> HIDE DEF x
  <2>2. Wrap(x) \in -IntLimit .. IntLimit - 1 /\ Wrap(x) % 2 = 0
    BY <2>1, WrapType
  <2> QED
    BY <2>2 DEF x
<1>3. r = Reply(w, 0, SectorBytes, first, SectorBytes, held) /\ ReplyEnd(r)
  BY DEF FirstRead, CmdRead
<1> HIDE DEF w, r
<1>4. /\ r \in ReplySet /\ r.left = w /\ r.part = 0 /\ r.index = SectorBytes /\ r.next = first /\ r.size = SectorBytes
      /\ r.sector = held
  BY <1>1, <1>2, <1>3, Params DEF Reply, ReplySet, DriveOK
<1>5. Fits(r)
  BY <1>1, <1>2, <1>4, Params DEF Fits, DriveOK
<1>6. /\ DriveOK' /\ UNCHANGED cdrom_changed
      /\ ReadFailed \/ ReadOver(r) \/ ReadMore(r)
  <2>1. /\ r.left % 2 = 0 /\ r.part % 2 = 0 /\ r.index % 2 = 0 /\ (r.left > 0 => r.part <= r.left /\ limit >= 2)
        /\ r.next \in Nat /\ r.index <= SectorBytes /\ ~(r.index < SectorBytes)
    BY <1>1, <1>2, <1>4, Params
  <2> QED
    BY <1>3, <1>4, <1>5, <2>1, ReadEffect
<1>7. CASE ReadFailed
  BY <1>6, <1>7 DEF ReadFailed, PacketRead
<1>8. CASE ReadOver(r)
  BY <1>4, <1>6, <1>8 DEF ReadOver, PacketRead, w
<1>9. CASE ReadMore(r)
  <2>1. irq' = 1
    BY <1>4, <1>9 DEF ReadMore, ReadPart
  <2>2. PacketRead(first, n)
    BY <1>9 DEF PacketRead, r
  <2> QED
    BY <1>6, <2>1, <2>2
<1> QED
  BY <1>6, <1>7, <1>8, <1>9

\* READ CD of raw sectors, which cd_read_sector refuses.
LEMMA CmdRawEffect ==
  ASSUME DriveOK, limit >= 2, NEW first \in 0 .. DiscSectors, NEW n \in Counts, CmdRead(first, n, RawBytes)
  PROVE  DriveOK' /\ irq' = 1 /\ UNCHANGED cdrom_changed /\ "DRQ" \notin status'
<1> DEFINE w == Wrap(n * RawBytes)
           r == Reply(w, 0, RawBytes, first, RawBytes, held)
<1>1. n \in Nat /\ first \in Nat
  BY AtapiAssumption, Params
<1>2. w \in -IntLimit .. IntLimit - 1
  BY <1>1, Params, WrapType
<1>3. ReplyEnd(r)
  BY DEF CmdRead
<1> HIDE DEF w
<1>4. /\ r \in ReplySet /\ r.left = w /\ r.part = 0 /\ r.index = RawBytes /\ r.next = first /\ r.size = RawBytes
      /\ r.sector = held
  BY <1>1, <1>2, Params DEF Reply, ReplySet, DriveOK
<1> HIDE DEF r
<1>5. Fits(r)
  BY <1>1, <1>2, <1>4, Params DEF Fits, DriveOK
<1>6. NeedsSector(r) /\ ~Readable(r) /\ w \in Int
  BY <1>1, <1>2, <1>4, Params DEF NeedsSector, Readable
<1>7. Failed(r) \/ (~(w > 0) /\ Go(r) /\ UNCHANGED sense)
  BY <1>3, <1>4, <1>6 DEF ReplyEnd, Failed
<1>8. CASE Failed(r)
  <2>1. DriveOK'
    BY <1>4, <1>5, <1>8, FailedType
  <2> QED
    BY <1>8, <2>1 DEF Failed
<1>9. CASE ~(w > 0) /\ Go(r) /\ UNCHANGED sense
  <2>1. Finished(r)
    BY <1>4, <1>6, <1>9 DEF Go, Continued, Announced
  <2>2. Ended(r)
    BY <2>1 DEF Finished, Stop, Keep, Ended
  <2>3. sense_key' \in Senses /\ cdrom_changed' \in {0, 1} /\ UNCHANGED cdrom_changed
    BY <1>9 DEF DriveOK, sense
  <2>4. DriveOK'
    BY <1>4, <1>5, <2>2, <2>3, EndedType
  <2> QED
    BY <2>2, <2>3, <2>4 DEF Ended
<1> QED
  BY <1>7, <1>8, <1>9

\* Any packet: a change of the disc is only forgotten by TEST UNIT READY.
LEMMA PacketEffect ==
  ASSUME DriveOK, limit >= 2, NEW kind \in Kinds, NEW first \in 0 .. DiscSectors, NEW n \in Counts,
         NEW max \in ReplySizes \cup {0}, Packet(kind, first, n, max)
  PROVE  /\ DriveOK' /\ irq' = 1
         /\ cdrom_changed' = cdrom_changed \/ (kind = "test" /\ cdrom_changed = 1)
         /\ kind = "read" => PacketRead(first, n)
         /\ kind # "read" => PacketOther
<1> DEFINE Outcome ==
      /\ DriveOK' /\ irq' = 1
      /\ cdrom_changed' = cdrom_changed \/ (kind = "test" /\ cdrom_changed = 1)
      /\ kind = "read" => PacketRead(first, n)
      /\ kind # "read" => PacketOther
<1> SUFFICES Outcome
  OBVIOUS
<1>1. cdrom_changed \in {0, 1} /\ sense_key \in Senses /\ {"none", "not_ready", "illegal", "attention"} = Senses
  BY DEF DriveOK, Senses
<1>2. CASE CheckStatus
  <2>1. DriveOK' /\ irq' = 1 /\ "DRQ" \notin status' /\ "ERR" \in status'
    BY <1>1, <1>2, PlainEnd
  <2>2. cdrom_changed' = cdrom_changed
    BY <1>2 DEF CheckStatus, sense
  <2> QED
    BY <2>1, <2>2 DEF PacketRead, PacketOther
<1>3. CASE CmdOk /\ kind # "read"
  <2>1. DriveOK' /\ irq' = 1 /\ "DRQ" \notin status'
    BY <1>1, <1>3, PlainEnd
  <2>2. cdrom_changed' = cdrom_changed
    BY <1>3 DEF CmdOk, sense
  <2> QED
    BY <1>3, <2>1, <2>2 DEF PacketOther
<1>4. ASSUME NEW key \in Senses, CmdError(key), kind # "read", cdrom_changed' \in {0, 1},
             cdrom_changed' = cdrom_changed \/ (kind = "test" /\ cdrom_changed = 1)
      PROVE  Outcome
  <2>1. DriveOK' /\ irq' = 1 /\ "DRQ" \notin status'
    BY <1>4, PlainEnd
  <2> QED
    BY <1>4, <2>1 DEF PacketOther
<1>5. ASSUME NEW size \in ReplySizes, CmdReply(size, max), kind # "read", sense_key' \in Senses, UNCHANGED cdrom_changed
      PROVE  Outcome
  <2>1. DriveOK' /\ irq' = 1 /\ PacketOther
    BY <1>1, <1>5, CmdReplyEffect
  <2> QED
    BY <1>5, <2>1
<1>6. CASE kind = "read" /\ CmdRead(first, n, SectorBytes)
  <2>1. DriveOK' /\ irq' = 1 /\ UNCHANGED cdrom_changed /\ PacketRead(first, n)
    BY <1>6, CmdReadEffect
  <2> QED
    BY <1>6, <2>1
<1>7. CASE kind = "raw" /\ CmdRead(first, n, RawBytes)
  <2>1. DriveOK' /\ irq' = 1 /\ UNCHANGED cdrom_changed /\ "DRQ" \notin status'
    BY <1>7, CmdRawEffect
  <2> QED
    BY <1>7, <2>1 DEF PacketOther
<1> HIDE DEF Outcome
<1>8. CASE kind = "test" /\ TestUnitReady
  <2>1. CmdOk \/ (CmdError("not_ready") /\ cdrom_changed = 1 /\ cdrom_changed' = 0)
    BY <1>8 DEF TestUnitReady
  <2> QED
    BY <1>1, <1>3, <1>4, <1>8, <2>1
<1>9. CASE kind = "sense" /\ RequestSense(max)
  <2>1. PICK size \in ReplySizes :
          /\ CmdReply(size, max)
          /\ sense_key' = IF sense_key = "attention" THEN "none" ELSE sense_key
          /\ UNCHANGED cdrom_changed
    BY <1>9 DEF RequestSense
  <2>2. sense_key' \in Senses
    BY <1>1, <2>1
  <2> QED
    BY <1>5, <1>9, <2>1, <2>2
<1>10. CASE kind # "read" /\ Replies(max)
  <2>1. PICK size \in ReplySizes : CmdReply(size, max) /\ UNCHANGED sense
    BY <1>10 DEF Replies
  <2>2. sense_key' \in Senses /\ UNCHANGED cdrom_changed
    BY <1>1, <2>1 DEF sense
  <2> QED
    BY <1>5, <1>10, <2>1, <2>2
<1>11. CASE kind = "disc" /\ DiscReplies(max)
  <2>1. (CmdError("not_ready") /\ UNCHANGED cdrom_changed) \/ Replies(max)
    BY <1>11 DEF DiscReplies
  <2>2. CASE CmdError("not_ready") /\ UNCHANGED cdrom_changed
    BY <1>1, <1>4, <1>11, <2>2
  <2> QED
    BY <1>10, <1>11, <2>1, <2>2
<1>12. CASE kind = "seek" /\ Seek(first)
  <2>1. \/ CmdError("not_ready") /\ UNCHANGED cdrom_changed
        \/ CmdError("illegal") /\ UNCHANGED cdrom_changed
        \/ CmdOk
    BY <1>12 DEF Seek
  <2> QED
    BY <1>1, <1>3, <1>4, <1>12, <2>1
<1>13. CASE kind = "bad" /\ CmdError("illegal") /\ UNCHANGED cdrom_changed
  BY <1>1, <1>4, <1>13
<1> QED
  BY <1>2, <1>3, <1>6, <1>7, <1>8, <1>9, <1>10, <1>11, <1>12, <1>13 DEF Packet

-----------------------------------------------------------------------------
(***************************************************************************)
(* The steps.                                                              *)
(***************************************************************************)
\* TypeOK is the drive's part and the guest's.
LEMMA TypeParts == TypeOK <=> DriveOK /\ guest \in Guest
BY DEF TypeOK, DriveOK

\* A step that leaves the guest neither waiting nor moving data keeps the invariant, given the
\* few facts that do not speak of a transfer.
LEMMA QuietStep ==
  ASSUME CdInv, DriveOK', guest' \in Guest, guest'.phase \in {"idle", "identify", "reset", "packet"},
         guest'.phase = "packet" => limit' >= 2,
         guest'.told = 0 => cdrom_changed' = 1
  PROVE  CdInv'
<1>1. TypeOK'
  BY DEF TypeOK, DriveOK
<1> QED
  BY <1>1 DEF CdInv, Moving, ReadsComplete

\* The guest's record after it has sent a packet.
LEMMA GuestSent ==
  ASSUME guest \in Guest, NEW first \in Int, NEW op \in {"read", "other"}, NEW bytes \in Int, NEW told \in {0, 1},
         guest' = [guest EXCEPT !.phase = "wait", !.got = 0, !.expect = 0, !.first = first,
                     !.op = op, !.bytes = bytes, !.told = told]
  PROVE  /\ guest' \in Guest
         /\ guest'.phase = "wait" /\ guest'.got = 0 /\ guest'.first = first /\ guest'.op = op
         /\ guest'.bytes = bytes /\ guest'.told = told
<1> DEFINE g1 == [guest EXCEPT !.phase = "wait"]
           g2 == [g1 EXCEPT !.got = 0]
           g3 == [g2 EXCEPT !.expect = 0]
           g4 == [g3 EXCEPT !.first = first]
           g5 == [g4 EXCEPT !.op = op]
           g6 == [g5 EXCEPT !.bytes = bytes]
           g7 == [g6 EXCEPT !.told = told]
<1>0. guest' = g7
  OBVIOUS
<1>1. g1 \in Guest /\ g1.phase = "wait"
  BY DEF Guest
<1> HIDE DEF g1
<1>2. g2 \in Guest /\ g2.phase = "wait" /\ g2.got = 0
  BY <1>1 DEF Guest
<1> HIDE DEF g2
<1>3. g3 \in Guest /\ g3.phase = "wait" /\ g3.got = 0
  BY <1>2 DEF Guest
<1> HIDE DEF g3
<1>4. g4 \in Guest /\ g4.phase = "wait" /\ g4.got = 0 /\ g4.first = first
  BY <1>3 DEF Guest
<1> HIDE DEF g4
<1>5. g5 \in Guest /\ g5.phase = "wait" /\ g5.got = 0 /\ g5.first = first /\ g5.op = op
  BY <1>4 DEF Guest
<1> HIDE DEF g5
<1>6. g6 \in Guest /\ g6.phase = "wait" /\ g6.got = 0 /\ g6.first = first /\ g6.op = op /\ g6.bytes = bytes
  BY <1>5 DEF Guest
<1> HIDE DEF g6
<1>7. g7 \in Guest /\ g7.phase = "wait" /\ g7.got = 0 /\ g7.first = first /\ g7.op = op /\ g7.bytes = bytes
      /\ g7.told = told
  BY <1>6 DEF Guest
<1> HIDE DEF g7
<1> QED
  BY <1>0, <1>7

\* The sizes of a part.
LEMMA PartArith ==
  ASSUME NEW i \in Nat, NEW size \in Nat, NEW part \in Nat, NEW left \in Int, part <= left, size <= part,
         i % 2 = 0, size % 2 = 0, part % 2 = 0, left % 2 = 0
  PROVE  /\ (i + size) - i = size /\ (i + size) % 2 = 0 /\ (left - size) % 2 = 0 /\ (part - size) % 2 = 0
         /\ left - size >= part - size /\ size + (part - size) = part /\ size + (left - size) = left
         /\ 0 + size + (left - size) = left
<1>1. (i + size) % 2 = 0 /\ (left - size) % 2 = 0 /\ (part - size) % 2 = 0
  BY EvenSums
<1>2. /\ (i + size) - i = size /\ left - size >= part - size
  OBVIOUS
<1>3. /\ size + (part - size) = part /\ size + (left - size) = left /\ 0 + size + (left - size) = left
  OBVIOUS
<1> QED
  BY <1>1, <1>2, <1>3

\* How a part of a read and what is left of it fit together.
LEMMA ReadPartFlow ==
  ASSUME NEW r \in ReplySet, r.left % 2 = 0, NEW part \in 2 .. r.left, NEW size \in 2 .. part, ReadPart(r, part, size)
  PROVE  /\ Left' = size /\ size \in Nat /\ part \in Nat /\ r.left \in Int
         /\ Left' >= 2 /\ Left' % 2 = 0 /\ data_end' = io_buffer_index' /\ io_buffer_index' % 2 = 0
         /\ io_buffer_index' <= SectorBytes
         /\ packet_transfer_size' >= elementary_transfer_size'
         /\ packet_transfer_size' % 2 = 0 /\ elementary_transfer_size' % 2 = 0
         /\ Left' + elementary_transfer_size' = part
         /\ Left' + packet_transfer_size' = r.left
         /\ 0 + Left' + packet_transfer_size' = r.left
<1> DEFINE i == data_index'
<1>1. /\ i \in Nat /\ i % 2 = 0 /\ data_end' = i + size
      /\ io_buffer_index' = i + size /\ i + size <= SectorBytes /\ part % 2 = 0 /\ size % 2 = 0
      /\ packet_transfer_size' = r.left - size /\ elementary_transfer_size' = part - size
      /\ Left' = (i + size) - i
  BY DEF ReadPart, Left
<1> HIDE DEF i
<1>2. r.left \in Int /\ part \in Nat /\ size \in Nat /\ part <= r.left /\ size <= part /\ size >= 2
  BY DEF ReplySet
<1>3. /\ (i + size) - i = size /\ (i + size) % 2 = 0 /\ (r.left - size) % 2 = 0 /\ (part - size) % 2 = 0
      /\ r.left - size >= part - size /\ size + (part - size) = part /\ size + (r.left - size) = r.left
      /\ 0 + size + (r.left - size) = r.left
  BY <1>1, <1>2, PartArith
<1>4. Left' = size
  BY <1>1, <1>3
<1> QED
  BY <1>1, <1>2, <1>3, <1>4

\* A read packet begins a flow of the bytes asked for, or ends it.
LEMMA ReadBegun ==
  ASSUME DriveOK', guest'.phase = "wait", guest'.op = "read", guest'.got = 0, guest'.first \in Nat,
         DriveOK, NEW n \in Nat, guest'.bytes = n * SectorBytes, PacketRead(guest'.first, n)
  PROVE  (Moving => Flow)' /\ ReadsComplete'
<1> DEFINE x == n * SectorBytes
           first == guest'.first
           r == FirstRead(first, n, SectorBytes)
<1>1. x \in Nat /\ (x < IntLimit => Wrap(x) = x) /\ Wrap(x) \in -IntLimit .. IntLimit - 1
  <2>1. x \in Nat
    BY Params
  <2> HIDE DEF x
  <2>2. x \in Int /\ (x < IntLimit => x \in 0 .. IntLimit - 1)
    BY <2>1, Params
  <2> QED
    BY <2>1, <2>2, WrapType
<1>2. x >= SectorBytes \/ n = 0
  BY Params
<1>3. Wrap(x) <= 0 /\ x < IntLimit => x = 0
  BY <1>1, Params
<1>4. /\ r.left = Wrap(x) /\ r.part = 0 /\ r.index = SectorBytes /\ r.next = first /\ r \in ReplySet
  BY <1>1, Params DEF FirstRead, Reply, ReplySet, DriveOK
<1>5. guest'.bytes = x
  OBVIOUS
<1> HIDE DEF x, r
<1>6. CASE "DRQ" \notin status' /\ "ERR" \in status'
  BY <1>6 DEF Moving, ReadsComplete
<1>7. CASE "DRQ" \notin status' /\ Wrap(x) <= 0
  BY <1>1, <1>3, <1>5, <1>7, Params DEF Moving, ReadsComplete
<1>8. CASE ReadMore(r)
  <2>1. PICK part \in 2 .. r.left : \E size \in 2 .. part : ReadPart(r, part, size)
    BY <1>8 DEF ReadMore
  <2>2. PICK size \in 2 .. part : ReadPart(r, part, size)
    BY <2>1
  <2>3. /\ r.left \in Int /\ part \in Nat /\ size \in Nat /\ r.left % 2 = 0 /\ part = limit' /\ limit' >= 2
        /\ part <= r.left /\ size <= part /\ size >= 2
    <3>1. r.left % 2 = 0
      <4>1. n \in Int /\ SectorBytes \in Int /\ SectorBytes % 2 = 0
        BY Params
      <4>2. x % 2 = 0 /\ x \in Int
        BY <4>1, EvenProduct, Zenon DEF x
      <4> QED
        BY <1>4, <4>2, WrapType
    <3> QED
      BY <1>1, <1>4, <2>2, <3>1 DEF ReadPart
  <2>4. /\ Left' >= 2 /\ Left' % 2 = 0 /\ data_end' = io_buffer_index' /\ io_buffer_index' % 2 = 0
        /\ io_buffer_index' <= SectorBytes
        /\ packet_transfer_size' >= elementary_transfer_size'
        /\ packet_transfer_size' % 2 = 0 /\ elementary_transfer_size' % 2 = 0
        /\ Left' + elementary_transfer_size' = part
        /\ 0 + Left' + packet_transfer_size' = r.left
    BY <1>4, <2>2, <2>3, ReadPartFlow
  <2>5. (first - 1) * SectorBytes + SectorBytes = first * SectorBytes /\ first \in Nat
    BY Params
  <2>6. limit' >= 2 /\ limit' = Left' + elementary_transfer_size'
    BY <2>3, <2>4
  <2>7. /\ lba' = held' + 1 /\ held' >= 0 /\ cd_sector_size' = SectorBytes
        /\ held' * SectorBytes + data_index' = guest'.first * SectorBytes + guest'.got
    <3>1. held' * SectorBytes + data_index' = (first - 1) * SectorBytes + SectorBytes
      BY <1>4, <2>2 DEF ReadPart
    <3>2. first * SectorBytes \in Int /\ first * SectorBytes + 0 = first * SectorBytes
      BY <2>5, Params
    <3> QED
      BY <2>2, <2>5, <3>1, <3>2 DEF ReadPart
  <2>8. guest'.bytes < IntLimit => guest'.got + Left' + packet_transfer_size' = guest'.bytes
    BY <1>1, <1>4, <1>5, <2>4
  <2>9. Flow'
    BY <2>4, <2>6, <2>7, <2>8 DEF Flow
  <2>10. "DRQ" \in status'
    BY <1>8 DEF ReadMore
  <2> QED
    BY <2>9, <2>10 DEF ReadsComplete
<1> QED
  BY <1>6, <1>7, <1>8 DEF PacketRead, x, r

\* The flow of a reply that is no read, from one announced part to the next.
LEMMA OtherFlow ==
  ASSUME NEW r \in ReplySet, r.left % 2 = 0, r.index % 2 = 0, r.index + r.left <= SectorBytes,
         OtherMore(r), guest'.phase = "wait", guest'.op = "other"
  PROVE  Flow' /\ ReadsComplete'
<1>1. PICK size \in 2 .. r.left :
       /\ size % 2 = 0
       /\ data_index' = r.index /\ data_end' = r.index + size /\ io_buffer_index' = r.index + size
       /\ packet_transfer_size' = r.left - size /\ elementary_transfer_size' = 0
       /\ lba' = -1 /\ limit' = size /\ limit' \in 2 .. ByteLimit
  BY DEF OtherMore
<1>2. r.left \in Int /\ r.index \in Nat /\ size \in Nat /\ size <= r.left /\ size >= 2
  BY DEF ReplySet
<1>3. /\ (r.index + size) - r.index = size /\ (r.index + size) % 2 = 0 /\ (r.left - size) % 2 = 0
      /\ r.index + size <= SectorBytes /\ r.left - size >= 0 /\ size + 0 = size
      /\ (r.index + size) + (r.left - size) <= SectorBytes
  <2>1. (r.index + size) % 2 = 0 /\ (r.left - size) % 2 = 0
    BY <1>1, <1>2, EvenSums
  <2> QED
    BY <1>2, <2>1, Params
<1>4. Left' = size
  BY <1>1, <1>3 DEF Left
<1>5. Flow'
  BY <1>1, <1>2, <1>3, <1>4 DEF Flow
<1>6. "DRQ" \in status'
  BY DEF OtherMore
<1> QED
  BY <1>5, <1>6 DEF ReadsComplete

\* The guest sends a packet.
LEMMA SendPacketStep == ASSUME CdInv, SendPacket PROVE CdInv'
<1>1. PICK kind \in Kinds, first \in 0 .. DiscSectors, n \in Counts, max \in ReplySizes \cup {0} :
       /\ Packet(kind, first, n, max)
       /\ guest' = [guest EXCEPT !.phase = "wait", !.got = 0, !.expect = 0, !.first = first,
                      !.op = IF kind = "read" THEN "read" ELSE "other",
                      !.bytes = IF kind = "read" THEN n * SectorBytes ELSE 0,
                      !.told = IF \/ sense_key = "attention" /\ kind # "inquiry"
                                  \/ kind = "test" /\ cdrom_changed = 1
                               THEN 1 ELSE guest.told]
  BY DEF SendPacket
<1> DEFINE op == IF kind = "read" THEN "read" ELSE "other"
           bytes == IF kind = "read" THEN n * SectorBytes ELSE 0
           told == IF \/ sense_key = "attention" /\ kind # "inquiry"
                      \/ kind = "test" /\ cdrom_changed = 1
                   THEN 1 ELSE guest.told
<1>2. DriveOK /\ guest \in Guest /\ limit >= 2 /\ (guest.told = 0 => cdrom_changed = 1)
  BY TypeParts DEF CdInv, SendPacket
<1>3. first \in Nat /\ n \in Nat /\ first \in Int /\ op \in {"read", "other"} /\ guest.told \in {0, 1}
  BY <1>2, AtapiAssumption, Params DEF Guest
<1>4. bytes \in Int /\ told \in {0, 1}
  <2>1. n * SectorBytes \in Int
    BY <1>3, Params
  <2> QED
    BY <1>3, <2>1
<1>5. /\ DriveOK' /\ irq' = 1
      /\ cdrom_changed' = cdrom_changed \/ (kind = "test" /\ cdrom_changed = 1)
      /\ kind = "read" => PacketRead(first, n)
      /\ kind # "read" => PacketOther
  BY <1>1, <1>2, PacketEffect
<1>6. guest' = [guest EXCEPT !.phase = "wait", !.got = 0, !.expect = 0, !.first = first,
                  !.op = op, !.bytes = bytes, !.told = told]
  BY <1>1
<1>7. told = 0 => cdrom_changed' = 1
  BY <1>2, <1>5
<1>8. kind = "read" => op = "read" /\ bytes = n * SectorBytes
  OBVIOUS
<1>9. kind # "read" => op = "other"
  OBVIOUS
<1> HIDE DEF op, bytes, told
<1>10. /\ guest' \in Guest
       /\ guest'.phase = "wait" /\ guest'.got = 0 /\ guest'.first = first /\ guest'.op = op
       /\ guest'.bytes = bytes /\ guest'.told = told
  BY <1>2, <1>3, <1>4, <1>6, GuestSent
<1>11. (Moving => Flow)' /\ ReadsComplete'
  <2>1. CASE kind = "read"
    <3>1. PacketRead(guest'.first, n) /\ guest'.first \in Nat /\ guest'.op = "read" /\ guest'.bytes = n * SectorBytes
      BY <1>3, <1>5, <1>8, <1>10, <2>1
    <3> QED
      BY <1>2, <1>3, <1>5, <1>10, <3>1, ReadBegun
  <2>2. CASE kind # "read"
    <3>1. PacketOther /\ guest'.op = "other"
      BY <1>5, <1>9, <1>10, <2>2
    <3>2. CASE "DRQ" \notin status'
      BY <1>10, <3>1, <3>2 DEF Moving, ReadsComplete
    <3>3. ASSUME NEW r \in ReplySet, r.part = 0, r.index = 0, r.left % 2 = 0, r.left <= SectorBytes, OtherMore(r)
          PROVE  Flow' /\ ReadsComplete'
      <4>1. r.index % 2 = 0 /\ r.index + r.left <= SectorBytes
        BY <3>3 DEF ReplySet
      <4> QED
        BY <1>10, <3>1, <3>3, <4>1, OtherFlow
    <3> QED
      BY <3>1, <3>2, <3>3 DEF PacketOther
  <2> QED
    BY <2>1, <2>2
<1>12. TypeOK'
  BY <1>5, <1>10 DEF TypeOK, DriveOK
<1> QED
  BY <1>5, <1>7, <1>10, <1>11, <1>12 DEF CdInv

\* The guest reads the status, and the byte count if there is data.
LEMMA ReadStatusStep == ASSUME CdInv, ReadStatus PROVE CdInv'
<1>1. DriveOK /\ guest \in Guest /\ guest.phase = "wait" /\ limit \in 0 .. ByteLimit
  BY TypeParts DEF CdInv, ReadStatus, TypeOK
<1>2. DriveOK'
  BY <1>1 DEF ReadStatus, DriveOK, sense, reply, transfer
<1>3. CASE "DRQ" \in status
  <2>1. guest' = [guest EXCEPT !.phase = "data", !.expect = limit]
    BY <1>3 DEF ReadStatus
  <2> DEFINE g == [guest EXCEPT !.phase = "data"]
  <2>2. guest' = [g EXCEPT !.expect = limit]
    BY <2>1
  <2>3. /\ g \in Guest /\ g.phase = "data" /\ g.op = guest.op /\ g.first = guest.first /\ g.got = guest.got
        /\ g.bytes = guest.bytes /\ g.told = guest.told
    BY <1>1 DEF Guest
  <2> HIDE DEF g
  <2>4. /\ guest' \in Guest /\ guest'.phase = "data" /\ guest'.op = guest.op /\ guest'.first = guest.first
        /\ guest'.got = guest.got /\ guest'.bytes = guest.bytes /\ guest'.told = guest.told /\ guest'.expect = limit
    <3>1. limit \in Int
      BY <1>1, Params
    <3> QED
      BY <2>2, <2>3, <3>1 DEF Guest
  <2>5. Flow
    BY <1>1, <1>3 DEF CdInv, Moving
  <2>6. Left' = Left /\ UNCHANGED <<status, reason, limit, sense, reply, transfer>>
    BY DEF Left, ReadStatus, transfer
  <2>7. Flow'
    BY <1>1, <2>4, <2>5, <2>6 DEF Flow, reply, transfer
  <2>8. TypeOK'
    BY <1>2, <2>4 DEF TypeOK, DriveOK
  <2> QED
    BY <1>3, <2>4, <2>6, <2>7, <2>8 DEF CdInv, ReadsComplete, sense
<1>4. CASE "DRQ" \notin status
  <2>1. guest' = [guest EXCEPT !.phase = "idle", !.op = "none"]
    BY <1>4 DEF ReadStatus
  <2>2. guest' \in Guest /\ guest'.phase = "idle" /\ guest'.told = guest.told
    BY <1>1, <2>1 DEF Guest
  <2>3. guest'.told = 0 => cdrom_changed' = 1
    BY <2>2 DEF CdInv, ReadStatus, sense
  <2> QED
    BY <1>2, <2>2, <2>3, QuietStep
<1> QED
  BY <1>3, <1>4

\* The guest's record after it has moved len bytes.
GuestMoved(len, phase) == [guest EXCEPT !.got = @ + len, !.expect = @ - len, !.phase = phase]

\* Its fields.
LEMMA GuestRead ==
  ASSUME guest \in Guest, NEW len \in Int, NEW phase \in {"data", "wait"},
         guest' = GuestMoved(len, phase)
  PROVE  /\ guest' \in Guest /\ guest'.phase = phase /\ guest'.op = guest.op /\ guest'.first = guest.first
         /\ guest'.bytes = guest.bytes /\ guest'.told = guest.told
         /\ guest'.got = guest.got + len /\ guest'.expect = guest.expect - len
<1> DEFINE g1 == [guest EXCEPT !.got = guest.got + len]
           g2 == [g1 EXCEPT !.expect = guest.expect - len]
           g3 == [g2 EXCEPT !.phase = phase]
<1>1. guest' = g3
  BY DEF GuestMoved
<1>2. /\ g1 \in Guest /\ g1.op = guest.op /\ g1.first = guest.first /\ g1.bytes = guest.bytes
      /\ g1.told = guest.told /\ g1.got = guest.got + len
  BY DEF Guest
<1> HIDE DEF g1
<1>3. guest.expect - len \in Int
  BY DEF Guest
<1>4. /\ g2 \in Guest /\ g2.op = guest.op /\ g2.first = guest.first /\ g2.bytes = guest.bytes
      /\ g2.told = guest.told /\ g2.got = guest.got + len /\ g2.expect = guest.expect - len
  BY <1>2, <1>3 DEF Guest
<1> HIDE DEF g2
<1>5. /\ g3 \in Guest /\ g3.op = guest.op /\ g3.first = guest.first /\ g3.bytes = guest.bytes
      /\ g3.told = guest.told /\ g3.got = guest.got + len /\ g3.expect = guest.expect - len /\ g3.phase = phase
  BY <1>4 DEF Guest
<1> HIDE DEF g3
<1> QED
  BY <1>1, <1>5

\* A part of what is ready is moved.
LEMMA ReadSome ==
  ASSUME CdInv, guest.phase = "data", NEW len \in 2 .. Lesser(Left, guest.expect), len % 2 = 0, len < Left,
         data_index' = data_index + len, UNCHANGED <<regs, sense, reply, data_end, end_transfer_func>>,
         guest' = [guest EXCEPT !.got = @ + len, !.expect = @ - len,
                     !.phase = IF len < guest.expect /\ "DRQ" \in status' THEN "data" ELSE "wait"]
  PROVE  CdInv'
<1>1. DriveOK /\ guest \in Guest /\ "DRQ" \in status /\ Flow
  BY TypeParts DEF CdInv, Moving
<1>2. /\ data_index \in Nat /\ data_end \in Nat /\ elementary_transfer_size \in Nat /\ Left = data_end - data_index
      /\ packet_transfer_size \in Int /\ held \in Int
  BY <1>1, Params DEF DriveOK, Left
<1>3. Left \in Int /\ guest.expect = Left + elementary_transfer_size /\ guest.expect \in Int /\ Left % 2 = 0
  BY <1>1, <1>2 DEF Flow, Guest
<1>4. len \in Nat /\ len >= 2 /\ len < guest.expect
  BY <1>2, <1>3 DEF Lesser
<1>5. status' = status /\ limit' = limit /\ irq' = irq /\ sense_key' = sense_key /\ cdrom_changed' = cdrom_changed
  BY DEF regs, sense
<1>6. guest' = GuestMoved(len, "data") /\ len \in Int
  BY <1>1, <1>4, <1>5 DEF GuestMoved
<1>7. /\ guest' \in Guest /\ guest'.phase = "data" /\ guest'.op = guest.op /\ guest'.first = guest.first
      /\ guest'.bytes = guest.bytes /\ guest'.told = guest.told
      /\ guest'.got = guest.got + len /\ guest'.expect = guest.expect - len
  BY <1>1, <1>6, GuestRead
<1>8. DriveOK'
  <2>1. data_index + len \in 0 .. data_end
    BY <1>2, <1>3, <1>4
  <2> QED
    BY <1>1, <2>1 DEF DriveOK, regs, sense, reply
<1>9. Left' = Left - len
  BY <1>2, <1>4 DEF Left
<1>10. Left - len >= 2 /\ (Left - len) % 2 = 0
  BY <1>3, <1>4
<1>11. guest.expect - len = (Left - len) + elementary_transfer_size
  BY <1>2, <1>3, <1>4
<1>12. guest.got \in Int /\ guest.bytes \in Int /\ guest.first \in Int
  BY <1>1 DEF Guest
<1>13. guest.got + Left + packet_transfer_size = (guest.got + len) + (Left - len) + packet_transfer_size
  BY <1>2, <1>3, <1>4, <1>12
<1>14. /\ held * SectorBytes + data_index = guest.first * SectorBytes + guest.got
          => held * SectorBytes + (data_index + len) = guest.first * SectorBytes + (guest.got + len)
  <2>1. held * SectorBytes \in Int /\ guest.first * SectorBytes \in Int
    BY <1>2, <1>12, Params
  <2>2. \A a, b \in Int : a + data_index = b + guest.got => a + (data_index + len) = b + (guest.got + len)
    BY <1>2, <1>4, <1>12
  <2> QED
    BY <2>1, <2>2, Zenon
<1>15. Flow'
  <2>1. /\ data_end' = data_end /\ io_buffer_index' = io_buffer_index /\ lba' = lba /\ held' = held
        /\ packet_transfer_size' = packet_transfer_size /\ elementary_transfer_size' = elementary_transfer_size
        /\ cd_sector_size' = cd_sector_size
    BY DEF reply
  <2>2. guest'.expect = Left' + elementary_transfer_size'
    BY <1>7, <1>9, <1>11, <2>1
  <2>3. \/ /\ guest'.op = "read"
           /\ lba' = held' + 1 /\ held' >= 0 /\ cd_sector_size' = SectorBytes
           /\ held' * SectorBytes + data_index' = guest'.first * SectorBytes + guest'.got
           /\ guest'.bytes < IntLimit => guest'.got + Left' + packet_transfer_size' = guest'.bytes
        \/ /\ guest'.op = "other"
           /\ lba' = -1 /\ elementary_transfer_size' = 0
           /\ io_buffer_index' + packet_transfer_size' <= SectorBytes
    <3>1. CASE guest.op = "read"
      <4>1. /\ lba = held + 1 /\ held >= 0 /\ cd_sector_size = SectorBytes
            /\ held * SectorBytes + data_index = guest.first * SectorBytes + guest.got
            /\ guest.bytes < IntLimit => guest.got + Left + packet_transfer_size = guest.bytes
        BY <1>1, <3>1 DEF Flow
      <4>2. held' * SectorBytes + data_index' = guest'.first * SectorBytes + guest'.got
        BY <1>7, <1>14, <2>1, <4>1
      <4>3. guest'.bytes < IntLimit => guest'.got + Left' + packet_transfer_size' = guest'.bytes
        BY <1>7, <1>9, <1>13, <2>1, <4>1
      <4> QED
        BY <1>7, <2>1, <3>1, <4>1, <4>2, <4>3
    <3>2. CASE guest.op # "read"
      BY <1>1, <1>7, <2>1, <3>2 DEF Flow
    <3> QED
      BY <3>1, <3>2
  <2>4. /\ Left' >= 2 /\ Left' % 2 = 0 /\ data_end' = io_buffer_index' /\ io_buffer_index' % 2 = 0
        /\ io_buffer_index' <= SectorBytes
        /\ packet_transfer_size' >= elementary_transfer_size'
        /\ packet_transfer_size' % 2 = 0 /\ elementary_transfer_size' % 2 = 0
        /\ limit' >= 2
    BY <1>1, <1>5, <1>9, <1>10, <2>1 DEF Flow
  <2> QED
    BY <1>7, <2>2, <2>3, <2>4 DEF Flow
<1>16. TypeOK'
  BY <1>7, <1>8 DEF TypeOK, DriveOK
<1> QED
  BY <1>1, <1>5, <1>7, <1>15, <1>16 DEF CdInv, ReadsComplete

\* The last word that is ready is moved, and the drive goes on.
LEMMA ReadRest ==
  ASSUME CdInv, guest.phase = "data", NEW len \in 2 .. Lesser(Left, guest.expect), len = Left, ReplyEnd(Now),
         guest' = [guest EXCEPT !.got = @ + len, !.expect = @ - len,
                     !.phase = IF len < guest.expect /\ "DRQ" \in status' THEN "data" ELSE "wait"]
  PROVE  CdInv'
<1> DEFINE r == Now
           phase == IF len < guest.expect /\ "DRQ" \in status' THEN "data" ELSE "wait"
<1>1. DriveOK /\ guest \in Guest /\ Flow /\ (guest.told = 0 => cdrom_changed = 1)
  BY TypeParts DEF CdInv, Moving
<1>2. /\ data_index \in Nat /\ data_end \in Nat /\ elementary_transfer_size \in Nat /\ Left = data_end - data_index
      /\ packet_transfer_size \in Int /\ held \in Int /\ io_buffer_index \in Nat /\ cd_sector_size \in Nat /\ lba \in Int
  BY <1>1, Params DEF DriveOK, Left
<1>3. Left \in Int /\ guest.expect = Left + elementary_transfer_size /\ guest.expect \in Int /\ limit >= 2
  BY <1>1, <1>2 DEF Flow, Guest
<1>4. len \in Nat /\ len >= 2 /\ len \in Int /\ guest.expect - len = elementary_transfer_size
      /\ (len < guest.expect <=> elementary_transfer_size > 0)
  BY <1>2, <1>3 DEF Lesser
<1>5. phase \in {"data", "wait"} /\ guest' = GuestMoved(len, phase)
  BY DEF GuestMoved
<1>6. phase = IF elementary_transfer_size > 0 /\ "DRQ" \in status' THEN "data" ELSE "wait"
  BY <1>4
<1> HIDE DEF phase
<1>7. /\ guest' \in Guest /\ guest'.phase = phase /\ guest'.op = guest.op /\ guest'.first = guest.first
      /\ guest'.bytes = guest.bytes /\ guest'.told = guest.told
      /\ guest'.got = guest.got + len /\ guest'.expect = elementary_transfer_size
  BY <1>1, <1>4, <1>5, GuestRead
<1>8. /\ r \in ReplySet /\ r.left = packet_transfer_size /\ r.part = elementary_transfer_size
      /\ r.index = io_buffer_index /\ r.next = lba /\ r.size = cd_sector_size /\ r.sector = held
  BY <1>2 DEF Now, Reply, ReplySet
<1>9. ReplyEnd(r)
  OBVIOUS
<1> HIDE DEF r
<1>10. Fits(r)
  BY <1>1, <1>8 DEF DriveOK, Fits
<1>11. /\ r.left % 2 = 0 /\ r.part % 2 = 0 /\ r.index % 2 = 0 /\ (r.left > 0 => r.part <= r.left /\ limit >= 2)
       /\ r.left >= 0 /\ r.index <= SectorBytes /\ data_end = io_buffer_index
  BY <1>1, <1>2, <1>3, <1>8 DEF Flow
<1>12. guest.got \in Int /\ guest.bytes \in Int /\ guest.first \in Int
  BY <1>1 DEF Guest
<1>13. CASE guest.op = "read"
  <2>1. /\ lba = held + 1 /\ held >= 0 /\ cd_sector_size = SectorBytes
        /\ held * SectorBytes + data_index = guest.first * SectorBytes + guest.got
        /\ guest.bytes < IntLimit => guest.got + Left + packet_transfer_size = guest.bytes
    BY <1>1, <1>13 DEF Flow
  <2>2. /\ r.size = SectorBytes /\ r.next \in Nat /\ (r.index < SectorBytes => r.sector = r.next - 1 /\ r.sector >= 0)
        /\ r.next - 1 = held
    BY <1>2, <1>8, <2>1
  <2>3. DriveOK' /\ UNCHANGED cdrom_changed /\ (ReadFailed \/ ReadOver(r) \/ ReadMore(r))
    BY <1>1, <1>8, <1>9, <1>10, <1>11, <2>2, ReadEffect
  <2>4. TypeOK'
    BY <1>7, <2>3 DEF TypeOK, DriveOK
  <2>5. guest'.told = 0 => cdrom_changed' = 1
    BY <1>1, <1>7, <2>3
  <2>6. CASE ReadFailed
    <3>1. "DRQ" \notin status' /\ "ERR" \in status' /\ irq' = 1
      BY <2>6 DEF ReadFailed
    <3>2. phase = "wait"
      BY <1>6, <3>1
    <3> QED
      BY <1>7, <2>4, <2>5, <3>1, <3>2 DEF CdInv, Moving, ReadsComplete
  <2>7. CASE ReadOver(r)
    <3>1. "DRQ" \notin status' /\ irq' = 1 /\ packet_transfer_size = 0
      BY <1>2, <1>8, <1>11, <2>7 DEF ReadOver
    <3>2. phase = "wait"
      BY <1>6, <3>1
    <3>3. guest.bytes < IntLimit => guest.got + len = guest.bytes
      BY <1>3, <1>4, <1>12, <2>1, <3>1
    <3>4. guest'.got = guest'.bytes \/ guest'.bytes >= IntLimit
      BY <1>7, <1>12, <3>3, Params
    <3> QED
      BY <1>7, <2>4, <2>5, <3>1, <3>2, <3>4 DEF CdInv, Moving, ReadsComplete
  <2>8. CASE ReadMore(r)
    <3>1. PICK part \in 2 .. r.left : \E size \in 2 .. part : ReadPart(r, part, size)
      BY <2>8 DEF ReadMore
    <3>2. PICK size \in 2 .. part : ReadPart(r, part, size)
      BY <3>1
    <3>3. "DRQ" \in status'
      BY <2>8 DEF ReadMore
    <3>4. /\ Left' = size /\ size \in Nat /\ part \in Nat /\ r.left \in Int
          /\ Left' >= 2 /\ Left' % 2 = 0 /\ data_end' = io_buffer_index' /\ io_buffer_index' % 2 = 0
          /\ io_buffer_index' <= SectorBytes
          /\ packet_transfer_size' >= elementary_transfer_size'
          /\ packet_transfer_size' % 2 = 0 /\ elementary_transfer_size' % 2 = 0
          /\ Left' + elementary_transfer_size' = part
          /\ packet_transfer_size' = r.left - size
      BY <1>8, <1>11, <3>2, ReadPartFlow DEF ReadPart
    <3>5. \/ elementary_transfer_size > 0 /\ part = elementary_transfer_size /\ limit' = limit
          \/ elementary_transfer_size = 0 /\ part = limit' /\ limit' \in 2 .. ByteLimit /\ irq' = 1
      BY <1>8, <3>2 DEF ReadPart
    <3>6. limit' >= 2 /\ (phase = "wait" => irq' = 1)
          /\ (phase = "data" => guest'.expect = Left' + elementary_transfer_size')
          /\ (phase = "wait" => limit' = Left' + elementary_transfer_size')
      <4>1. CASE elementary_transfer_size > 0
        BY <1>3, <1>6, <1>7, <3>3, <3>4, <3>5, <4>1
      <4>2. CASE elementary_transfer_size = 0
        BY <1>6, <3>4, <3>5, <4>2
      <4> QED
        BY <1>2, <4>1, <4>2
    <3>7. held' * SectorBytes + data_index' = guest'.first * SectorBytes + guest'.got
      <4>1. held' * SectorBytes + data_index' = held * SectorBytes + io_buffer_index
        BY <1>8, <2>2, <3>2 DEF ReadPart
      <4>2. io_buffer_index = data_index + len
        BY <1>2, <1>11
      <4>3. held * SectorBytes + (data_index + len) = guest.first * SectorBytes + (guest.got + len)
        <5>1. held * SectorBytes \in Int /\ guest.first * SectorBytes \in Int
          BY <1>2, <1>12, Params
        <5>2. \A a, b \in Int : a + data_index = b + guest.got => a + (data_index + len) = b + (guest.got + len)
          BY <1>2, <1>4, <1>12
        <5> QED
          BY <2>1, <5>1, <5>2, Zenon
      <4> QED
        BY <1>7, <4>1, <4>2, <4>3
    <3>8. guest'.bytes < IntLimit => guest'.got + Left' + packet_transfer_size' = guest'.bytes
      <4>1. (guest.got + len) + size + (packet_transfer_size - size) = guest.got + Left + packet_transfer_size
        BY <1>2, <1>3, <1>4, <1>12, <3>4
      <4>2. guest'.got + Left' + packet_transfer_size' = guest.got + Left + packet_transfer_size
        BY <1>7, <1>8, <3>4, <4>1
      <4> QED
        BY <1>7, <2>1, <4>2
    <3>9. lba' = held' + 1 /\ held' >= 0 /\ cd_sector_size' = SectorBytes
      BY <3>2 DEF ReadPart
    <3>10. Flow'
      BY <1>7, <1>13, <3>4, <3>6, <3>7, <3>8, <3>9 DEF Flow
    <3>11. phase \in {"data", "wait"}
      BY <1>5
    <3> QED
      BY <1>7, <2>4, <2>5, <3>3, <3>6, <3>10, <3>11 DEF CdInv, ReadsComplete
  <2> QED
    BY <2>3, <2>6, <2>7, <2>8
<1>14. CASE guest.op = "other" /\ lba = -1 /\ elementary_transfer_size = 0
            /\ io_buffer_index + packet_transfer_size <= SectorBytes
  <2>1. Go(r) /\ UNCHANGED sense /\ r.part = 0 /\ r.next = -1 /\ r.index + r.left <= SectorBytes
    BY <1>8, <1>9, <1>14 DEF ReplyEnd, NeedsSector
  <2>2. sense_key' \in Senses /\ cdrom_changed' \in {0, 1} /\ cdrom_changed' = cdrom_changed
    BY <1>1, <2>1 DEF DriveOK, sense
  <2>3. DriveOK' /\ (ReadOver(r) \/ OtherMore(r))
    BY <1>1, <1>3, <1>8, <1>10, <1>11, <2>1, <2>2, OtherEffect
  <2>4. TypeOK' /\ (guest'.told = 0 => cdrom_changed' = 1) /\ phase = "wait" /\ guest'.op = "other"
    BY <1>1, <1>6, <1>7, <1>14, <2>2, <2>3 DEF TypeOK, DriveOK
  <2>5. CASE ReadOver(r)
    <3>1. "DRQ" \notin status' /\ irq' = 1
      BY <2>5 DEF ReadOver
    <3> QED
      BY <1>7, <2>4, <3>1 DEF CdInv, Moving, ReadsComplete
  <2>6. CASE OtherMore(r)
    <3>1. irq' = 1
      BY <2>6 DEF OtherMore
    <3>2. Flow' /\ ReadsComplete'
      BY <1>7, <1>8, <1>11, <2>1, <2>4, <2>6, OtherFlow
    <3> QED
      BY <1>7, <2>4, <3>1, <3>2 DEF CdInv
  <2> QED
    BY <2>3, <2>5, <2>6
<1> QED
  BY <1>1, <1>13, <1>14 DEF Flow

\* The steps that start no reply and end none.
LEMMA QuietSteps ==
  ASSUME CdInv, StartPacket \/ Identify \/ ReadIdentify \/ DeviceReset \/ Refused \/ SoftReset
  PROVE  CdInv'
<1>1. DriveOK /\ guest \in Guest /\ (guest.told = 0 => cdrom_changed = 1)
  BY TypeParts DEF CdInv
<1>2. Signature \in 0 .. ByteLimit /\ (\A l \in Limits : l \in 0 .. ByteLimit /\ l >= 2)
  BY AtapiAssumption, Params DEF Signature
<1>3. guest.commands < MaxCommands => guest.commands + 1 \in 0 .. MaxCommands
  BY <1>1, Params DEF Guest
<1>4. ASSUME NEW phase \in {"idle", "reset"}, guest' = Abandoned(phase)
      PROVE  guest' \in Guest /\ guest'.phase \in {"idle", "reset"} /\ guest'.told = guest.told
  BY <1>1, <1>4 DEF Abandoned, Guest
<1>5. CASE StartPacket
  <2>1. DriveOK'
    BY <1>1, <1>2, <1>5, Params DEF StartPacket, Start, DriveOK, sense, reply
  <2>2. guest' \in Guest /\ guest'.phase = "packet" /\ guest'.told = guest.told
    BY <1>1, <1>3, <1>5 DEF StartPacket, Guest
  <2>3. limit' >= 2 /\ cdrom_changed' = cdrom_changed
    BY <1>2, <1>5 DEF StartPacket, sense
  <2> QED
    BY <1>1, <2>1, <2>2, <2>3, QuietStep
<1>6. CASE Identify
  <2>1. DriveOK' /\ cdrom_changed' = cdrom_changed
    BY <1>1, <1>6, Params DEF Identify, Start, DriveOK, sense
  <2>2. guest' \in Guest /\ guest'.phase = "identify" /\ guest'.told = guest.told
    BY <1>1, <1>3, <1>6 DEF Identify, Guest
  <2> QED
    BY <1>1, <2>1, <2>2, QuietStep
<1>7. CASE ReadIdentify
  <2>1. DriveOK' /\ cdrom_changed' = cdrom_changed
    BY <1>1, <1>7, Params DEF ReadIdentify, Stop, DriveOK, sense, reply
  <2>2. guest' \in Guest /\ guest'.phase = "idle" /\ guest'.told = guest.told
    BY <1>1, <1>7 DEF ReadIdentify, Guest
  <2> QED
    BY <1>1, <2>1, <2>2, QuietStep
<1>8. CASE DeviceReset
  <2>1. DriveOK' /\ cdrom_changed' = cdrom_changed
    BY <1>1, <1>2, <1>8 DEF DeviceReset, DriveOK, sense, reply, transfer
  <2>2. guest' \in Guest /\ guest'.phase \in {"idle", "reset"} /\ guest'.told = guest.told
    BY <1>4, <1>8 DEF DeviceReset
  <2> QED
    BY <1>1, <2>1, <2>2, QuietStep
<1>9. CASE Refused
  <2>1. DriveOK' /\ cdrom_changed' = cdrom_changed
    BY <1>1, <1>2, <1>9 DEF Refused, DriveOK, sense, reply, transfer
  <2>2. guest' \in Guest /\ guest'.phase = "idle" /\ guest'.told = guest.told
    BY <1>1, <1>9 DEF Refused
  <2> QED
    BY <1>1, <2>1, <2>2, QuietStep
<1>10. CASE SoftReset
  <2>1. DriveOK' /\ cdrom_changed' = cdrom_changed
    BY <1>1, <1>2, <1>10 DEF SoftReset, DriveOK, sense, reply, transfer
  <2>2. guest' \in Guest /\ guest'.phase \in {"idle", "reset"} /\ guest'.told = guest.told
    BY <1>4, <1>10 DEF SoftReset
  <2> QED
    BY <1>1, <2>1, <2>2, QuietStep
<1> QED
  BY <1>5, <1>6, <1>7, <1>8, <1>9, <1>10

\* The disc is changed, in the middle of whatever goes on.
LEMMA ChangeCdStep == ASSUME CdInv, ChangeCd PROVE CdInv'
<1>1. DriveOK /\ guest \in Guest
  BY TypeParts DEF CdInv
<1>2. /\ guest' \in Guest /\ guest'.phase = guest.phase /\ guest'.op = guest.op /\ guest'.first = guest.first
      /\ guest'.got = guest.got /\ guest'.bytes = guest.bytes /\ guest'.expect = guest.expect
  BY <1>1 DEF ChangeCd, Guest
<1>3. DriveOK' /\ cdrom_changed' = 1 /\ irq' = 1
  BY <1>1 DEF ChangeCd, DriveOK, Senses, reply, transfer
<1>4. TypeOK'
  BY <1>2, <1>3 DEF TypeOK, DriveOK
<1>5. UNCHANGED <<status, reason, limit, reply, transfer>> /\ Left' = Left
  BY DEF ChangeCd, Left, transfer
<1>6. (Moving' <=> Moving) /\ (Flow' <=> Flow)
  BY <1>2, <1>5 DEF Moving, Flow, reply, transfer
<1>7. ReadsComplete'
  BY <1>2, <1>5 DEF CdInv, ReadsComplete
<1> QED
  BY <1>2, <1>3, <1>4, <1>5, <1>6, <1>7 DEF CdInv

\* The invariant holds at first and is kept.
LEMMA CdInvariant == Spec => []CdInv
<1>1. Init => CdInv
  <2> SUFFICES ASSUME Init PROVE CdInv
    OBVIOUS
  <2>1. guest \in Guest /\ guest.phase = "idle" /\ guest.told = 1
    BY Params DEF Init, Guest
  <2>2. DriveOK
    BY Params DEF Init, DriveOK, Senses, Signature
  <2>3. TypeOK
    BY <2>1, <2>2, TypeParts
  <2> QED
    BY <2>1, <2>3 DEF CdInv, Moving, ReadsComplete
<1>2. CdInv /\ [Next]_vars => CdInv'
  <2> SUFFICES ASSUME CdInv, [Next]_vars PROVE CdInv'
    OBVIOUS
  <2>1. CASE ReadData
    <3>1. PICK len \in 2 .. Lesser(Left, guest.expect) :
       /\ len % 2 = 0
       /\ \/ len < Left /\ data_index' = data_index + len
             /\ UNCHANGED <<regs, sense, reply, data_end, end_transfer_func>>
          \/ len = Left /\ ReplyEnd(Now)
       /\ guest' = [guest EXCEPT !.got = @ + len, !.expect = @ - len,
                      !.phase = IF len < guest.expect /\ "DRQ" \in status'
                                THEN "data" ELSE "wait"]
      BY <2>1 DEF ReadData
    <3>2. guest.phase = "data"
      BY <2>1 DEF ReadData
    <3> QED
      BY <3>1, <3>2, ReadSome, ReadRest
  <2>2. CASE UNCHANGED vars
    <3>1. UNCHANGED <<regs, sense, reply, transfer, guest>> /\ Left' = Left
      BY <2>2 DEF vars, Left, transfer
    <3>2. TypeOK' /\ (Moving' <=> Moving) /\ (Flow' <=> Flow) /\ (ReadsComplete' <=> ReadsComplete)
      BY <3>1 DEF CdInv, TypeOK, Moving, Flow, ReadsComplete, regs, sense, reply, transfer
    <3> QED
      BY <3>1, <3>2 DEF CdInv, regs, sense
  <2> QED
    BY <2>1, <2>2, SendPacketStep, ReadStatusStep, QuietSteps, ChangeCdStep DEF Next
<1> QED
  BY <1>1, <1>2, PTL DEF Spec

-----------------------------------------------------------------------------
(***************************************************************************)
(* The results.                                                            *)
(***************************************************************************)
\* The drive keeps its types, has exactly as many bytes to come as the byte count announced, and
\* wakes a guest that waits (ide_atapi_cmd_reply_end): for every limit, even or odd, and every
\* place where sector ends cut the announced part.
THEOREM PartsAreAsAnnounced == Spec => []AsAnnounced
<1>1. CdInv => AsAnnounced
  BY DEF CdInv, AsAnnounced, Moving, Flow
<1> QED
  BY <1>1, CdInvariant, PTL

\* What a read has ready is the byte of the disc it has come to (cd_read_sector,
\* ide_atapi_cmd_reply_end), whatever was aborted, reset or changed before.
THEOREM ReadBytesAreInPlace == Spec => []BytesInPlace
<1>1. CdInv => BytesInPlace
  BY DEF CdInv, BytesInPlace, Moving, Flow
<1> QED
  BY <1>1, CdInvariant, PTL

\* A read that ends without an error has delivered every byte it was asked for, unless the
\* number of bytes does not fit an int (ide_atapi_cmd_read_pio).
THEOREM ReadsAreComplete == Spec => []ReadsComplete
<1>1. CdInv => ReadsComplete
  BY DEF CdInv
<1> QED
  BY <1>1, CdInvariant, PTL

\* A change of the disc is kept until the guest has been told (ide_change_cd).
THEOREM ChangesAreReported == Spec => []ChangeIsReported
<1>1. CdInv => ChangeIsReported
  BY DEF CdInv, ChangeIsReported
<1> QED
  BY <1>1, CdInvariant, PTL
==============================================================================
