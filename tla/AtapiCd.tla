------------------------------- MODULE AtapiCd -------------------------------
(***************************************************************************)
(* The CD-ROM drive of an IDE channel (ide.c): the PACKET command, the     *)
(* commands ide_atapi_cmd takes, the chopping of a reply into transfers of *)
(* at most the byte count limit (ide_atapi_cmd_reply_end), and the change  *)
(* of the disc from the menu (ide_change_cd).                              *)
(*                                                                         *)
(* Sizes are bytes, the data port moves words of two.  Of io_buffer only   *)
(* the disc sector it holds is kept, what a reply says is left out.  The   *)
(* registers lcyl and hcyl are one number, the byte count; of nsector only *)
(* the interrupt reason is kept.                                           *)
(***************************************************************************)
EXTENDS Integers

CONSTANTS
  DiscSectors,   \* sectors of the disc image, 0 for an empty one
  SectorBytes,   \* 2048
  RawBytes,      \* 2352
  PacketBytes,   \* ATAPI_PACKET_SIZE
  ByteLimit,     \* 0xffff, the largest byte count
  IntLimit,      \* 2^31: packet_transfer_size is an int
  Limits,        \* byte count limits the guest uses
  ReplySizes,    \* sizes of the replies that are no sectors
  Counts,        \* sector counts the guest asks for
  IoMayFail,     \* the block device may refuse a call it could serve
  MaxCommands    \* bound: packets a guest sends

ASSUME AtapiAssumption ==
  /\ DiscSectors \in Nat /\ SectorBytes \in Nat \ {0} /\ PacketBytes \in Nat \ {0}
  /\ RawBytes \in Nat /\ RawBytes > SectorBytes /\ SectorBytes % 2 = 0 /\ PacketBytes % 2 = 0
  /\ PacketBytes <= SectorBytes
  /\ ByteLimit \in Nat /\ ByteLimit > 2 /\ IntLimit \in Nat /\ IntLimit > SectorBytes
  /\ \A l \in Limits : l \in 2 .. ByteLimit
  /\ \A r \in ReplySizes : r % 2 = 0 /\ r \in 2 .. SectorBytes
  /\ Counts \subseteq Nat \ {0}
  /\ IoMayFail \in BOOLEAN /\ MaxCommands \in Nat

VARIABLES
  status, reason,            \* registers
  limit,                     \* lcyl and hcyl
  irq,                       \* level of the channel's interrupt line
  sense_key, cdrom_changed,
  packet_transfer_size,      \* bytes of the reply still to be started
  elementary_transfer_size,  \* of these, bytes of the announced part
  io_buffer_index,           \* bytes of io_buffer already started
  lba,                       \* next sector to read, -1 for a reply without sectors
  cd_sector_size,
  data_index, data_end, end_transfer_func,
  held,                      \* the disc sector io_buffer holds, -1 for none
  guest                      \* what the guest is doing

regs     == <<status, reason, limit, irq>>
sense    == <<sense_key, cdrom_changed>>
reply    == <<packet_transfer_size, elementary_transfer_size, io_buffer_index, lba,
              cd_sector_size, held>>
transfer == <<data_index, data_end, end_transfer_func>>
vars     == <<regs, sense, reply, transfer, guest>>

Senses == {"none", "not_ready", "illegal", "attention"}

Guest == [phase : {"idle", "packet", "wait", "data", "identify", "reset"}, op : {"none", "read", "other"},
          first : Int, bytes : Int, got : Int, expect : Int,
          told : {0, 1}, commands : 0 .. MaxCommands]

TypeOK ==
  /\ status \subseteq {"BSY", "DRDY", "DSC", "DRQ", "ERR"}
  /\ reason \in {"none", "cd", "io", "io_cd"}
  /\ limit \in 0 .. ByteLimit
  /\ irq \in {0, 1}
  /\ sense_key \in Senses /\ cdrom_changed \in {0, 1}
  /\ packet_transfer_size \in -IntLimit .. IntLimit - 1
  /\ elementary_transfer_size \in 0 .. ByteLimit
  /\ io_buffer_index \in 0 .. RawBytes
  /\ lba \in Int /\ cd_sector_size \in {0, SectorBytes, RawBytes}
  /\ data_index \in 0 .. data_end /\ data_end \in 0 .. SectorBytes
  /\ end_transfer_func \in {"stop", "packet", "reply"}
  /\ held \in -1 .. DiscSectors - 1
  /\ guest \in Guest

\* ide_set_signature: 0xeb14 in lcyl and hcyl, a byte count no reply has.
Signature == ByteLimit - 1

\* ide_cddrive_init; nothing sets nb_sectors, sense_key or cdrom_changed there.
Init ==
  /\ status = {"DRDY", "DSC"} /\ reason = "cd" /\ limit = Signature /\ irq = 0
  /\ sense_key = "none" /\ cdrom_changed = 0
  /\ packet_transfer_size = 0 /\ elementary_transfer_size = 0 /\ io_buffer_index = 0
  /\ lba = 0 /\ cd_sector_size = 0
  /\ data_index = 0 /\ data_end = 0 /\ end_transfer_func = "stop"
  /\ held = -1
  /\ guest = [phase |-> "idle", op |-> "none", first |-> 0, bytes |-> 0, got |-> 0,
              expect |-> 0, told |-> 1, commands |-> 0]

Lesser(a, b) == IF a < b THEN a ELSE b

\* A product of two C ints.
Wrap(x) == ((x + IntLimit) % (2 * IntLimit)) - IntLimit

(***************************************************************************)
(* How a command ends                                                      *)
(***************************************************************************)
\* ide_atapi_cmd_ok, ide_atapi_cmd_error and ide_atapi_cmd_check_status.
CmdOk ==
  /\ status' = {"DRDY", "DSC"} /\ reason' = "io_cd" /\ irq' = 1
  /\ UNCHANGED <<limit, sense, reply, transfer>>

CmdError(key) ==
  /\ status' = {"DRDY", "ERR"} /\ reason' = "io_cd" /\ irq' = 1
  /\ sense_key' = key
  /\ UNCHANGED <<limit, reply, transfer>>

CheckStatus ==
  /\ status' = {"ERR"} /\ reason' = "none" /\ irq' = 1
  /\ UNCHANGED <<limit, sense, reply, transfer>>

\* ide_transfer_start2, in a status without ERR, and ide_transfer_stop2.
Start(off, size, func) ==
  /\ data_index' = off /\ data_end' = off + size
  /\ end_transfer_func' = func

Stop == data_index' = 0 /\ data_end' = 0 /\ end_transfer_func' = "stop"

(***************************************************************************)
(* ide_atapi_cmd_reply_end.  r is the reply as it stands: the bytes left,  *)
(* those of the announced part, the place in the buffer, the next sector,  *)
(* the sector size and the sector held.                                    *)
(***************************************************************************)
Reply(left, part, index, next, size, sector) ==
  [left |-> left, part |-> part, index |-> index, next |-> next, size |-> size,
   sector |-> sector]

Now == Reply(packet_transfer_size, elementary_transfer_size, io_buffer_index, lba,
             cd_sector_size, held)

Keep(r) ==
  /\ packet_transfer_size' = r.left /\ elementary_transfer_size' = r.part
  /\ io_buffer_index' = r.index /\ lba' = r.next /\ cd_sector_size' = r.size
  /\ held' = r.sector

\* Mutant: the next sector is read when the buffer is still half full.
NeedsSector_Early(r) == r.next # -1 /\ 2 * r.index >= r.size

NeedsSector(r) == r.next # -1 /\ r.index >= r.size

\* cd_read_sector: only the 2048-byte form, and only sectors of the disc.
Readable(r) == r.size = SectorBytes /\ r.next \in 0 .. DiscSectors - 1

\* The reply with size more bytes on their way.
Sent(r, size) ==
  [r EXCEPT !.left = @ - size, !.part = @ - size, !.index = @ + size]

\* Mutant: the limit stays odd.
Chunk_Odd(r) ==
  LET most == IF limit = ByteLimit THEN limit - 1 ELSE limit IN Lesser(r.left, most)

\* The bytes announced next; a limit that cuts the reply is made even.
Chunk(r) ==
  LET most == IF limit = ByteLimit THEN limit - 1 ELSE limit
  IN IF r.left > most THEN most - (most % 2) ELSE r.left

Finished(r) ==
  /\ r.left <= 0
  /\ Stop
  /\ status' = {"DRDY", "DSC"} /\ reason' = "io_cd" /\ irq' = 1
  /\ Keep(r)
  /\ UNCHANGED limit

\* The rest of the announced part, without an interrupt.
Continued(r) ==
  /\ r.left > 0 /\ ~NeedsSector(r) /\ r.part > 0
  /\ LET size == Lesser(r.size - r.index, r.part) IN
     Start(r.index, size, "reply") /\ Keep(Sent(r, size))
  /\ status' = {"DRDY", "DSC", "DRQ"}
  /\ UNCHANGED <<reason, limit, irq>>

\* The next part is announced; of it at most the rest of the sector is started.
Announced(r) ==
  /\ r.left > 0 /\ ~NeedsSector(r) /\ r.part <= 0
  /\ LET size == IF r.next # -1 THEN Lesser(Chunk(r), r.size - r.index) ELSE Chunk(r) IN
     /\ limit' = Chunk(r)
     /\ Start(r.index, size, "reply") /\ Keep(Sent([r EXCEPT !.part = Chunk(r)], size))
  /\ status' = {"DRDY", "DSC", "DRQ"} /\ reason' = "io" /\ irq' = 1

\* What follows once the sector that is needed has been read.
Go(r) == Finished(r) \/ Continued(r) \/ Announced(r)

ReplyEnd(r) ==
  \/ r.left > 0 /\ NeedsSector(r) /\ Readable(r) /\ UNCHANGED sense
       /\ Go([r EXCEPT !.next = @ + 1, !.index = 0, !.sector = r.next])
  \/ /\ r.left > 0 /\ NeedsSector(r) /\ (IoMayFail \/ ~Readable(r))
     /\ Stop
     /\ status' = {"DRDY", "ERR"} /\ reason' = "io_cd" /\ irq' = 1
     /\ sense_key' = "illegal"
     /\ Keep(r)
     /\ UNCHANGED <<limit, cdrom_changed>>
  \/ ~(r.left > 0 /\ NeedsSector(r)) /\ Go(r) /\ UNCHANGED sense

\* ide_atapi_cmd_reply: a reply of size bytes, of which the guest wants max.
CmdReply(size, max) == Go(Reply(Lesser(size, max), 0, 0, -1, cd_sector_size, -1))

\* Mutant: the count is taken for the last sector's number.
CmdRead_OneShort(first, n, size) ==
  ReplyEnd(Reply(Wrap((n - 1) * size), 0, size, first, size, held))

\* ide_atapi_cmd_read_pio: index at the end of a sector makes it read the first.
CmdRead(first, n, size) == ReplyEnd(Reply(Wrap(n * size), 0, size, first, size, held))

(***************************************************************************)
(* ide_atapi_cmd                                                           *)
(***************************************************************************)
TestUnitReady ==
  \/ cdrom_changed = 0 /\ CmdOk
  \/ cdrom_changed = 1 /\ CmdError("not_ready") /\ cdrom_changed' = 0

RequestSense(max) ==
  \E size \in ReplySizes :
    /\ CmdReply(size, max)
    /\ sense_key' = IF sense_key = "attention" THEN "none" ELSE sense_key
    /\ UNCHANGED cdrom_changed

\* INQUIRY, MODE SENSE, MECHANISM STATUS and GET CONFIGURATION.
Replies(max) == \E size \in ReplySizes : CmdReply(size, max) /\ UNCHANGED sense

\* READ TOC and READ CAPACITY need a disc.
DiscReplies(max) ==
  \/ DiscSectors = 0 /\ CmdError("not_ready") /\ UNCHANGED cdrom_changed
  \/ DiscSectors > 0 /\ Replies(max)

\* SEEK
Seek(first) ==
  \/ DiscSectors = 0 /\ CmdError("not_ready") /\ UNCHANGED cdrom_changed
  \/ DiscSectors > 0 /\ first >= DiscSectors /\ CmdError("illegal") /\ UNCHANGED cdrom_changed
  \/ DiscSectors > 0 /\ first < DiscSectors /\ CmdOk

\* The packet is complete: kind says which command it is.
Packet(kind, first, n, max) ==
  LET attention == sense_key = "attention" /\ kind \notin {"sense", "inquiry"} IN
  \/ attention /\ CheckStatus
  \/ ~attention /\ kind = "test"    /\ TestUnitReady
  \/ ~attention /\ kind = "sense"   /\ RequestSense(max)
  \/ ~attention /\ kind = "inquiry" /\ Replies(max)
  \/ ~attention /\ kind = "config"  /\ Replies(max)
  \/ ~attention /\ kind = "disc"    /\ DiscReplies(max)
  \/ ~attention /\ kind = "seek"    /\ Seek(first)
  \/ ~attention /\ kind = "ok"      /\ CmdOk
  \/ ~attention /\ kind = "bad"     /\ CmdError("illegal") /\ UNCHANGED cdrom_changed
  \/ ~attention /\ kind = "read"    /\ CmdRead(first, n, SectorBytes)
  \/ ~attention /\ kind = "raw"     /\ CmdRead(first, n, RawBytes)

(***************************************************************************)
(* The guest: PACKET, the packet, then the status and the data it          *)
(* announces, as often as the drive says.                                  *)
(***************************************************************************)
\* WIN_PACKETCMD, with a new byte count limit in lcyl and hcyl.
StartPacket ==
  /\ guest.phase = "idle" /\ guest.commands < MaxCommands
  /\ limit' \in Limits
  /\ status' = {"DRDY", "DSC", "DRQ"} /\ reason' = "cd" /\ irq' = 1
  /\ Start(0, PacketBytes, "packet")
  /\ guest' = [guest EXCEPT !.phase = "packet", !.commands = @ + 1]
  /\ UNCHANGED <<sense, reply>>

Kinds == {"test", "sense", "inquiry", "config", "disc", "seek", "ok", "bad", "read", "raw"}

SendPacket ==
  /\ guest.phase = "packet"
  /\ \E kind \in Kinds, first \in 0 .. DiscSectors, n \in Counts, max \in ReplySizes \cup {0} :
       /\ kind \notin {"read", "raw", "seek"} => first = 0
       /\ kind \notin {"read", "raw"} => \A m \in Counts : n <= m
       /\ kind \in {"test", "seek", "ok", "bad", "read", "raw"} => max = 0
       /\ Packet(kind, first, n, max)
       /\ guest' = [guest EXCEPT !.phase = "wait", !.got = 0, !.expect = 0, !.first = first,
                      !.op = IF kind = "read" THEN "read" ELSE "other",
                      !.bytes = IF kind = "read" THEN n * SectorBytes ELSE 0,
                      !.told = IF \/ sense_key = "attention" /\ kind # "inquiry"
                                  \/ kind = "test" /\ cdrom_changed = 1
                               THEN 1 ELSE guest.told]

\* The status, and the byte count when data is ready.
ReadStatus ==
  /\ guest.phase = "wait"
  /\ irq' = 0
  /\ guest' = IF "DRQ" \in status
              THEN [guest EXCEPT !.phase = "data", !.expect = limit]
              ELSE [guest EXCEPT !.phase = "idle", !.op = "none"]
  /\ UNCHANGED <<status, reason, limit, sense, reply, transfer>>

Left == data_end - data_index

\* Words are moved; the last one of a transfer calls ide_atapi_cmd_reply_end.
\* The guest goes back to waiting after the part it was told of, or when the drive
\* stopped within it.
ReadData ==
  /\ guest.phase = "data"
  /\ \E len \in 2 .. Lesser(Left, guest.expect) :
       /\ len % 2 = 0
       /\ \/ len < Left /\ data_index' = data_index + len
             /\ UNCHANGED <<regs, sense, reply, data_end, end_transfer_func>>
          \/ len = Left /\ ReplyEnd(Now)
       /\ guest' = [guest EXCEPT !.got = @ + len, !.expect = @ - len,
                      !.phase = IF len < guest.expect /\ "DRQ" \in status'
                                THEN "data" ELSE "wait"]

\* The other commands of idecd_exec_cmd: IDENTIFY PACKET DEVICE, whose 512 bytes
\* are read in one go; DEVICE RESET, which halts no transfer; and the ones a
\* CD-ROM drive refuses, some of them after setting the signature.
Identify ==
  /\ guest.phase = "idle" /\ guest.commands < MaxCommands
  /\ status' = {"DRDY", "DSC", "DRQ"} /\ irq' = 1
  /\ Start(0, SectorBytes, "stop")
  /\ held' = -1
  /\ guest' = [guest EXCEPT !.phase = "identify", !.commands = @ + 1]
  /\ UNCHANGED <<reason, limit, sense, packet_transfer_size, elementary_transfer_size,
                 io_buffer_index, lba, cd_sector_size>>

ReadIdentify ==
  /\ guest.phase = "identify"
  /\ Stop
  /\ status' = status \ {"DRQ"} /\ irq' = 0
  /\ guest' = [guest EXCEPT !.phase = "idle"]
  /\ UNCHANGED <<reason, limit, sense, reply>>

Abandoned(phase) == [guest EXCEPT !.phase = phase, !.op = "none"]

DeviceReset ==
  /\ guest.phase # "reset"
  /\ status' = {} /\ reason' = "cd" /\ limit' = Signature
  /\ guest' = Abandoned("idle")
  /\ UNCHANGED <<irq, sense, reply, transfer>>

Refused ==
  /\ guest.phase = "idle"
  /\ status' = {"DRDY", "ERR"} /\ irq' = 1
  /\ \/ UNCHANGED <<reason, limit>>
     \/ reason' = "cd" /\ limit' = Signature
  /\ UNCHANGED <<sense, reply, transfer, guest>>

\* ide_cmd_write: the reset bit of the channel is set, then cleared.
SoftReset ==
  /\ \/ /\ guest.phase # "reset"
        /\ status' = {"BSY", "DSC"} /\ guest' = Abandoned("reset")
        /\ UNCHANGED <<reason, limit>>
     \/ /\ guest.phase = "reset"
        /\ status' = {"DRDY", "DSC"} /\ guest' = Abandoned("idle")
        /\ reason' = "cd" /\ limit' = Signature
  /\ UNCHANGED <<irq, sense, reply, transfer>>

\* Mutant: only the sense key remembers the change.
ChangeCd_SenseOnly ==
  /\ guest.told = 1
  /\ sense_key' = "attention" /\ UNCHANGED cdrom_changed
  /\ irq' = 1
  /\ guest' = [guest EXCEPT !.told = 0]
  /\ UNCHANGED <<status, reason, limit, reply, transfer>>

\* ide_change_cd at any moment.  block_device_reinit only reopens a device in
\* BF_MODE_RO, and ide_attach_cd opens BF_MODE_RW: the disc stays.
ChangeCd ==
  /\ guest.told = 1
  /\ sense_key' = "attention" /\ cdrom_changed' = 1
  /\ irq' = 1
  /\ guest' = [guest EXCEPT !.told = 0]
  /\ UNCHANGED <<status, reason, limit, reply, transfer>>

Next ==
  \/ StartPacket \/ SendPacket \/ ReadStatus \/ ReadData
  \/ Identify \/ ReadIdentify \/ DeviceReset \/ Refused \/ SoftReset \/ ChangeCd

Spec == Init /\ [][Next]_vars

(***************************************************************************)
(* Properties                                                              *)
(***************************************************************************)
\* While the guest moves data there is exactly as much to come as the byte count
\* announced, however it is cut by sector ends (elementary_transfer_size), and a
\* word of it is ready.  A guest that waits for the drive has an interrupt to wake
\* it, for the end of the command and for every part that is announced
\* (ide_set_irq); the continuation of a part comes without one and needs none.
AsAnnounced ==
  /\ TypeOK
  /\ guest.phase = "data" =>
       /\ guest.expect = Left + elementary_transfer_size
       /\ Left >= 2
  /\ guest.phase = "wait" => irq = 1

\* What is ready is the part of the disc the read has come to.
BytesInPlace ==
  guest.phase = "data" /\ guest.op = "read" =>
    held * SectorBytes + data_index = guest.first * SectorBytes + guest.got

\* A read that ends without an error has delivered every byte it was asked for;
\* only a size that overflows packet_transfer_size is cut.
ReadsComplete ==
  guest.phase = "wait" /\ guest.op = "read" /\ "DRQ" \notin status /\ "ERR" \notin status =>
    guest.got = guest.bytes \/ guest.bytes >= IntLimit

\* A change of the disc is not forgotten before the guest has been told, by the
\* unit attention condition or by TEST UNIT READY, although other errors replace
\* the sense key in the meantime (ide_change_cd, ide_atapi_cmd_error).
ChangeIsReported == guest.told = 0 => sense_key = "attention" \/ cdrom_changed = 1
==============================================================================
