------------------------------- MODULE AtaDisk -------------------------------
(***************************************************************************)
(* The hard disk of an IDE channel (ide.c): the task-file registers, the   *)
(* command set of ide_exec_cmd and the PIO transfers that the data port    *)
(* drives, ended by s->end_transfer_func.                                  *)
(*                                                                         *)
(* Every port access runs to its end before the guest goes on (the block   *)
(* device hooks answer at once), so an access is a step.  The bytes moved  *)
(* are words; the register widths are constants, 256 and 16 in the code.   *)
(* The error register, which repeats ERR, and the feature register, which  *)
(* nobody reads, are left out.  The block device is an array of words that *)
(* may refuse a call; modules NetBlkCache and FileDisk look inside it.     *)
(*                                                                         *)
(* Two guests: Spec has any port access at any time, DriverSpec a driver   *)
(* that follows the protocol, with a reset whenever it likes.              *)
(***************************************************************************)
EXTENDS Integers

CONSTANTS
  NbSectors,     \* s->nb_sectors
  Words,         \* words of a sector (256)
  CountMod,      \* values of the sector count register (256)
  ByteMod,       \* values of an address register (256)
  HeadMod,       \* values of the head field (16)
  Heads,         \* s->heads
  Sectors,       \* s->sectors, of a track
  MaxMult,       \* MAX_MULT_SECTORS
  IoMayFail,     \* the block device may refuse calls it could serve
  MaxCommands    \* bound: commands a driver issues

ASSUME AtaAssumption ==
  /\ NbSectors \in Nat \ {0} /\ Words \in Nat \ {0} /\ CountMod \in Nat \ {0}
  /\ ByteMod \in Nat \ {0} /\ HeadMod \in Nat \ {0}
  /\ Heads \in Nat \ {0} /\ Sectors \in Nat \ {0}
  /\ MaxMult \in Nat \ {0, 1}
  /\ IoMayFail \in BOOLEAN /\ MaxCommands \in Nat

Word    == 0 .. NbSectors * Words - 1
BufSize == MaxMult * Words
Byte    == 0 .. ByteMod - 1

\* Contents of a word: w is what the image held at word w, Data(w) is what a
\* driver writes there, Id stands for what ide_identify says.
Data(w) == -1 - (w % (NbSectors * Words))
Id      == 0
Val     == -(NbSectors * Words) .. NbSectors * Words - 1

VARIABLES
  disk,               \* the block device
  drive,              \* cur_drive: "disk", or "none" for a missing one
  addr,               \* select's mode and head, hcyl, lcyl, sector
  nsector,            \* sector count register
  status,             \* status register
  mult_sectors,       \* sectors a multiple transfer moves per interrupt
  req_nb_sectors,     \* the same for the command in progress
  io_nb_sectors,      \* sectors of the block being moved
  data_index,         \* next word of the buffer
  data_end,           \* end of the words to move
  end_transfer_func,  \* what follows them
  io_buffer,          \* the buffer
  irq,                \* level of the channel's interrupt line
  cmd,                \* device control register: reset, nien
  driver,             \* what the driver is doing
  want                \* history: the contents the driver has asked for

regs     == <<addr, nsector>>
transfer == <<data_index, data_end, end_transfer_func, io_buffer>>
counts   == <<req_nb_sectors, io_nb_sectors>>
drvVars  == <<driver, want>>
vars     == <<disk, drive, regs, status, mult_sectors, counts, transfer, irq, cmd,
              drvVars>>

Addr  == [lba : {0, 1}, head : 0 .. HeadMod - 1, hcyl : Byte, lcyl : Byte, sector : Byte]
Flags == {"BSY", "DRDY", "DSC", "DRQ", "ERR"}
Ends  == {"stop", "identify", "read", "read_end", "write"}

Driver == [phase : {"idle", "wait", "data", "reset", "settle"},
           op : {"none", "read", "write", "other"},
           first : 0 .. NbSectors, n : 0 .. CountMod, done : 0 .. CountMod * Words,
           commands : 0 .. MaxCommands]

Idle(k) == [phase |-> "idle", op |-> "none", first |-> 0, n |-> 0, done |-> 0, commands |-> k]

TypeOK ==
  /\ disk \in [Word -> Val]
  /\ drive \in {"disk", "none"}
  /\ addr \in Addr
  /\ nsector \in 0 .. CountMod - 1
  /\ status \subseteq Flags
  /\ mult_sectors \in 0 .. MaxMult
  /\ req_nb_sectors \in 0 .. MaxMult
  /\ io_nb_sectors \in Nat /\ data_index \in Nat /\ data_end \in Nat
  /\ end_transfer_func \in Ends
  /\ io_buffer \in [0 .. BufSize - 1 -> Val]
  /\ irq \in {0, 1}
  /\ cmd \in [reset : {0, 1}, nien : {0, 1}]
  /\ driver \in Driver
  /\ want \in [Word -> Val]

\* Nothing is ever moved outside io_buffer, neither by the guest's accesses to
\* the data port nor by the block device's (ide_transfer_start's size, and
\* io_nb_sectors at the read_async and write_async calls).
InBuffer ==
  /\ TypeOK
  /\ data_index \in 0 .. data_end
  /\ data_end \in 0 .. BufSize
  /\ io_nb_sectors \in 0 .. MaxMult

\* ide_hddrive_init; ide_allocate finds no drive to make current.
Init ==
  /\ disk = [w \in Word |-> w]
  /\ drive = "none"
  /\ addr = [lba |-> 0, head |-> 0, hcyl |-> 0, lcyl |-> 0, sector |-> 0]
  /\ nsector = 0
  /\ status = {"DRDY", "DSC"}
  /\ mult_sectors = MaxMult
  /\ req_nb_sectors = 0 /\ io_nb_sectors = 0
  /\ data_index = 0 /\ data_end = 0 /\ end_transfer_func = "stop"
  /\ io_buffer = [i \in 0 .. BufSize - 1 |-> 0]
  /\ irq = 0
  /\ cmd = [reset |-> 0, nien |-> 0]
  /\ driver = Idle(0)
  /\ want = disk

(***************************************************************************)
(* Addresses                                                               *)
(***************************************************************************)
Cylinder == Heads * Sectors

\* ide_get_sector
GetSector(a) ==
  IF a.lba = 1
  THEN ((a.head * ByteMod + a.hcyl) * ByteMod + a.lcyl) * ByteMod + a.sector
  ELSE (a.hcyl * ByteMod + a.lcyl) * Cylinder + a.head * Sectors + a.sector - 1

\* Mutant: sectors of a track are counted from 0 on the way back.
SetSector_FromZero(a, s) ==
  IF a.lba = 1
  THEN [lba |-> 1, head |-> (s \div (ByteMod * ByteMod * ByteMod)) % HeadMod,
        hcyl |-> (s \div (ByteMod * ByteMod)) % ByteMod,
        lcyl |-> (s \div ByteMod) % ByteMod, sector |-> s % ByteMod]
  ELSE [lba |-> 0, head |-> ((s % Cylinder) \div Sectors) % HeadMod,
        hcyl |-> ((s \div Cylinder) \div ByteMod) % ByteMod,
        lcyl |-> (s \div Cylinder) % ByteMod, sector |-> (s % Sectors) % ByteMod]

\* ide_set_sector
SetSector(a, s) ==
  IF a.lba = 1
  THEN [lba |-> 1, head |-> (s \div (ByteMod * ByteMod * ByteMod)) % HeadMod,
        hcyl |-> (s \div (ByteMod * ByteMod)) % ByteMod,
        lcyl |-> (s \div ByteMod) % ByteMod, sector |-> s % ByteMod]
  ELSE [lba |-> 0, head |-> ((s % Cylinder) \div Sectors) % HeadMod,
        hcyl |-> ((s \div Cylinder) \div ByteMod) % ByteMod,
        lcyl |-> (s \div Cylinder) % ByteMod,
        sector |-> (((s % Cylinder) % Sectors) + 1) % ByteMod]

\* ide_set_signature leaves the mode alone.
Signature == [addr EXCEPT !.head = 0, !.hcyl = 0, !.lcyl = 0, !.sector = 1 % ByteMod]

(***************************************************************************)
(* Blocks                                                                  *)
(***************************************************************************)
Lesser(a, b) == IF a < b THEN a ELSE b

\* The count register: 0 stands for 256.
Count(n) == IF n = 0 THEN CountMod ELSE n

\* The range check of the block device's hooks; the sector is unsigned there.
InRange(s, n) == s >= 0 /\ s <= NbSectors /\ n <= NbSectors - s

\* The task file's address and count become a and c.
Registers(a, c) == addr' = a /\ nsector' = c

\* ide_set_irq
Raise == irq' = IF cmd.nien = 1 THEN irq ELSE 1

\* ide_transfer_start and ide_transfer_stop, with the buffer at buf.
Start(size, func, buf) ==
  /\ data_index' = 0 /\ data_end' = size
  /\ end_transfer_func' = func
  /\ io_buffer' = buf

Stop(buf) == Start(0, "stop", buf)

\* Mutant: an aborted command is not announced.
Abort_Silent == status' = {"DRDY", "ERR"} /\ UNCHANGED irq

\* ide_abort_command and the interrupt that goes with it.
Abort == status' = {"DRDY", "ERR"} /\ Raise

\* ide_sector_read and ide_sector_read_cb, for at most req sectors from the
\* address a, c to go; a refused call leaves the transfer at the word index.
SectorRead(a, c, req, index, buf) ==
  LET n == Lesser(Count(c), req)
      s == GetSector(a)
  IN /\ req_nb_sectors' = req
     /\ io_nb_sectors' = n
     /\ \/ /\ InRange(s, n)
           /\ Registers(SetSector(a, s + n), (c - n) % CountMod)
           /\ Start(n * Words, IF nsector' = 0 THEN "read_end" ELSE "read",
                    [i \in 0 .. BufSize - 1 |->
                       IF i < n * Words THEN disk[s * Words + i] ELSE buf[i]])
           /\ status' = {"DRDY", "DSC", "DRQ"}
           /\ Raise
        \/ /\ ~InRange(s, n) \/ IoMayFail
           /\ Abort
           /\ Registers(a, c)
           /\ data_index' = index /\ io_buffer' = buf
           /\ UNCHANGED <<data_end, end_transfer_func>>
     /\ UNCHANGED disk

\* Mutant: a block is always as long as the command allows.
SectorWrite_FullBlock(a, c, req) ==
  /\ req_nb_sectors' = req
  /\ io_nb_sectors' = req
  /\ Start(req * Words, "write", io_buffer)
  /\ status' = {"DRDY", "DSC", "DRQ"}
  /\ Registers(a, c)
  /\ UNCHANGED <<disk, irq>>

\* Mutant: the command's limit is not applied.
SectorWrite_NoLimit(a, c, req) ==
  /\ req_nb_sectors' = req
  /\ io_nb_sectors' = Count(c)
  /\ Start(Count(c) * Words, "write", io_buffer)
  /\ status' = {"DRDY", "DSC", "DRQ"}
  /\ Registers(a, c)
  /\ UNCHANGED <<disk, irq>>

\* ide_sector_write: the drive asks for the first block, without an interrupt.
SectorWrite(a, c, req) ==
  LET n == Lesser(Count(c), req)
  IN /\ req_nb_sectors' = req
     /\ io_nb_sectors' = n
     /\ Start(n * Words, "write", io_buffer)
     /\ status' = {"DRDY", "DSC", "DRQ"}
     /\ Registers(a, c)
     /\ UNCHANGED <<disk, irq>>

\* Mutant: the address stays at the first block.
WriteBlockDone_SameAddress(buf) ==
  LET left == (nsector - io_nb_sectors) % CountMod
      n    == Lesser(left, req_nb_sectors)
  IN /\ nsector' = left
     /\ IF left = 0
        THEN Stop(buf) /\ status' = {"DRDY", "DSC"} /\ UNCHANGED io_nb_sectors
        ELSE /\ io_nb_sectors' = n
             /\ Start(n * Words, "write", buf)
             /\ status' = {"DRDY", "DSC", "DRQ"}
     /\ Raise
     /\ UNCHANGED <<addr, req_nb_sectors>>

\* ide_sector_write_cb2: the block is stored; the next one, or the end.
WriteBlockDone(buf) ==
  LET left == (nsector - io_nb_sectors) % CountMod
      n    == Lesser(left, req_nb_sectors)
  IN /\ addr' = SetSector(addr, GetSector(addr) + io_nb_sectors)
     /\ nsector' = left
     /\ IF left = 0
        THEN Stop(buf) /\ status' = {"DRDY", "DSC"} /\ UNCHANGED io_nb_sectors
        ELSE /\ io_nb_sectors' = n
             /\ Start(n * Words, "write", buf)
             /\ status' = {"DRDY", "DSC", "DRQ"}
     /\ Raise
     /\ UNCHANGED req_nb_sectors

\* The disk with the sectors s .. s + n - 1 as the buffer has them.
DiskWith(s, n, buf) ==
  [w \in Word |-> IF w \in s * Words .. (s + n) * Words - 1
                  THEN buf[w - s * Words] ELSE disk[w]]

\* ide_sector_write_cb1: the block in the buffer goes to the block device, which
\* may fail in the middle of it.
WriteBlock(buf) ==
  LET s == GetSector(addr)
      n == io_nb_sectors
  IN \/ /\ InRange(s, n)
        /\ disk' = DiskWith(s, n, buf)
        /\ WriteBlockDone(buf)
     \/ /\ \/ ~InRange(s, n) /\ UNCHANGED disk
           \/ InRange(s, n) /\ IoMayFail /\ \E k \in 0 .. n : disk' = DiskWith(s, k, buf)
        /\ Stop(buf)
        /\ Abort
        /\ UNCHANGED <<regs, counts>>

\* The transfer is over, with the index at i: s->end_transfer_func(s).
EndTransfer(i, buf) ==
  \/ /\ end_transfer_func \in {"stop", "identify", "read_end"}
     /\ Stop(buf)
     /\ status' = CASE end_transfer_func = "stop"     -> status
                    [] end_transfer_func = "identify" -> {"DRDY"}
                    [] end_transfer_func = "read_end" -> {"DRDY", "DSC"}
     /\ UNCHANGED <<disk, regs, counts, irq>>
  \/ end_transfer_func = "read" /\ SectorRead(addr, nsector, req_nb_sectors, i, buf)
  \/ end_transfer_func = "write" /\ WriteBlock(buf)

\* len words have been moved, the buffer is buf now.
Moved(len, buf) ==
  /\ \/ data_index + len >= data_end /\ EndTransfer(data_index + len, buf)
     \/ /\ data_index + len < data_end
        /\ data_index' = data_index + len
        /\ io_buffer' = buf
        /\ UNCHANGED <<data_end, end_transfer_func, disk, regs, counts, status, irq>>
  /\ UNCHANGED <<drive, mult_sectors, cmd>>

(***************************************************************************)
(* ide_exec_cmd, with the address registers at a and the count at c        *)
(***************************************************************************)
Identify(a, c) ==
  /\ Start(Words, "identify",
           [i \in 0 .. BufSize - 1 |-> IF i < 2 * Words THEN Id ELSE io_buffer[i]])
  /\ status' = {"DRDY", "DSC", "DRQ"}
  /\ Raise
  /\ Registers(a, c)
  /\ UNCHANGED <<disk, mult_sectors, counts>>

\* WIN_SPECIFY and WIN_RECAL.
Recalibrate(a, c) ==
  /\ status' = {"DRDY", "DSC"}
  /\ Raise
  /\ Registers(a, c)
  /\ UNCHANGED <<disk, mult_sectors, counts, transfer>>

\* WIN_SETMULT takes powers of two that fit the buffer, and 0.
SetMult(a, c) ==
  /\ \/ /\ c > MaxMult \/ (c # 0 /\ \A i \in 0 .. 8 : c # 2 ^ i)
        /\ Abort
        /\ UNCHANGED mult_sectors
     \/ /\ c <= MaxMult
        /\ c = 0 \/ \E i \in 0 .. 8 : c = 2 ^ i
        /\ mult_sectors' = c
        /\ status' = {"DRDY"}
        /\ Raise
  /\ Registers(a, c)
  /\ UNCHANGED <<disk, counts, transfer>>

AbortOnly(a, c) == Abort /\ Registers(a, c) /\ UNCHANGED <<disk, mult_sectors, counts, transfer>>

Read(a, c)  == SectorRead(a, c, 1, data_index, io_buffer) /\ UNCHANGED mult_sectors
Write(a, c) == SectorWrite(a, c, 1) /\ UNCHANGED mult_sectors

MultRead(a, c) ==
  \/ mult_sectors = 0 /\ AbortOnly(a, c)
  \/ /\ mult_sectors # 0
     /\ SectorRead(a, c, mult_sectors, data_index, io_buffer)
     /\ UNCHANGED mult_sectors

MultWrite(a, c) ==
  \/ mult_sectors = 0 /\ AbortOnly(a, c)
  \/ mult_sectors # 0 /\ SectorWrite(a, c, mult_sectors) /\ UNCHANGED mult_sectors

ReadNativeMax(a, c) ==
  /\ Registers(SetSector(a, NbSectors - 1), c)
  /\ status' = {"DRDY"}
  /\ Raise
  /\ UNCHANGED <<disk, mult_sectors, counts, transfer>>

FlushCache(a, c) ==
  \/ IoMayFail /\ AbortOnly(a, c)
  \/ Recalibrate(a, c)

Exec(op, a, c) ==
  /\ \/ op = "identify"   /\ Identify(a, c)
     \/ op = "recal"      /\ Recalibrate(a, c)
     \/ op = "setmult"    /\ SetMult(a, c)
     \/ op = "read"       /\ Read(a, c)
     \/ op = "write"      /\ Write(a, c)
     \/ op = "multread"   /\ MultRead(a, c)
     \/ op = "multwrite"  /\ MultWrite(a, c)
     \/ op = "native_max" /\ ReadNativeMax(a, c)
     \/ op = "flush"      /\ FlushCache(a, c)
     \/ op = "unknown"    /\ AbortOnly(a, c)
  /\ UNCHANGED <<drive, cmd>>

Ops == {"identify", "recal", "setmult", "read", "write", "multread", "multwrite",
        "native_max", "flush", "unknown"}

(***************************************************************************)
(* The ports, used in any order                                            *)
(***************************************************************************)
Command == \E op \in Ops : drive = "disk" /\ Exec(op, addr, nsector)

WriteCount ==
  /\ drive = "disk"
  /\ nsector' \in 0 .. CountMod - 1
  /\ UNCHANGED <<disk, drive, addr, status, mult_sectors, counts, transfer, irq, cmd>>

\* Ports 3 to 5.
WriteAddress ==
  /\ drive = "disk"
  /\ \E b \in Byte : addr' \in {[addr EXCEPT !.sector = b], [addr EXCEPT !.lcyl = b],
                               [addr EXCEPT !.hcyl = b]}
  /\ UNCHANGED <<disk, drive, nsector, status, mult_sectors, counts, transfer, irq, cmd>>

\* Port 6; the second drive is missing.
SelectDrive ==
  /\ \/ /\ drive' = "disk"
        /\ \E l \in {0, 1}, h \in 0 .. HeadMod - 1 :
             addr' = [addr EXCEPT !.lba = l, !.head = h]
     \/ drive' = "none" /\ UNCHANGED addr
  /\ UNCHANGED <<disk, nsector, status, mult_sectors, counts, transfer, irq, cmd>>

\* A read of the status register lowers the interrupt line.
ReadStatus ==
  /\ drive = "disk"
  /\ irq' = 0
  /\ UNCHANGED <<disk, drive, regs, status, mult_sectors, counts, transfer, cmd>>

\* ide_cmd_write
ControlWrite(r, n) ==
  /\ cmd' = [reset |-> r, nien |-> n]
  /\ \/ /\ cmd.reset = 0 /\ r = 1
        /\ status' = {"BSY", "DSC"}
        /\ UNCHANGED regs
     \/ /\ cmd.reset = 1 /\ r = 0
        /\ status' = {"DRDY", "DSC"}
        /\ addr' = Signature
        /\ nsector' = 1 % CountMod
     \/ cmd.reset = r /\ UNCHANGED <<status, regs>>
  /\ UNCHANGED <<disk, drive, mult_sectors, counts, transfer, irq>>

Left == data_end - data_index

\* Words of one access of size words each, count times: what fits, whole ones.
Moves(size, count) ==
  LET len == Lesser(size * count, Left) IN len - (len % size)

\* A single access moves nothing where it does not fit; a string instruction
\* with nothing left to move still ends the transfer.
AccessSizes ==
  {size \in {1, 2} : size <= Left} \cup {Moves(size, count) : size \in {1, 2}, count \in 1 .. BufSize}

DataRead == drive = "disk" /\ \E len \in AccessSizes : Moved(len, io_buffer)

Stored(len, f) ==
  [i \in 0 .. BufSize - 1 |->
     IF i \in data_index .. data_index + len - 1 THEN f[i - data_index] ELSE io_buffer[i]]

DataWrite ==
  /\ drive = "disk"
  /\ \E len \in AccessSizes :
       Moved(len, Stored(len, [i \in 0 .. BufSize |-> 0]))

Control == \E r, n \in {0, 1} : ControlWrite(r, n)

Access ==
  \/ Command \/ WriteCount \/ WriteAddress \/ SelectDrive \/ ReadStatus
  \/ Control \/ DataRead \/ DataWrite

Next == Access /\ UNCHANGED drvVars

Spec == Init /\ [][Next]_vars

(***************************************************************************)
(* A driver: it writes the registers and the command, waits for the        *)
(* interrupt, reads the status and moves the data the drive asks for.      *)
(***************************************************************************)
\* It has to select the drive first, and chooses CHS or LBA mode with it.
DriverSelect ==
  /\ drive = "none"
  /\ SelectDrive
  /\ drive' = "disk"
  /\ UNCHANGED drvVars

\* The driver starts op with the registers at a and c.  A write that is accepted
\* asks for data at once, everything else interrupts.
Starts(op, a, c, kind, first, n) ==
  /\ driver.phase = "idle" /\ drive = "disk"
  /\ driver.commands < MaxCommands
  /\ Exec(op, a, c)
  /\ driver' = [phase |-> IF kind = "write" /\ "DRQ" \in status' THEN "data" ELSE "wait",
                op |-> kind, first |-> first, n |-> n, done |-> 0,
                commands |-> driver.commands + 1]
  /\ UNCHANGED want

\* It reads or writes n sectors, the count register holding 0 for the most.
DriverTransfer ==
  \E kind \in {"read", "write"}, first \in 0 .. NbSectors - 1, n \in 1 .. CountMod :
    \E op \in IF kind = "read" THEN {"read", "multread"} ELSE {"write", "multwrite"} :
      Starts(op, SetSector(addr, first), n % CountMod, kind, first, n)

DriverOther ==
  \/ \E c \in 0 .. CountMod - 1 : Starts("setmult", addr, c, "other", 0, 0)
  \/ \E op \in {"identify", "recal", "native_max", "flush", "unknown"} :
       Starts(op, addr, nsector, "other", 0, 0)

DriverStatus ==
  /\ driver.phase \in {"wait", "settle"}
  /\ ReadStatus
  /\ driver' = IF "DRQ" \in status THEN [driver EXCEPT !.phase = "data"] ELSE Idle(driver.commands)
  /\ UNCHANGED want

\* The last block of a read is not followed by an interrupt, nor is ide_identify's.
DriverReads ==
  /\ driver.phase = "data" /\ driver.op \in {"read", "other"}
  /\ \E len \in 1 .. Left :
       /\ Moved(len, io_buffer)
       /\ driver' = CASE len < Left -> [driver EXCEPT !.done = @ + len]
                      [] len = Left /\ driver.op = "read" /\ driver.done + len < driver.n * Words
                           -> [driver EXCEPT !.phase = "wait", !.done = @ + len]
                      [] OTHER -> Idle(driver.commands)
  /\ UNCHANGED want

\* The driver knows nothing of a block the drive has refused.
DriverWrites ==
  /\ driver.phase = "data" /\ driver.op = "write"
  /\ \E len \in 1 .. Left :
       /\ Moved(len, Stored(len, [i \in 0 .. BufSize |-> Data(driver.first * Words + driver.done + i)]))
       /\ driver' = [driver EXCEPT !.done = @ + len, !.phase = IF len < Left THEN "data" ELSE "wait"]
       /\ want' = IF "ERR" \in status' THEN disk'
                  ELSE [w \in Word |->
                          IF w - driver.first * Words \in driver.done .. driver.done + len - 1
                          THEN Data(w) ELSE want[w]]

\* A reset at any time gives up what was in the buffer.
DriverReset ==
  \/ /\ driver.phase # "reset"
     /\ ControlWrite(1, 0)
     /\ driver' = [Idle(driver.commands) EXCEPT !.phase = "reset"]
     /\ want' = disk
  \/ /\ driver.phase = "reset"
     /\ ControlWrite(0, 0)
     /\ driver' = [Idle(driver.commands) EXCEPT !.phase = "settle"]
     /\ UNCHANGED want

DriverNext ==
  \/ DriverSelect \/ DriverTransfer \/ DriverOther \/ DriverStatus
  \/ DriverReads \/ DriverWrites \/ DriverReset

DriverSpec == Init /\ [][DriverNext]_vars

(***************************************************************************)
(* Properties                                                              *)
(***************************************************************************)
\* Drive and driver are at the same place of the command, whatever mixture of CHS
\* and LBA addresses, block sizes, earlier errors and resets led there: what is
\* about to be read is the part of the disk the command has come to
\* (ide_sector_read, ide_set_sector), and data is requested exactly until the
\* count, 0 standing for 256, has been moved (nsector in ide_sector_read_cb and
\* ide_sector_write_cb2); whenever it is requested there is some to move.
TransferInStep ==
  /\ driver.phase = "data" /\ driver.op = "read" =>
       \A i \in data_index .. data_end - 1 :
         io_buffer[i] = disk[driver.first * Words + driver.done + i - data_index]
  /\ driver.op \in {"read", "write"} /\ driver.phase \in {"wait", "data"} /\ "ERR" \notin status =>
       /\ "DRQ" \in status <=> driver.done < driver.n * Words
       /\ "DRQ" \in status => Left \in 1 .. driver.n * Words - driver.done

\* Every word the driver has written is on the disk at its place or waits in
\* the buffer, and nothing else has changed.
WritesLand ==
  LET open == driver.phase = "data" /\ driver.op = "write"
      base == driver.first * Words + driver.done - data_index
  IN \A w \in Word :
       want[w] = IF open /\ w \in base .. base + data_index - 1
                 THEN io_buffer[w - base] ELSE disk[w]

\* A step changes only sectors of the write command in progress, also when
\* earlier commands were aborted or reset in the middle of a block.
WritesStayInRange ==
  [][\A w \in Word : disk'[w] # disk[w] =>
       /\ driver.op = "write"
       /\ w \in driver.first * Words .. (driver.first + driver.n) * Words - 1]_vars

\* A driver that waits has been interrupted: every command, done or aborted, and
\* every block ends with the line raised, until the status is read.
WaitingIsInterrupted == driver.phase = "wait" => irq = 1
==============================================================================
