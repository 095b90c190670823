---------------------------- MODULE AtaDisk_proofs ---------------------------
(***************************************************************************)
(* Proofs about the hard disk of an IDE channel.                           *)
(*                                                                         *)
(* For any guest (Spec): no access to the data port and no block that goes *)
(* to or comes from the block device leaves io_buffer.                     *)
(*                                                                         *)
(* For a driver that follows the protocol (DriverSpec) and a disk whose    *)
(* sectors, and the one after the last, can be written in the task file    *)
(* (Addressable): the drive and the driver stay at the same place of the   *)
(* command, what was written lands where it belongs and nothing else       *)
(* changes, and a driver that waits has been interrupted.  The invariant   *)
(* ties the driver's count of words to the registers: after k sectors the  *)
(* address is the first one's plus k and the count register is what is     *)
(* left, 0 standing for all of its values.                                 *)
(***************************************************************************)
EXTENDS AtaDisk, TLAPS

(***************************************************************************)
(* The inductive invariant of DriverSpec.                                  *)
(***************************************************************************)
\* Every sector up to the one after the last has an address in both modes.
Addressable ==
  /\ NbSectors < HeadMod * (ByteMod * (ByteMod * ByteMod))
  /\ NbSectors < (ByteMod * ByteMod) * Cylinder
  /\ Heads <= HeadMod /\ Sectors < ByteMod

\* A block of a read command is in the buffer; with it, k sectors have been fetched.
ReadBlock(k) ==
  /\ k \in 1 .. driver.n
  /\ k * Words = driver.done - data_index + data_end
  /\ driver.first + k <= NbSectors
  /\ GetSector(addr) = driver.first + k
  /\ nsector = driver.n - k
  /\ end_transfer_func = IF nsector = 0 THEN "read_end" ELSE "read"
  /\ \A i \in 0 .. data_end - 1 :
       io_buffer[i] = disk[driver.first * Words + driver.done - data_index + i]

\* A block of a write command is asked for; k sectors are on the disk.
AskedBlock(k) ==
  /\ k \in 0 .. driver.n - 1
  /\ driver.done = k * Words + data_index
  /\ driver.first + k <= NbSectors
  /\ GetSector(addr) = driver.first + k
  /\ nsector = (driver.n - k) % CountMod
  /\ io_nb_sectors \in 1 .. driver.n - k
  /\ data_end = io_nb_sectors * Words
  /\ end_transfer_func = "write"

\* Data is requested, and it is the command's.
Requested ==
  /\ data_index < data_end
  /\ driver.op = "read" => req_nb_sectors \in 1 .. MaxMult /\ \E k \in 1 .. driver.n : ReadBlock(k)
  /\ driver.op = "write" => req_nb_sectors \in 1 .. MaxMult /\ \E k \in 0 .. driver.n - 1 : AskedBlock(k)
  /\ driver.op = "other" => end_transfer_func = "identify" /\ data_end = Words /\ driver.done = data_index

Busy == driver.phase \in {"wait", "data"}

\* Where the driver is, and where the drive is then.
InStep ==
  /\ cmd.nien = 0 /\ cmd.reset = IF driver.phase = "reset" THEN 1 ELSE 0
  /\ Busy => drive = "disk" /\ driver.op \in {"read", "write", "other"}
  /\ ~Busy => driver.op = "none"
  /\ driver.phase = "settle" => "DRQ" \notin status
  /\ driver.phase = "wait" => irq = 1
  /\ driver.phase = "data" => "DRQ" \in status
  /\ Busy /\ driver.op \in {"read", "write"} => driver.n \in 1 .. CountMod /\ driver.first < NbSectors
  /\ Busy /\ "DRQ" \in status => "ERR" \notin status /\ Requested
  /\ driver.phase = "wait" /\ "DRQ" \in status => data_index = 0
  /\ Busy /\ "DRQ" \notin status /\ "ERR" \notin status =>
       /\ driver.op # "read"
       /\ driver.op = "write" => driver.done = driver.n * Words

DiskInv == InBuffer /\ InStep /\ WritesLand
-----------------------------------------------------------------------------
(***************************************************************************)
(* Arithmetic.                                                             *)
(***************************************************************************)
\* Quotient and remainder.
LEMMA DivMod ==
  ASSUME NEW a \in Int, NEW b \in Nat \ {0}
  PROVE  a \div b \in Int /\ a % b \in 0 .. b - 1 /\ a = b * (a \div b) + (a % b)
BY SMT

\* A remainder.
LEMMA ModType == ASSUME NEW a \in Int, NEW b \in Nat \ {0} PROVE a % b \in 0 .. b - 1
BY DivMod

\* Of a natural number.
LEMMA DivModNat ==
  ASSUME NEW a \in Nat, NEW b \in Nat \ {0}
  PROVE  a \div b \in Nat /\ a % b \in 0 .. b - 1 /\ a = b * (a \div b) + (a % b)
<1>1. a \div b \in Int /\ a % b \in 0 .. b - 1 /\ a = b * (a \div b) + (a % b)
  BY SMT
<1>2. ASSUME a \div b < 0 PROVE FALSE
  <2>1. b * (a \div b) <= -b
    BY <1>1, <1>2, SMT
  <2> QED
    BY <1>1, <1>2, <2>1, SMT
<1> QED
  BY <1>1, <1>2

\* They are the only such pair.
LEMMA DivUnique ==
  ASSUME NEW b \in Nat \ {0}, NEW q \in Int, NEW r \in 0 .. b - 1, NEW a \in Int, a = b * q + r
  PROVE  a \div b = q /\ a % b = r
<1> DEFINE p == a \div b
<1>1. p \in Int /\ a % b \in 0 .. b - 1 /\ a = b * p + (a % b)
  BY DivMod
<1> HIDE DEF p
<1>2. ASSUME p < q PROVE FALSE
  <2>1. p + 1 <= q /\ b * (p + 1) = b * p + b
    BY <1>1, <1>2, SMT
  <2>2. b * (p + 1) <= b * q
    BY <1>1, <2>1, SMT
  <2> QED
    BY <1>1, <2>1, <2>2, SMT
<1>3. ASSUME q < p PROVE FALSE
  <2>1. q + 1 <= p /\ b * (q + 1) = b * q + b
    BY <1>1, <1>3, SMT
  <2>2. b * (q + 1) <= b * p
    BY <1>1, <2>1, SMT
  <2> QED
    BY <1>1, <2>1, <2>2, SMT
<1>4. p = q
  BY <1>1, <1>2, <1>3
<1> QED
  BY <1>1, <1>4, SMT DEF p

\* Multiplication keeps the order.
LEMMA MulOrder ==
  ASSUME NEW a \in Int, NEW b \in Int, NEW c \in Nat, a <= b
  PROVE  a * c <= b * c
OBVIOUS

\* A quotient is below what its dividend is below.
LEMMA DivBelow ==
  ASSUME NEW a \in Nat, NEW b \in Nat \ {0}, NEW c \in Nat, a < b * c
  PROVE  a \div b \in 0 .. c - 1
<1> DEFINE p == a \div b
<1>1. p \in Nat /\ a % b \in 0 .. b - 1 /\ a = b * p + (a % b)
  BY DivModNat
<1> HIDE DEF p
<1>2. ASSUME p >= c PROVE FALSE
  <2>1. b * c <= b * p
    BY <1>1, <1>2, SMT
  <2> QED
    BY <1>1, <2>1, SMT
<1> QED
  BY <1>1, <1>2 DEF p

\* Dividing by a product is dividing twice.
LEMMA DivTwice ==
  ASSUME NEW a \in Nat, NEW b \in Nat \ {0}, NEW c \in Nat \ {0}
  PROVE  a \div (b * c) = (a \div b) \div c
<1> DEFINE p == a \div b
           q == p \div c
           r == b * (p % c) + (a % b)
<1>1. p \in Nat /\ a % b \in 0 .. b - 1 /\ a = b * p + (a % b)
  BY DivModNat
<1> HIDE DEF p
<1>2. q \in Nat /\ p % c \in 0 .. c - 1 /\ p = c * q + (p % c)
  BY <1>1, DivModNat
<1>3. b * c \in Nat \ {0}
  OBVIOUS
<1> HIDE DEF q
<1>4. b * (p % c) \in Nat /\ b * (p % c) <= b * (c - 1) /\ b * (c - 1) = b * c - b
  <2> DEFINE m == p % c
  <2>1. m \in 0 .. c - 1
    BY <1>2
  <2> HIDE DEF m, p
  <2>2. b * m \in Nat /\ b * m <= b * (c - 1) /\ b * (c - 1) = b * c - b
    BY <2>1, SMT
  <2> QED
    BY <2>2 DEF m
<1>5. r \in 0 .. (b * c) - 1
  BY <1>1, <1>3, <1>4, SMT
<1>6. a = (b * c) * q + r
  <2> DEFINE m == p % c
             n == a % b
  <2>1. m \in Int /\ n \in Int /\ p = c * q + m /\ a = b * p + n
    BY <1>1, <1>2
  <2> HIDE DEF m, n, p
  <2>2. b * (c * q + m) = (b * c) * q + b * m
    BY <1>2, <2>1, SMT
  <2>3. a = (b * c) * q + (b * m + n)
    BY <1>2, <2>1, <2>2, SMT
  <2> QED
    BY <2>3 DEF m, n
<1> HIDE DEF r
<1>7. a \div (b * c) = q
  <2> DEFINE d == b * c
  <2>1. d \in Nat \ {0} /\ r \in 0 .. d - 1 /\ a = d * q + r /\ a \in Int /\ q \in Int
    BY <1>2, <1>3, <1>5, <1>6
  <2> HIDE DEF d
  <2>2. a \div d = q
    BY <2>1, DivUnique
  <2> QED
    BY <2>2 DEF d
<1> QED
  BY <1>7 DEF q, p

\* A number below its modulus is its own remainder.
LEMMA ModSmall ==
  ASSUME NEW m \in Nat \ {0}, NEW a \in 0 .. m - 1
  PROVE  a % m = a
OBVIOUS

-----------------------------------------------------------------------------
(***************************************************************************)
(* Addresses.                                                              *)
(***************************************************************************)
LEMMA SetSectorType ==
  ASSUME NEW a \in Addr, NEW s \in Nat
  PROVE  SetSector(a, s) \in Addr
<1> DEFINE bb == ByteMod * ByteMod
           bbb == bb * ByteMod
<1>1. /\ ByteMod \in Nat \ {0} /\ HeadMod \in Nat \ {0} /\ Sectors \in Nat \ {0}
      /\ bb \in Nat \ {0} /\ Cylinder \in Nat \ {0}
  BY AtaAssumption DEF Cylinder
<1>2. bbb \in Nat \ {0}
  <2> HIDE DEF bb
  <2> QED
    BY <1>1
<1>3. a.lba \in {0, 1}
  BY DEF Addr
<1> HIDE DEF bb, bbb
<1>4. CASE a.lba = 1
  <2>1. s \div bbb \in Int /\ s \div bb \in Int /\ s \div ByteMod \in Int
    BY <1>1, <1>2, DivModNat
  <2>2. /\ (s \div bbb) % HeadMod \in 0 .. HeadMod - 1
        /\ (s \div bb) % ByteMod \in Byte /\ (s \div ByteMod) % ByteMod \in Byte /\ s % ByteMod \in Byte
    <3>1. s \in Int
      OBVIOUS
    <3> QED
      BY <1>1, <2>1, <3>1, ModType, Zenon DEF Byte
  <2>3. SetSector(a, s) = [lba |-> 1, head |-> (s \div bbb) % HeadMod, hcyl |-> (s \div bb) % ByteMod,
                           lcyl |-> (s \div ByteMod) % ByteMod, sector |-> s % ByteMod]
    BY <1>4 DEF SetSector, bb, bbb
  <2> QED
    BY <2>2, <2>3 DEF Addr
<1>5. CASE a.lba = 0
  <2> DEFINE c == s \div Cylinder
             t == s % Cylinder
  <2>1. c \in Nat /\ t \in Nat
    BY <1>1, DivModNat
  <2>2. SetSector(a, s) = [lba |-> 0, head |-> (t \div Sectors) % HeadMod, hcyl |-> (c \div ByteMod) % ByteMod,
                           lcyl |-> c % ByteMod, sector |-> ((t % Sectors) + 1) % ByteMod]
    BY <1>5 DEF SetSector
  <2> HIDE DEF c, t
  <2>3. t \div Sectors \in Int /\ c \div ByteMod \in Int /\ t % Sectors \in Int
    BY <1>1, <2>1, DivModNat
  <2>4. /\ (t \div Sectors) % HeadMod \in 0 .. HeadMod - 1
        /\ (c \div ByteMod) % ByteMod \in Byte /\ c % ByteMod \in Byte
        /\ ((t % Sectors) + 1) % ByteMod \in Byte
    BY <1>1, <2>1, <2>3, DivMod DEF Byte
  <2> QED
    BY <2>2, <2>4 DEF Addr
<1> QED
  BY <1>3, <1>4, <1>5

\* An address in the registers names a sector number (ide_get_sector).
LEMMA GetSectorType ==
  ASSUME NEW a \in Addr
  PROVE  GetSector(a) \in Int
<1>1. /\ a.lba \in {0, 1} /\ a.head \in Int /\ a.hcyl \in Int /\ a.lcyl \in Int /\ a.sector \in Int
      /\ ByteMod \in Int /\ Heads \in Int /\ Sectors \in Int
  BY AtaAssumption DEF Addr, Byte
<1>2. Cylinder \in Int
  BY <1>1 DEF Cylinder
<1>3. (a.hcyl * ByteMod + a.lcyl) * Cylinder \in Int /\ a.head * Sectors \in Int
  BY <1>1, <1>2
<1>4. (a.head * ByteMod + a.hcyl) * ByteMod \in Int
  BY <1>1
<1>5. ((a.head * ByteMod + a.hcyl) * ByteMod + a.lcyl) * ByteMod \in Int
  BY <1>1, <1>4
<1> QED
  BY <1>1, <1>3, <1>5 DEF GetSector

\* Both ways of writing an address give the sector back, the one after the last included.
LEMMA SetThenGet ==
  ASSUME Addressable, NEW a \in Addr, NEW s \in 0 .. NbSectors
  PROVE  GetSector(SetSector(a, s)) = s
<1> DEFINE B == ByteMod
<1>1. /\ B \in Nat \ {0} /\ HeadMod \in Nat \ {0} /\ Sectors \in Nat \ {0} /\ Heads \in Nat \ {0}
      /\ Cylinder \in Nat \ {0} /\ s \in Nat /\ NbSectors \in Nat
  BY AtaAssumption DEF Cylinder
<1>2. a.lba \in {0, 1}
  BY DEF Addr
<1>3. CASE a.lba = 1
  <2> DEFINE d1 == s \div B
             d2 == d1 \div B
             d3 == d2 \div B
  <2>1. d1 \in Nat /\ s % B \in 0 .. B - 1 /\ s = B * d1 + (s % B)
    BY <1>1, DivModNat
  <2> HIDE DEF d1
  <2>2. d2 \in Nat /\ d1 % B \in 0 .. B - 1 /\ d1 = B * d2 + (d1 % B)
    BY <1>1, <2>1, DivModNat
  <2> HIDE DEF d2
  <2>3. d3 \in Nat /\ d2 % B \in 0 .. B - 1 /\ d2 = B * d3 + (d2 % B)
    BY <1>1, <2>2, DivModNat
  <2> HIDE DEF d3
  <2>4. s \div (B * B) = d2
    BY <1>1, DivTwice DEF d1, d2
  <2>5. B * B \in Nat \ {0}
    BY <1>1
  <2>6. s \div ((B * B) * B) = d3
    <3> DEFINE bb == B * B
    <3>1. bb \in Nat \ {0} /\ s \div bb = d2
      BY <2>4, <2>5
    <3> HIDE DEF bb
    <3>2. s \div (bb * B) = (s \div bb) \div B
      BY <1>1, <3>1, DivTwice
    <3> QED
      BY <3>1, <3>2 DEF bb, d3
  <2>7. d3 \in 0 .. HeadMod - 1
    <3> DEFINE bbb == (B * B) * B
    <3>1. B * (B * B) = bbb
      BY <1>1
    <3>2. bbb \in Nat \ {0}
      <4> DEFINE bb == B * B
      <4>1. bb \in Nat \ {0}
        BY <2>5
      <4> HIDE DEF bb
      <4>2. bb * B \in Nat \ {0}
        BY <1>1, <4>1
      <4> QED
        BY <4>2 DEF bb
    <3>3. NbSectors < HeadMod * bbb
      BY <3>1 DEF Addressable
    <3>4. s \div bbb = d3
      BY <2>6
    <3> HIDE DEF bbb
    <3>5. HeadMod * bbb = bbb * HeadMod
      BY <1>1, <3>2
    <3>6. s < bbb * HeadMod
      BY <1>1, <3>2, <3>3, <3>5
    <3>7. s \div bbb \in 0 .. HeadMod - 1
      BY <1>1, <3>2, <3>6, DivBelow
    <3> QED
      BY <3>4, <3>7
  <2>8. d3 % HeadMod = d3
    BY <1>1, <2>7, ModSmall
  <2>9. SetSector(a, s) = [lba |-> 1, head |-> d3, hcyl |-> d2 % B, lcyl |-> d1 % B, sector |-> s % B]
    BY <1>3, <2>4, <2>6, <2>8 DEF SetSector, d1
  <2>10. GetSector(SetSector(a, s)) = ((d3 * B + (d2 % B)) * B + (d1 % B)) * B + (s % B)
    BY <2>9 DEF GetSector
  <2>11. d3 * B = B * d3 /\ d2 * B = B * d2 /\ d1 * B = B * d1
    BY <1>1, <2>1, <2>2, <2>3
  <2>12. d3 * B + (d2 % B) = d2 /\ d2 * B + (d1 % B) = d1 /\ d1 * B + (s % B) = s
    BY <2>1, <2>2, <2>3, <2>11
  <2> QED
    BY <2>10, <2>12
<1>4. CASE a.lba = 0
  <2> DEFINE c == s \div Cylinder
             t == s % Cylinder
             e == c \div B
             h == t \div Sectors
  <2>1. c \in Nat /\ t \in 0 .. Cylinder - 1 /\ s = Cylinder * c + t
    BY <1>1, DivModNat
  <2>2. c \in 0 .. (B * B) - 1
    <3>1. NbSectors < (B * B) * Cylinder /\ B * B \in Nat
      BY <1>1 DEF Addressable
    <3> DEFINE bb == B * B
    <3>2. bb \in Nat /\ NbSectors < bb * Cylinder
      BY <3>1
    <3> HIDE DEF bb
    <3>3. s < Cylinder * bb
      BY <1>1, <3>2
    <3>4. c \in 0 .. bb - 1
      BY <1>1, <3>2, <3>3, DivBelow
    <3> QED
      BY <3>4 DEF bb
  <2>3. SetSector(a, s) = [lba |-> 0, head |-> (t \div Sectors) % HeadMod, hcyl |-> (c \div B) % B,
                           lcyl |-> c % B, sector |-> ((t % Sectors) + 1) % B]
    BY <1>4 DEF SetSector
  <2> HIDE DEF c, t
  <2>4. e \in 0 .. B - 1 /\ c % B \in 0 .. B - 1 /\ c = B * e + (c % B)
    <3>1. c \in Nat /\ c < B * B
      BY <1>1, <2>1, <2>2
    <3>2. e \in 0 .. B - 1
      BY <1>1, <3>1, DivBelow
    <3> QED
      BY <1>1, <3>1, <3>2, DivModNat
  <2>5. h \in 0 .. Heads - 1 /\ t % Sectors \in 0 .. Sectors - 1 /\ t = Sectors * h + (t % Sectors)
    <3>1. t \in Nat /\ t < Sectors * Heads
      BY <1>1, <2>1 DEF Cylinder
    <3>2. h \in 0 .. Heads - 1
      BY <1>1, <3>1, DivBelow
    <3> QED
      BY <1>1, <3>1, <3>2, DivModNat
  <2> HIDE DEF e, h
  <2>6. h \in 0 .. HeadMod - 1 /\ (t % Sectors) + 1 \in 0 .. B - 1
    BY <1>1, <2>5 DEF Addressable
  <2>7. e % B = e /\ h % HeadMod = h /\ ((t % Sectors) + 1) % B = (t % Sectors) + 1
    BY <1>1, <2>4, <2>6, ModSmall
  <2>8. SetSector(a, s) = [lba |-> 0, head |-> h, hcyl |-> e, lcyl |-> c % B, sector |-> (t % Sectors) + 1]
    BY <2>3, <2>7 DEF e, h
  <2>9. GetSector(SetSector(a, s)) = (e * B + (c % B)) * Cylinder + h * Sectors + ((t % Sectors) + 1) - 1
    BY <2>8 DEF GetSector
  <2>10. e * B + (c % B) = c
    BY <1>1, <2>4
  <2>11. c * Cylinder = Cylinder * c /\ h * Sectors = Sectors * h
    BY <1>1, <2>1, <2>5
  <2>12. Cylinder * c \in Int /\ Sectors * h \in Int /\ t % Sectors \in Int
    BY <1>1, <2>1, <2>5
  <2>13. GetSector(SetSector(a, s)) = Cylinder * c + Sectors * h + ((t % Sectors) + 1) - 1
    BY <2>9, <2>10, <2>11
  <2> DEFINE x == Cylinder * c
             y == Sectors * h
             z == t % Sectors
  <2>14. /\ GetSector(SetSector(a, s)) = x + y + (z + 1) - 1 /\ s = x + t /\ t = y + z
         /\ x \in Int /\ y \in Int /\ z \in Int
    BY <2>1, <2>5, <2>12, <2>13
  <2> HIDE DEF x, y, z
  <2> QED
    BY <2>14
<1> QED
  BY <1>2, <1>3, <1>4

-----------------------------------------------------------------------------
(***************************************************************************)
(* Nothing leaves the buffer, whatever the guest does.                     *)
(***************************************************************************)
Buffers == [0 .. BufSize - 1 -> Val]

\* The part of the drive that a transfer changes, and the rest of it.
BlockOK ==
  /\ disk \in [Word -> Val]
  /\ addr \in Addr
  /\ nsector \in 0 .. CountMod - 1
  /\ status \subseteq Flags
  /\ req_nb_sectors \in 0 .. MaxMult
  /\ io_nb_sectors \in 0 .. MaxMult
  /\ data_index \in 0 .. data_end
  /\ data_end \in 0 .. BufSize
  /\ end_transfer_func \in Ends
  /\ io_buffer \in Buffers
  /\ irq \in {0, 1}

DriveOK ==
  /\ BlockOK
  /\ drive \in {"disk", "none"}
  /\ mult_sectors \in 0 .. MaxMult
  /\ cmd \in [reset : {0, 1}, nien : {0, 1}]

\* InBuffer is the drive's part, the driver's and the disk's.
LEMMA Parts == InBuffer <=> DriveOK /\ driver \in Driver /\ want \in [Word -> Val]
<1>1. BufSize \in Nat /\ MaxMult \in Nat
  BY AtaAssumption DEF BufSize
<1> QED
  BY <1>1 DEF InBuffer, TypeOK, DriveOK, BlockOK, Buffers

\* What the assumption on the constants says of the derived sizes.
LEMMA Constants ==
  /\ MaxMult \in Nat \ {0, 1} /\ Words \in Nat \ {0} /\ BufSize \in Nat \ {0} /\ CountMod \in Nat \ {0}
  /\ NbSectors \in Nat \ {0} /\ NbSectors * Words \in Nat \ {0} /\ ByteMod \in Nat \ {0}
  /\ 0 \in Val
<1>1. /\ MaxMult \in Nat \ {0, 1} /\ Words \in Nat \ {0} /\ CountMod \in Nat \ {0} /\ NbSectors \in Nat \ {0}
      /\ ByteMod \in Nat \ {0}
  BY AtaAssumption
<1>2. BufSize \in Nat \ {0}
  BY <1>1 DEF BufSize
<1>3. NbSectors * Words \in Nat \ {0}
  BY <1>1
<1>4. 0 \in Val
  BY <1>3 DEF Val
<1> QED
  BY <1>1, <1>2, <1>3, <1>4

\* n sectors fit the buffer.
LEMMA BlockSize ==
  ASSUME NEW n \in 0 .. MaxMult
  PROVE  n * Words \in 0 .. BufSize
<1>1. n \in Int /\ MaxMult \in Int /\ Words \in Nat /\ n <= MaxMult /\ 0 <= n
  BY Constants
<1>2. n * Words <= MaxMult * Words /\ 0 * Words <= n * Words
  BY <1>1, MulOrder
<1>3. n * Words \in Int /\ 0 * Words = 0 /\ MaxMult * Words \in Int
  BY <1>1
<1> QED
  BY <1>2, <1>3 DEF BufSize

\* What the block device serves is on the disk.
LEMMA InImage ==
  ASSUME NEW s \in Int, NEW n \in Nat, InRange(s, n), NEW i \in 0 .. (n * Words) - 1
  PROVE  s * Words + i \in Word
<1>1. s \in Nat /\ s + n <= NbSectors /\ s + n \in Int /\ Words \in Nat /\ NbSectors \in Int
  BY Constants DEF InRange
<1>2. (s + n) * Words <= NbSectors * Words
  BY <1>1, MulOrder
<1>3. (s + n) * Words = s * Words + n * Words /\ s * Words \in Nat /\ n * Words \in Nat
  BY <1>1
<1> DEFINE x == s * Words
           y == n * Words
           z == NbSectors * Words
<1>4. x \in Nat /\ y \in Nat /\ z \in Nat /\ x + y <= z /\ i \in 0 .. y - 1
  BY <1>2, <1>3, Constants
<1> HIDE DEF x, y, z
<1>5. x + i \in 0 .. z - 1
  BY <1>4
<1> QED
  BY <1>5 DEF Word, x, z

\* The buffer after a block has been read into it.
LEMMA ReadBuffer ==
  ASSUME NEW d \in [Word -> Val], NEW s \in Int, NEW n \in Nat, InRange(s, n), NEW buf \in Buffers
  PROVE  [i \in 0 .. BufSize - 1 |-> IF i < n * Words THEN d[s * Words + i] ELSE buf[i]] \in Buffers
<1>1. n * Words \in Nat /\ BufSize \in Nat
  BY Constants
<1>2. \A i \in 0 .. BufSize - 1 : i < n * Words => s * Words + i \in Word
  <2> SUFFICES ASSUME NEW i \in 0 .. BufSize - 1, i < n * Words PROVE s * Words + i \in Word
    OBVIOUS
  <2>1. i \in 0 .. (n * Words) - 1
    BY <1>1
  <2> QED
    BY <2>1, InImage
<1> HIDE DEF Word, Val
<1>3. \A i \in 0 .. BufSize - 1 : (IF i < n * Words THEN d[s * Words + i] ELSE buf[i]) \in Val
  BY <1>2 DEF Buffers
<1> QED
  BY <1>3 DEF Buffers

\* The disk after part of a block has been written to it.
LEMMA DiskWithType ==
  ASSUME disk \in [Word -> Val], NEW s \in Int, NEW k \in 0 .. MaxMult, NEW buf \in Buffers
  PROVE  DiskWith(s, k, buf) \in [Word -> Val]
<1>1. k * Words \in 0 .. BufSize /\ BufSize \in Nat /\ Words \in Nat /\ k \in Nat
  BY BlockSize, Constants
<1>2. (s + k) * Words = s * Words + k * Words /\ s * Words \in Int
  BY <1>1
<1> DEFINE x == s * Words
           y == k * Words
<1>3. (s + k) * Words = x + y /\ x \in Int /\ y \in 0 .. BufSize
  BY <1>1, <1>2
<1> HIDE DEF x, y
<1>4. \A w \in Word : w \in x .. (x + y) - 1 => w - x \in 0 .. BufSize - 1
  BY <1>1, <1>3, Constants DEF Word
<1>5. \A w \in Word : w \in s * Words .. (s + k) * Words - 1 => w - s * Words \in 0 .. BufSize - 1
  BY <1>3, <1>4 DEF x
<1>6. \A w \in Word : (IF w \in s * Words .. (s + k) * Words - 1 THEN buf[w - s * Words] ELSE disk[w]) \in Val
  <2> SUFFICES ASSUME NEW w \in Word
               PROVE  (IF w \in s * Words .. (s + k) * Words - 1 THEN buf[w - s * Words] ELSE disk[w]) \in Val
    OBVIOUS
  <2> DEFINE in == w \in s * Words .. (s + k) * Words - 1
             j  == w - s * Words
  <2>1. in => j \in 0 .. BufSize - 1
    BY <1>5
  <2>2. disk[w] \in Val
    OBVIOUS
  <2> HIDE DEF in, j, Val
  <2>3. (IF in THEN buf[j] ELSE disk[w]) \in Val
    BY <2>1, <2>2 DEF Buffers
  <2> QED
    BY <2>3 DEF in, j
<1> QED
  BY <1>6 DEF DiskWith

\* ide_set_irq keeps the line a level.
LEMMA RaiseType ==
  ASSUME irq \in {0, 1}, Raise
  PROVE  irq' \in {0, 1}
BY DEF Raise

\* ide_abort_command ends a command with ERR and without DRQ.
LEMMA AbortType ==
  ASSUME irq \in {0, 1}, Abort
  PROVE  irq' \in {0, 1} /\ status' = {"DRDY", "ERR"} /\ status' \subseteq Flags
BY RaiseType DEF Abort, Flags

\* How many sectors the next block has.
LEMMA BlockCount ==
  ASSUME NEW c \in 0 .. CountMod - 1, NEW req \in 0 .. MaxMult
  PROVE  /\ Count(c) \in 1 .. CountMod
         /\ Lesser(Count(c), req) \in 0 .. MaxMult
         /\ Lesser(Count(c), req) <= Count(c) /\ Lesser(Count(c), req) <= req
         /\ req # 0 => Lesser(Count(c), req) # 0
BY Constants DEF Count, Lesser

\* A transfer of size words starts, or there is none.
LEMMA StartType ==
  ASSUME NEW size \in 0 .. BufSize, NEW func \in Ends, NEW buf \in Buffers, Start(size, func, buf)
  PROVE  /\ data_index' \in 0 .. data_end' /\ data_end' \in 0 .. BufSize
         /\ end_transfer_func' \in Ends /\ io_buffer' \in Buffers
BY Constants DEF Start

\* ide_transfer_stop leaves nothing in the buffer to move.
LEMMA StopType ==
  ASSUME NEW buf \in Buffers, Stop(buf)
  PROVE  /\ data_index' \in 0 .. data_end' /\ data_end' \in 0 .. BufSize
         /\ end_transfer_func' \in Ends /\ io_buffer' \in Buffers
BY StartType, Constants DEF Stop, Ends

\* ide_sector_read stays within the buffer and the disk.
LEMMA SectorReadType ==
  ASSUME BlockOK, NEW a \in Addr, NEW c \in 0 .. CountMod - 1, NEW req \in 0 .. MaxMult,
         NEW index \in 0 .. data_end, NEW buf \in Buffers, SectorRead(a, c, req, index, buf)
  PROVE  BlockOK'
<1> DEFINE n == Lesser(Count(c), req)
           s == GetSector(a)
           rd == [i \in 0 .. BufSize - 1 |-> IF i < n * Words THEN disk[s * Words + i] ELSE buf[i]]
<1>1. n \in 0 .. MaxMult /\ n \in Nat
  BY BlockCount
<1>2. s \in Int
  BY GetSectorType
<1>3. /\ req_nb_sectors' = req /\ io_nb_sectors' = n /\ disk' = disk
      /\ \/ /\ InRange(s, n)
            /\ addr' = SetSector(a, s + n) /\ nsector' = (c - n) % CountMod
            /\ Start(n * Words, IF nsector' = 0 THEN "read_end" ELSE "read", rd)
            /\ status' = {"DRDY", "DSC", "DRQ"}
            /\ Raise
         \/ /\ Abort
            /\ addr' = a /\ nsector' = c
            /\ data_index' = index /\ io_buffer' = buf
            /\ data_end' = data_end /\ end_transfer_func' = end_transfer_func
  BY DEF SectorRead, Registers
<1> HIDE DEF n, s
<1>4. /\ disk \in [Word -> Val] /\ irq \in {0, 1} /\ end_transfer_func \in Ends
      /\ data_end \in 0 .. BufSize
  BY DEF BlockOK
<1>5. CASE /\ InRange(s, n)
           /\ addr' = SetSector(a, s + n) /\ nsector' = (c - n) % CountMod
           /\ Start(n * Words, IF nsector' = 0 THEN "read_end" ELSE "read", rd)
           /\ status' = {"DRDY", "DSC", "DRQ"}
           /\ Raise
  <2>1. rd \in Buffers
    BY <1>1, <1>2, <1>4, <1>5, ReadBuffer
  <2>2. s + n \in Nat
    BY <1>1, <1>2, <1>5 DEF InRange
  <2>3. addr' \in Addr
    BY <1>5, <2>2, SetSectorType
  <2>4. nsector' \in 0 .. CountMod - 1
    <3>1. c - n \in Int /\ CountMod \in Nat \ {0}
      BY <1>1, Constants
    <3> QED
      BY <1>5, <3>1, ModType
  <2>5. irq' \in {0, 1}
    BY <1>4, <1>5, RaiseType
  <2>6. status' \subseteq Flags
    BY <1>5 DEF Flags
  <2> DEFINE func == IF nsector' = 0 THEN "read_end" ELSE "read"
  <2>7. func \in Ends /\ n * Words \in 0 .. BufSize
    BY <1>1, BlockSize DEF Ends
  <2> HIDE DEF rd, func
  <2>8. Start(n * Words, func, rd)
    BY <1>5 DEF func
  <2>9. /\ data_index' \in 0 .. data_end' /\ data_end' \in 0 .. BufSize
        /\ end_transfer_func' \in Ends /\ io_buffer' \in Buffers
    BY <2>1, <2>7, <2>8, StartType
  <2> QED
    BY <1>1, <1>3, <1>4, <2>3, <2>4, <2>5, <2>6, <2>9 DEF BlockOK
<1>6. CASE /\ Abort
           /\ addr' = a /\ nsector' = c
           /\ data_index' = index /\ io_buffer' = buf
           /\ data_end' = data_end /\ end_transfer_func' = end_transfer_func
  <2>1. irq' \in {0, 1} /\ status' \subseteq Flags
    BY <1>4, <1>6, AbortType
  <2> QED
    BY <1>1, <1>3, <1>4, <1>6, <2>1 DEF BlockOK
<1> QED
  BY <1>3, <1>5, <1>6

\* ide_sector_write asks for no more than the buffer holds.
LEMMA SectorWriteType ==
  ASSUME BlockOK, NEW a \in Addr, NEW c \in 0 .. CountMod - 1, NEW req \in 0 .. MaxMult,
         SectorWrite(a, c, req)
  PROVE  BlockOK'
<1> DEFINE n == Lesser(Count(c), req)
<1>1. n \in 0 .. MaxMult /\ n * Words \in 0 .. BufSize
  BY BlockCount, BlockSize
<1>2. /\ req_nb_sectors' = req /\ io_nb_sectors' = n /\ Start(n * Words, "write", io_buffer)
      /\ status' = {"DRDY", "DSC", "DRQ"} /\ addr' = a /\ nsector' = c /\ disk' = disk /\ irq' = irq
  BY DEF SectorWrite, Registers
<1> HIDE DEF n
<1>3. io_buffer \in Buffers /\ "write" \in Ends /\ status' \subseteq Flags
  BY <1>2 DEF BlockOK, Ends, Flags
<1>4. /\ data_index' \in 0 .. data_end' /\ data_end' \in 0 .. BufSize
      /\ end_transfer_func' \in Ends /\ io_buffer' \in Buffers
  BY <1>1, <1>2, <1>3, StartType
<1> QED
  BY <1>1, <1>2, <1>3, <1>4 DEF BlockOK

\* ide_sector_write_cb2 stays within the disk and the buffer.
LEMMA WriteBlockType ==
  ASSUME BlockOK, NEW buf \in Buffers, WriteBlock(buf)
  PROVE  BlockOK'
<1> DEFINE s == GetSector(addr)
           n == io_nb_sectors
           left == (nsector - n) % CountMod
           m == Lesser(left, req_nb_sectors)
<1>1. /\ addr \in Addr /\ n \in 0 .. MaxMult /\ nsector \in 0 .. CountMod - 1
      /\ req_nb_sectors \in 0 .. MaxMult /\ disk \in [Word -> Val] /\ irq \in {0, 1}
  BY DEF BlockOK
<1>2. s \in Int
  BY <1>1, GetSectorType
<1>3. \/ /\ InRange(s, n) /\ disk' = DiskWith(s, n, buf) /\ WriteBlockDone(buf)
      \/ /\ \/ disk' = disk
            \/ \E k \in 0 .. n : disk' = DiskWith(s, k, buf)
         /\ Stop(buf) /\ Abort
         /\ UNCHANGED <<regs, counts>>
  BY DEF WriteBlock
<1>4. WriteBlockDone(buf) <=>
        /\ addr' = SetSector(addr, s + n)
        /\ nsector' = left
        /\ IF left = 0
           THEN Stop(buf) /\ status' = {"DRDY", "DSC"} /\ UNCHANGED io_nb_sectors
           ELSE /\ io_nb_sectors' = m
                /\ Start(m * Words, "write", buf)
                /\ status' = {"DRDY", "DSC", "DRQ"}
        /\ Raise
        /\ UNCHANGED req_nb_sectors
  BY DEF WriteBlockDone
<1>5. CASE InRange(s, n) /\ disk' = DiskWith(s, n, buf) /\ WriteBlockDone(buf)
  <2>1. left \in 0 .. CountMod - 1
    <3>1. nsector - n \in Int /\ CountMod \in Nat \ {0}
      BY <1>1, Constants
    <3> QED
      BY <3>1, ModType
  <2> HIDE DEF s, n, left
  <2>2. m \in 0 .. MaxMult
    BY <1>1, <2>1, Constants DEF Lesser
  <2> HIDE DEF m
  <2>3. m * Words \in 0 .. BufSize
    BY <2>2, BlockSize
  <2>4. disk' \in [Word -> Val]
    BY <1>1, <1>2, <1>5, DiskWithType
  <2>5. s + n \in Nat
    BY <1>1, <1>2, <1>5 DEF InRange
  <2>6. addr' \in Addr /\ nsector' \in 0 .. CountMod - 1
    BY <1>1, <1>4, <1>5, <2>1, <2>5, SetSectorType
  <2>7. irq' \in {0, 1}
    BY <1>1, <1>4, <1>5, RaiseType
  <2>8. CASE left = 0
    <3>1. Stop(buf) /\ status' = {"DRDY", "DSC"} /\ io_nb_sectors' = n /\ req_nb_sectors' = req_nb_sectors
      BY <1>4, <1>5, <2>8 DEF n
    <3>2. status' \subseteq Flags
      BY <3>1 DEF Flags
    <3> QED
      BY <1>1, <2>4, <2>6, <2>7, <3>1, <3>2, StopType DEF BlockOK
  <2>9. CASE left # 0
    <3>1. /\ io_nb_sectors' = m /\ Start(m * Words, "write", buf) /\ status' = {"DRDY", "DSC", "DRQ"}
          /\ req_nb_sectors' = req_nb_sectors
      BY <1>4, <1>5, <2>9
    <3>2. status' \subseteq Flags /\ "write" \in Ends
      BY <3>1 DEF Flags, Ends
    <3>3. /\ data_index' \in 0 .. data_end' /\ data_end' \in 0 .. BufSize
          /\ end_transfer_func' \in Ends /\ io_buffer' \in Buffers
      BY <2>3, <3>1, <3>2, StartType
    <3> QED
      BY <1>1, <2>2, <2>4, <2>6, <2>7, <3>1, <3>2, <3>3 DEF BlockOK
  <2> QED
    BY <2>8, <2>9
<1>6. CASE /\ \/ disk' = disk
              \/ \E k \in 0 .. n : disk' = DiskWith(s, k, buf)
           /\ Stop(buf) /\ Abort
           /\ UNCHANGED <<regs, counts>>
  <2>1. \A k \in 0 .. n : k \in 0 .. MaxMult
    BY <1>1, Constants
  <2> HIDE DEF s
  <2>2. disk' \in [Word -> Val]
    BY <1>1, <1>2, <1>6, <2>1, DiskWithType
  <2>3. irq' \in {0, 1} /\ status' \subseteq Flags
    BY <1>1, <1>6, AbortType
  <2>4. addr' = addr /\ nsector' = nsector /\ req_nb_sectors' = req_nb_sectors /\ io_nb_sectors' = io_nb_sectors
    BY <1>6 DEF regs, counts
  <2> QED
    BY <1>1, <1>6, <2>2, <2>3, <2>4, StopType DEF BlockOK
<1> QED
  BY <1>3, <1>5, <1>6

\* Words have been moved: the transfer goes on, or its end function runs.
LEMMA MovedType ==
  ASSUME DriveOK, NEW len \in 0 .. Left, NEW buf \in Buffers, Moved(len, buf)
  PROVE  DriveOK'
<1>1. /\ BlockOK /\ data_index \in Nat /\ data_end \in 0 .. BufSize /\ data_index <= data_end
      /\ BufSize \in Nat
  BY Constants DEF DriveOK, BlockOK
<1>2. data_index + len \in 0 .. data_end
  BY <1>1 DEF Left
<1>3. drive' = drive /\ mult_sectors' = mult_sectors /\ cmd' = cmd
  BY DEF Moved
<1>4. ASSUME EndTransfer(data_index + len, buf) PROVE BlockOK'
  <2>1. CASE /\ end_transfer_func \in {"stop", "identify", "read_end"}
             /\ Stop(buf)
             /\ status' = CASE end_transfer_func = "stop"     -> status
                            [] end_transfer_func = "identify" -> {"DRDY"}
                            [] end_transfer_func = "read_end" -> {"DRDY", "DSC"}
             /\ UNCHANGED <<disk, regs, counts, irq>>
    <3>1. status' \subseteq Flags
      BY <1>1, <2>1 DEF BlockOK, Flags
    <3>2. /\ disk' = disk /\ addr' = addr /\ nsector' = nsector /\ req_nb_sectors' = req_nb_sectors
          /\ io_nb_sectors' = io_nb_sectors /\ irq' = irq
      BY <2>1 DEF regs, counts
    <3> QED
      BY <1>1, <2>1, <3>1, <3>2, StopType DEF BlockOK
  <2>2. CASE SectorRead(addr, nsector, req_nb_sectors, data_index + len, buf)
    <3>1. addr \in Addr /\ nsector \in 0 .. CountMod - 1 /\ req_nb_sectors \in 0 .. MaxMult
      BY <1>1 DEF BlockOK
    <3> QED
      BY <1>1, <1>2, <2>2, <3>1, SectorReadType
  <2>3. CASE WriteBlock(buf)
    BY <1>1, <2>3, WriteBlockType
  <2> QED
    BY <1>4, <2>1, <2>2, <2>3 DEF EndTransfer
<1>5. ASSUME /\ data_index' = data_index + len
             /\ io_buffer' = buf
             /\ UNCHANGED <<data_end, end_transfer_func, disk, regs, counts, status, irq>>
      PROVE  BlockOK'
  <2>1. /\ disk' = disk /\ addr' = addr /\ nsector' = nsector /\ req_nb_sectors' = req_nb_sectors
        /\ io_nb_sectors' = io_nb_sectors /\ irq' = irq /\ status' = status /\ data_end' = data_end
        /\ end_transfer_func' = end_transfer_func
    BY <1>5 DEF regs, counts
  <2> QED
    BY <1>1, <1>2, <1>5, <2>1 DEF BlockOK
<1>6. BlockOK'
  BY <1>4, <1>5 DEF Moved
<1> QED
  BY <1>3, <1>6 DEF DriveOK

\* ide_exec_cmd.
LEMMA ExecType ==
  ASSUME DriveOK, NEW op, NEW a \in Addr, NEW c \in 0 .. CountMod - 1, Exec(op, a, c)
  PROVE  DriveOK'
<1>1. BlockOK /\ irq \in {0, 1} /\ io_buffer \in Buffers /\ data_index \in 0 .. data_end
  BY DEF DriveOK, BlockOK
<1>2. drive' = drive /\ cmd' = cmd
  BY DEF Exec
<1>3. mult_sectors \in 0 .. MaxMult
  BY DEF DriveOK
<1>4. ASSUME BlockOK', mult_sectors' \in 0 .. MaxMult PROVE DriveOK'
  BY <1>2, <1>4 DEF DriveOK
<1>5. ASSUME Raise \/ irq' = irq, status' \subseteq Flags, addr' \in Addr, nsector' \in 0 .. CountMod - 1,
             UNCHANGED <<disk, counts, transfer>>
      PROVE  BlockOK'
  <2>1. irq' \in {0, 1}
    BY <1>1, <1>5, RaiseType
  <2>2. /\ disk' = disk /\ req_nb_sectors' = req_nb_sectors /\ io_nb_sectors' = io_nb_sectors
        /\ data_index' = data_index /\ data_end' = data_end /\ end_transfer_func' = end_transfer_func
        /\ io_buffer' = io_buffer
    BY <1>5 DEF counts, transfer
  <2> QED
    BY <1>1, <1>5, <2>1, <2>2 DEF BlockOK
<1>6. CASE Identify(a, c)
  <2> DEFINE id == [i \in 0 .. BufSize - 1 |-> IF i < 2 * Words THEN Id ELSE io_buffer[i]]
  <2>1. id \in Buffers
    <3> HIDE DEF Val
    <3> QED
      BY <1>1, Constants DEF Buffers, Id
  <2>2. /\ Start(Words, "identify", id) /\ status' = {"DRDY", "DSC", "DRQ"} /\ Raise
        /\ addr' = a /\ nsector' = c
        /\ disk' = disk /\ mult_sectors' = mult_sectors
        /\ req_nb_sectors' = req_nb_sectors /\ io_nb_sectors' = io_nb_sectors
    BY <1>6 DEF Identify, Registers, counts
  <2>3. Words \in 0 .. BufSize /\ "identify" \in Ends /\ status' \subseteq Flags
    <3>1. 1 * Words \in 0 .. BufSize
      BY BlockSize, Constants
    <3> QED
      BY <2>2, <3>1, Constants DEF Ends, Flags
  <2> HIDE DEF id
  <2>4. /\ data_index' \in 0 .. data_end' /\ data_end' \in 0 .. BufSize
        /\ end_transfer_func' \in Ends /\ io_buffer' \in Buffers
    BY <2>1, <2>2, <2>3, StartType
  <2>5. irq' \in {0, 1}
    BY <1>1, <2>2, RaiseType
  <2> QED
    BY <1>1, <1>3, <1>4, <2>2, <2>3, <2>4, <2>5 DEF BlockOK
<1>7. ASSUME Recalibrate(a, c) PROVE DriveOK'
  <2>1. /\ Raise /\ status' \subseteq Flags /\ addr' = a /\ nsector' = c
        /\ UNCHANGED <<disk, counts, transfer>> /\ mult_sectors' = mult_sectors
    BY <1>7 DEF Recalibrate, Registers, Flags
  <2> QED
    BY <1>3, <1>4, <1>5, <2>1
<1>8. ASSUME AbortOnly(a, c) PROVE DriveOK'
  <2>1. /\ Raise /\ status' \subseteq Flags /\ addr' = a /\ nsector' = c
        /\ UNCHANGED <<disk, counts, transfer>> /\ mult_sectors' = mult_sectors
    BY <1>8 DEF AbortOnly, Abort, Registers, Flags
  <2> QED
    BY <1>3, <1>4, <1>5, <2>1
<1>9. CASE SetMult(a, c)
  <2>1. /\ Raise /\ status' \subseteq Flags /\ addr' = a /\ nsector' = c
        /\ UNCHANGED <<disk, counts, transfer>>
    BY <1>9 DEF SetMult, Abort, Registers, Flags
  <2>2. mult_sectors' = mult_sectors \/ (mult_sectors' = c /\ c <= MaxMult)
    BY <1>9 DEF SetMult
  <2>3. mult_sectors' \in 0 .. MaxMult
    BY <1>3, <2>2, Constants
  <2> QED
    BY <1>4, <1>5, <2>1, <2>3
<1>10. ASSUME NEW req \in 0 .. MaxMult, SectorRead(a, c, req, data_index, io_buffer), UNCHANGED mult_sectors
       PROVE  DriveOK'
  BY <1>1, <1>3, <1>4, <1>10, SectorReadType
<1>11. ASSUME NEW req \in 0 .. MaxMult, SectorWrite(a, c, req), UNCHANGED mult_sectors
       PROVE  DriveOK'
  BY <1>1, <1>3, <1>4, <1>11, SectorWriteType
<1>12. CASE Read(a, c) \/ Write(a, c)
  <2>1. 1 \in 0 .. MaxMult
    BY Constants
  <2> QED
    BY <1>10, <1>11, <1>12, <2>1 DEF Read, Write
<1>13. CASE MultRead(a, c) \/ MultWrite(a, c)
  BY <1>3, <1>8, <1>10, <1>11, <1>13 DEF MultRead, MultWrite
<1>14. CASE ReadNativeMax(a, c)
  <2>1. /\ Raise /\ status' \subseteq Flags /\ addr' = SetSector(a, NbSectors - 1) /\ nsector' = c
        /\ UNCHANGED <<disk, counts, transfer>> /\ mult_sectors' = mult_sectors
    BY <1>14 DEF ReadNativeMax, Registers, Flags
  <2>2. NbSectors - 1 \in Nat
    BY Constants
  <2>3. addr' \in Addr
    BY <2>1, <2>2, SetSectorType
  <2> QED
    BY <1>3, <1>4, <1>5, <2>1, <2>3
<1>15. CASE FlushCache(a, c)
  BY <1>7, <1>8, <1>15 DEF FlushCache
<1> QED
  BY <1>6, <1>7, <1>8, <1>9, <1>12, <1>13, <1>14, <1>15 DEF Exec

\* The other ports.
LEMMA PortsType ==
  ASSUME DriveOK, WriteCount \/ WriteAddress \/ SelectDrive \/ ReadStatus \/ Control
  PROVE  DriveOK'
<1>1. ASSUME UNCHANGED <<disk, counts, transfer>>, mult_sectors' = mult_sectors,
             drive' \in {"disk", "none"}, addr' \in Addr, nsector' \in 0 .. CountMod - 1,
             status' \subseteq Flags, irq' \in {0, 1}, cmd' \in [reset : {0, 1}, nien : {0, 1}]
      PROVE  DriveOK'
  <2>1. /\ disk' = disk /\ req_nb_sectors' = req_nb_sectors /\ io_nb_sectors' = io_nb_sectors
        /\ data_index' = data_index /\ data_end' = data_end /\ end_transfer_func' = end_transfer_func
        /\ io_buffer' = io_buffer
    BY <1>1 DEF counts, transfer
  <2> QED
    BY <1>1, <2>1 DEF DriveOK, BlockOK
<1>2. /\ drive \in {"disk", "none"} /\ addr \in Addr /\ nsector \in 0 .. CountMod - 1
      /\ status \subseteq Flags /\ irq \in {0, 1} /\ cmd \in [reset : {0, 1}, nien : {0, 1}]
  BY DEF DriveOK, BlockOK
<1>3. CASE WriteCount
  BY <1>1, <1>2, <1>3 DEF WriteCount
<1>4. CASE WriteAddress
  <2>1. addr' \in Addr
    BY <1>2, <1>4 DEF WriteAddress, Addr
  <2> QED
    BY <1>1, <1>2, <1>4, <2>1 DEF WriteAddress
<1>5. CASE SelectDrive
  <2>1. addr' \in Addr /\ drive' \in {"disk", "none"}
    <3>1. CASE UNCHANGED addr /\ drive' = "none"
      BY <1>2, <3>1
    <3>2. CASE /\ drive' = "disk"
               /\ \E l \in {0, 1}, h \in 0 .. HeadMod - 1 : addr' = [addr EXCEPT !.lba = l, !.head = h]
      BY <1>2, <3>2 DEF Addr
    <3> QED
      BY <1>5, <3>1, <3>2 DEF SelectDrive
  <2> QED
    BY <1>1, <1>2, <1>5, <2>1 DEF SelectDrive, regs
<1>6. CASE ReadStatus
  BY <1>1, <1>2, <1>6 DEF ReadStatus, regs
<1>7. CASE Control
  <2>1. PICK r \in {0, 1}, n \in {0, 1} : ControlWrite(r, n)
    BY <1>7 DEF Control
  <2>2. cmd' \in [reset : {0, 1}, nien : {0, 1}]
    BY <2>1 DEF ControlWrite
  <2>3. Signature \in Addr
    <3>1. 1 % ByteMod \in Byte /\ 0 \in Byte
      BY Constants, ModType DEF Byte
    <3>2. 0 \in 0 .. HeadMod - 1
      BY AtaAssumption
    <3> HIDE DEF Byte
    <3> QED
      BY <1>2, <3>1, <3>2 DEF Signature, Addr
  <2>4. 1 % CountMod \in 0 .. CountMod - 1
    BY Constants, ModType
  <2>5. status' \subseteq Flags /\ addr' \in Addr /\ nsector' \in 0 .. CountMod - 1
    BY <1>2, <2>1, <2>3, <2>4 DEF ControlWrite, Flags, regs
  <2> QED
    BY <1>1, <1>2, <2>1, <2>2, <2>5 DEF ControlWrite
<1> QED
  BY <1>3, <1>4, <1>5, <1>6, <1>7

\* No access moves more than is left.
LEMMA AccessFits ==
  ASSUME DriveOK, NEW len \in AccessSizes
  PROVE  len \in 0 .. Left
<1>1. Left \in Nat
  BY DEF DriveOK, BlockOK, Left
<1>2. CASE len \in {size \in {1, 2} : size <= Left}
  BY <1>1, <1>2
<1>3. CASE len \in {Moves(size, count) : size \in {1, 2}, count \in 1 .. BufSize}
  <2>1. PICK size \in {1, 2}, count \in 1 .. BufSize : len = Moves(size, count)
    BY <1>3
  <2> DEFINE m == Lesser(size * count, Left)
  <2>2. m \in 0 .. Left
    BY <1>1, Constants DEF Lesser
  <2>3. len = m - (m % size)
    BY <2>1 DEF Moves
  <2> HIDE DEF m
  <2>4. CASE size = 1
    BY <1>1, <2>2, <2>3, <2>4
  <2>5. CASE size = 2
    BY <1>1, <2>2, <2>3, <2>5
  <2> QED
    BY <2>4, <2>5
<1> QED
  BY <1>2, <1>3 DEF AccessSizes

\* What the guest writes at the data port lands in the buffer.
LEMMA StoredType ==
  ASSUME DriveOK, NEW len \in 0 .. Left, NEW f, \A i \in 0 .. BufSize - 1 : f[i] \in Val
  PROVE  Stored(len, f) \in Buffers
<1>1. data_index \in Nat /\ data_end \in Nat /\ data_end <= BufSize /\ BufSize \in Nat /\ len \in Nat
      /\ data_index + len <= data_end /\ io_buffer \in Buffers
  BY Constants DEF DriveOK, BlockOK, Left
<1>2. \A i \in 0 .. BufSize - 1 :
        i \in data_index .. data_index + len - 1 => i - data_index \in 0 .. BufSize - 1
  BY <1>1
<1> HIDE DEF Val
<1>3. \A i \in 0 .. BufSize - 1 :
        (IF i \in data_index .. data_index + len - 1 THEN f[i - data_index] ELSE io_buffer[i]) \in Val
  BY <1>1, <1>2 DEF Buffers
<1> QED
  BY <1>3 DEF Stored, Buffers

\* Any access to a port.
LEMMA AccessType ==
  ASSUME DriveOK, Access
  PROVE  DriveOK'
<1>1. /\ addr \in Addr /\ nsector \in 0 .. CountMod - 1 /\ io_buffer \in Buffers
  BY DEF DriveOK, BlockOK
<1>2. CASE Command
  BY <1>1, <1>2, ExecType DEF Command
<1>3. CASE WriteCount \/ WriteAddress \/ SelectDrive \/ ReadStatus \/ Control
  BY <1>3, PortsType
<1>4. CASE DataRead
  <2>1. PICK len \in AccessSizes : Moved(len, io_buffer)
    BY <1>4 DEF DataRead
  <2> QED
    BY <1>1, <2>1, AccessFits, MovedType
<1>5. CASE DataWrite
  <2> DEFINE f == [i \in 0 .. BufSize |-> 0]
  <2>1. PICK len \in AccessSizes : Moved(len, Stored(len, f))
    BY <1>5 DEF DataWrite
  <2>2. len \in 0 .. Left
    BY AccessFits
  <2>3. \A i \in 0 .. BufSize - 1 : f[i] \in Val
    <3> HIDE DEF Val
    <3> QED
      BY Constants
  <2> HIDE DEF f
  <2>4. Stored(len, f) \in Buffers
    BY <2>2, <2>3, StoredType
  <2> QED
    BY <2>1, <2>2, <2>4, MovedType
<1> QED
  BY <1>2, <1>3, <1>4, <1>5 DEF Access

\* The drive powers up in bounds.
LEMMA InitType == Init => InBuffer
<1> SUFFICES ASSUME Init PROVE InBuffer
  OBVIOUS
<1>1. disk \in [Word -> Val] /\ want \in [Word -> Val]
  <2>1. \A w \in Word : w \in Val
    BY Constants DEF Word, Val
  <2> HIDE DEF Word, Val
  <2> QED
    BY <2>1 DEF Init
<1>2. io_buffer \in Buffers
  <2> HIDE DEF Val
  <2> QED
    BY Constants DEF Init, Buffers
<1>3. 0 \in Byte /\ 0 \in 0 .. HeadMod - 1
  BY AtaAssumption DEF Byte
<1>4. addr \in Addr
  <2> HIDE DEF Byte
  <2> QED
    BY <1>3 DEF Init, Addr
<1>5. driver \in Driver
  <2>1. 0 \in 0 .. NbSectors /\ 0 \in 0 .. CountMod /\ 0 \in 0 .. CountMod * Words /\ 0 \in 0 .. MaxCommands
    BY AtaAssumption, Constants
  <2> QED
    BY <2>1 DEF Init, Idle, Driver
<1>6. BlockOK
  BY <1>1, <1>2, <1>4, Constants DEF Init, BlockOK, Flags, Ends
<1>7. DriveOK
  BY <1>6, Constants DEF Init, DriveOK
<1> QED
  BY <1>1, <1>5, <1>7, Parts

\* ide_transfer_start, ide_sector_read, ide_sector_write: whatever the guest does with the ports
\* and whatever the block device refuses, no word is moved outside io_buffer.
THEOREM NothingLeavesTheBuffer == Spec => []InBuffer
<1>1. Init => InBuffer
  BY InitType
<1>2. InBuffer /\ [Next]_vars => InBuffer'
  <2> SUFFICES ASSUME InBuffer, [Next]_vars PROVE InBuffer'
    OBVIOUS
  <2>1. DriveOK /\ driver \in Driver /\ want \in [Word -> Val]
    BY Parts
  <2>2. CASE Next
    <3>1. DriveOK'
      BY <2>1, <2>2, AccessType DEF Next
    <3>2. driver' = driver /\ want' = want
      BY <2>2 DEF Next, drvVars
    <3>3. BufSize \in Nat /\ MaxMult \in Nat
      BY Constants
    <3> QED
      BY <2>1, <3>1, <3>2, <3>3 DEF InBuffer, TypeOK, DriveOK, BlockOK, Buffers
  <2>3. CASE UNCHANGED vars
    BY <2>3 DEF vars, regs, counts, transfer, drvVars, InBuffer, TypeOK
  <2> QED
    BY <2>2, <2>3
<1> QED
  BY <1>1, <1>2, PTL DEF Spec

-----------------------------------------------------------------------------
(***************************************************************************)
(* What the drive does for a driver in step with it.  m sectors are left   *)
(* of the command, and the count register holds m, or 0 for the most.      *)
(***************************************************************************)
\* The count register after j of m sectors.
LEMMA CountDown ==
  ASSUME NEW m \in 1 .. CountMod, NEW j \in 1 .. m
  PROVE  /\ ((m % CountMod) - j) % CountMod = m - j
         /\ Count(m % CountMod) = m /\ m % CountMod \in 0 .. CountMod - 1
<1>1. CountMod \in Nat \ {0} /\ m - j \in 0 .. CountMod - 1
  BY Constants
<1>2. CASE m = CountMod
  <2>1. CountMod = CountMod * 1 + 0 /\ 0 \in 0 .. CountMod - 1 /\ 1 \in Int /\ CountMod \in Int
    BY <1>1
  <2>2. CountMod % CountMod = 0
    BY <1>1, <2>1, DivUnique
  <2>3. 0 - j = CountMod * (-1) + (m - j) /\ -1 \in Int /\ 0 - j \in Int
    BY <1>1, <1>2
  <2>4. (0 - j) % CountMod = m - j
    BY <1>1, <2>3, DivUnique
  <2> QED
    BY <1>1, <1>2, <2>2, <2>4 DEF Count
<1>3. CASE m # CountMod
  <2>1. m \in 0 .. CountMod - 1
    BY <1>1, <1>3
  <2>2. m % CountMod = m /\ (m - j) % CountMod = m - j
    BY <1>1, <2>1, ModSmall
  <2> QED
    BY <1>1, <2>1, <2>2 DEF Count
<1> QED
  BY <1>2, <1>3

\* With its interrupt enabled, the drive raises the line.
LEMMA Raised == ASSUME cmd.nien = 0, Raise PROVE irq' = 1
BY DEF Raise

\* ide_sector_read: the next block is in the buffer, or the command is aborted; both interrupt.
LEMMA ReadEffect ==
  ASSUME DriveOK, Addressable, cmd.nien = 0, NEW a \in Addr, NEW s \in 0 .. NbSectors, GetSector(a) = s,
         NEW m \in 1 .. CountMod, NEW req \in 1 .. MaxMult, NEW index, NEW buf,
         SectorRead(a, m % CountMod, req, index, buf)
  PROVE  /\ irq' = 1 /\ disk' = disk /\ req_nb_sectors' = req
         /\ \/ status' = {"DRDY", "ERR"}
            \/ /\ status' = {"DRDY", "DSC", "DRQ"} /\ data_index' = 0
               /\ \E j \in 1 .. m :
                    /\ data_end' = j * Words /\ s + j <= NbSectors /\ GetSector(addr') = s + j
                    /\ nsector' = m - j
                    /\ end_transfer_func' = IF nsector' = 0 THEN "read_end" ELSE "read"
                    /\ \A i \in 0 .. data_end' - 1 : io_buffer'[i] = disk[s * Words + i]
<1> DEFINE c == m % CountMod
           j == Lesser(Count(c), req)
           rd == [i \in 0 .. BufSize - 1 |-> IF i < j * Words THEN disk[s * Words + i] ELSE buf[i]]
<1>1. c \in 0 .. CountMod - 1 /\ Count(c) = m
  <2>1. 1 \in 1 .. m
    OBVIOUS
  <2> QED
    BY <2>1, CountDown
<1>2. /\ req_nb_sectors' = req /\ disk' = disk
      /\ \/ /\ InRange(s, j)
            /\ addr' = SetSector(a, s + j) /\ nsector' = (c - j) % CountMod
            /\ Start(j * Words, IF nsector' = 0 THEN "read_end" ELSE "read", rd)
            /\ status' = {"DRDY", "DSC", "DRQ"}
            /\ Raise
         \/ Abort
  BY DEF SectorRead, Registers
<1> HIDE DEF c
<1>3. j \in 1 .. m /\ j \in 0 .. MaxMult
  BY <1>1, Constants DEF Lesser
<1> HIDE DEF j
<1>4. CASE Abort
  BY <1>2, <1>4, Raised DEF Abort
<1>5. CASE /\ InRange(s, j)
           /\ addr' = SetSector(a, s + j) /\ nsector' = (c - j) % CountMod
           /\ Start(j * Words, IF nsector' = 0 THEN "read_end" ELSE "read", rd)
           /\ status' = {"DRDY", "DSC", "DRQ"}
           /\ Raise
  <2>1. s + j \in 0 .. NbSectors /\ s + j <= NbSectors
    BY <1>3, <1>5, Constants DEF InRange
  <2>2. GetSector(addr') = s + j
    BY <1>5, <2>1, SetThenGet
  <2>3. nsector' = m - j
    BY <1>3, <1>5, CountDown DEF c
  <2>4. /\ data_index' = 0 /\ data_end' = j * Words /\ io_buffer' = rd
        /\ end_transfer_func' = IF nsector' = 0 THEN "read_end" ELSE "read"
    BY <1>5 DEF Start
  <2>5. j * Words \in 0 .. BufSize /\ BufSize \in Nat
    BY <1>3, BlockSize, Constants
  <2>6. \A i \in 0 .. data_end' - 1 : io_buffer'[i] = disk[s * Words + i]
    <3> DEFINE e == j * Words
    <3>1. e \in 0 .. BufSize /\ data_end' = e
      BY <2>4, <2>5
    <3>2. io_buffer' = [i \in 0 .. BufSize - 1 |-> IF i < e THEN disk[s * Words + i] ELSE buf[i]]
      BY <2>4
    <3> HIDE DEF e, rd
    <3> SUFFICES ASSUME NEW i \in 0 .. e - 1 PROVE io_buffer'[i] = disk[s * Words + i]
      BY <3>1
    <3>3. i \in 0 .. BufSize - 1 /\ i < e
      BY <2>5, <3>1
    <3> QED
      BY <3>2, <3>3
  <2>7. irq' = 1
    BY <1>5, Raised
  <2> HIDE DEF rd
  <2> QED
    BY <1>2, <1>3, <1>5, <2>1, <2>2, <2>3, <2>4, <2>6, <2>7
<1> QED
  BY <1>2, <1>4, <1>5

\* ide_sector_write: the drive asks for the first block.
LEMMA WriteEffect ==
  ASSUME NEW a \in Addr, NEW m \in 1 .. CountMod, NEW req \in 1 .. MaxMult,
         SectorWrite(a, m % CountMod, req)
  PROVE  /\ disk' = disk /\ req_nb_sectors' = req /\ addr' = a /\ nsector' = m % CountMod
         /\ status' = {"DRDY", "DSC", "DRQ"} /\ data_index' = 0 /\ end_transfer_func' = "write"
         /\ io_nb_sectors' \in 1 .. m /\ data_end' = io_nb_sectors' * Words
<1> DEFINE c == m % CountMod
<1>1. c \in 0 .. CountMod - 1 /\ Count(c) = m
  <2>1. 1 \in 1 .. m
    OBVIOUS
  <2> QED
    BY <2>1, CountDown
<1>2. /\ req_nb_sectors' = req /\ io_nb_sectors' = Lesser(Count(c), req)
      /\ data_index' = 0 /\ data_end' = Lesser(Count(c), req) * Words /\ end_transfer_func' = "write"
      /\ status' = {"DRDY", "DSC", "DRQ"} /\ addr' = a /\ nsector' = c /\ disk' = disk
  BY DEF SectorWrite, Start, Registers
<1> HIDE DEF c
<1>3. Lesser(Count(c), req) \in 1 .. m
  BY <1>1, Constants DEF Lesser
<1> QED
  BY <1>2, <1>3 DEF c

\* ide_sector_write_cb1 and cb2: the block is on the disk and the next one is asked for, or the
\* command is over, or it is aborted with some of the block on the disk.
LEMMA BlockEffect ==
  ASSUME DriveOK, Addressable, cmd.nien = 0, NEW s \in 0 .. NbSectors, GetSector(addr) = s,
         NEW m \in 1 .. CountMod, nsector = m % CountMod, io_nb_sectors \in 1 .. m,
         req_nb_sectors \in 1 .. MaxMult, NEW buf, WriteBlock(buf)
  PROVE  /\ irq' = 1 /\ req_nb_sectors' = req_nb_sectors
         /\ \/ /\ status' = {"DRDY", "ERR"}
               /\ disk' = disk \/ \E k \in 0 .. io_nb_sectors : disk' = DiskWith(s, k, buf)
            \/ /\ s + io_nb_sectors <= NbSectors
               /\ disk' = DiskWith(s, io_nb_sectors, buf)
               /\ \/ io_nb_sectors = m /\ status' = {"DRDY", "DSC"}
                  \/ /\ io_nb_sectors < m
                     /\ status' = {"DRDY", "DSC", "DRQ"} /\ data_index' = 0
                     /\ GetSector(addr') = s + io_nb_sectors
                     /\ nsector' = (m - io_nb_sectors) % CountMod
                     /\ io_nb_sectors' \in 1 .. m - io_nb_sectors
                     /\ data_end' = io_nb_sectors' * Words /\ end_transfer_func' = "write"
<1> DEFINE j == io_nb_sectors
           left == (nsector - j) % CountMod
           nx == Lesser(left, req_nb_sectors)
<1>1. left = m - j /\ j \in 1 .. m
  BY CountDown
<1>2. \/ InRange(s, j) /\ disk' = DiskWith(s, j, buf) /\ WriteBlockDone(buf)
      \/ /\ disk' = disk \/ \E k \in 0 .. j : disk' = DiskWith(s, k, buf)
         /\ Abort /\ req_nb_sectors' = req_nb_sectors
  BY DEF WriteBlock, counts
<1>3. WriteBlockDone(buf) =>
        /\ addr' = SetSector(addr, s + j)
        /\ nsector' = left
        /\ left = 0 => status' = {"DRDY", "DSC"}
        /\ left # 0 => /\ io_nb_sectors' = nx
                       /\ data_index' = 0 /\ data_end' = nx * Words /\ end_transfer_func' = "write"
                       /\ status' = {"DRDY", "DSC", "DRQ"}
        /\ Raise
        /\ req_nb_sectors' = req_nb_sectors
  BY DEF WriteBlockDone, Start
<1> HIDE DEF left
<1>4. addr \in Addr
  BY DEF DriveOK, BlockOK
<1>5. CASE /\ disk' = disk \/ \E k \in 0 .. j : disk' = DiskWith(s, k, buf)
           /\ Abort /\ req_nb_sectors' = req_nb_sectors
  BY <1>5, Raised DEF Abort
<1>6. CASE InRange(s, j) /\ disk' = DiskWith(s, j, buf) /\ WriteBlockDone(buf)
  <2>1. s + j \in 0 .. NbSectors /\ s + j <= NbSectors
    BY <1>1, <1>6, Constants DEF InRange
  <2>2. GetSector(addr') = s + j
    BY <1>3, <1>4, <1>6, <2>1, SetThenGet
  <2>3. irq' = 1 /\ req_nb_sectors' = req_nb_sectors
    BY <1>3, <1>6, Raised
  <2>4. CASE left = 0
    <3>1. j = m /\ status' = {"DRDY", "DSC"}
      BY <1>1, <1>3, <1>6, <2>4
    <3> QED
      BY <1>6, <2>1, <2>3, <3>1
  <2>5. CASE left # 0
    <3>1. j < m /\ left \in 1 .. m - j /\ left \in 0 .. CountMod - 1
      BY <1>1, <2>5, Constants
    <3>2. nx \in 1 .. m - j
      BY <1>1, <3>1, Constants DEF Lesser
    <3> HIDE DEF nx
    <3>3. left = (m - j) % CountMod
      <4>1. left % CountMod = left
        BY <3>1, Constants, ModSmall
      <4> QED
        BY <1>1, <4>1
    <3> QED
      BY <1>3, <1>6, <2>1, <2>2, <2>3, <2>5, <3>1, <3>2, <3>3
  <2> QED
    BY <2>4, <2>5
<1> QED
  BY <1>2, <1>5, <1>6

-----------------------------------------------------------------------------
(***************************************************************************)
(* The states a step of the driver can lead to.                            *)
(***************************************************************************)
\* Without a block of a write in the buffer, the disk is what the driver asked for.
LEMMA Clean ==
  ASSUME InBuffer, WritesLand, ~(driver.phase = "data" /\ driver.op = "write")
  PROVE  want = disk
<1>1. want \in [Word -> Val] /\ disk \in [Word -> Val]
  BY DEF InBuffer, TypeOK
<1>2. \A w \in Word : want[w] = disk[w]
  BY DEF WritesLand
<1> HIDE DEF Word, Val
<1> QED
  BY <1>1, <1>2

\* And the other way round, also with the buffer still empty.
LEMMA CleanAfter ==
  ASSUME want' = disk',
         \/ ~(driver'.phase = "data" /\ driver'.op = "write")
         \/ data_index' = 0 /\ driver'.first \in Nat /\ driver'.done \in Nat
  PROVE  WritesLand'
<1>1. CASE ~(driver'.phase = "data" /\ driver'.op = "write")
  BY <1>1 DEF WritesLand
<1>2. CASE data_index' = 0 /\ driver'.first \in Nat /\ driver'.done \in Nat
  <2> DEFINE base == driver'.first * Words + driver'.done - data_index'
  <2>1. base \in Int
    <3>1. driver'.first * Words \in Int
      BY <1>2, Constants
    <3> QED
      BY <1>2, <3>1
  <2>2. base .. base + data_index' - 1 = {}
    <3> HIDE DEF base
    <3> QED
      BY <1>2, <2>1
  <2>3. \A w \in Word : w \notin base .. base + data_index' - 1
    BY <2>2
  <2> QED
    BY <2>3 DEF WritesLand
<1> QED
  BY <1>1, <1>2

\* No command is in progress.
LEMMA ToIdle ==
  ASSUME cmd'.nien = 0, cmd'.reset = IF driver'.phase = "reset" THEN 1 ELSE 0,
         driver'.phase \in {"idle", "reset", "settle"}, driver'.op = "none",
         driver'.phase = "settle" => "DRQ" \notin status'
  PROVE  InStep'
BY DEF InStep, Busy

\* The drive requests data.
LEMMA ToRequest ==
  ASSUME cmd'.nien = 0, cmd'.reset = 0, drive' = "disk", driver'.phase \in {"wait", "data"},
         driver'.op \in {"read", "write", "other"}, driver'.phase = "wait" => irq' = 1 /\ data_index' = 0,
         driver'.op \in {"read", "write"} => driver'.n \in 1 .. CountMod /\ driver'.first < NbSectors,
         "DRQ" \in status', "ERR" \notin status', Requested'
  PROVE  InStep'
BY DEF InStep, Busy

\* The command is over or aborted, and the driver has not looked yet.
LEMMA ToEnd ==
  ASSUME cmd'.nien = 0, cmd'.reset = 0, drive' = "disk", driver'.phase = "wait", irq' = 1,
         driver'.op \in {"read", "write", "other"},
         driver'.op \in {"read", "write"} => driver'.n \in 1 .. CountMod /\ driver'.first < NbSectors,
         "DRQ" \notin status',
         "ERR" \notin status' => /\ driver'.op # "read"
                                 /\ driver'.op = "write" => driver'.done = driver'.n * Words
  PROVE  InStep'
BY DEF InStep, Busy

\* Some number of sectors makes the requested block the command's.
LEMMA ReadRequested ==
  ASSUME driver'.op = "read", data_index' < data_end', req_nb_sectors' \in 1 .. MaxMult,
         NEW k, k \in 1 .. driver'.n,
         k * Words = driver'.done - data_index' + data_end',
         driver'.first + k <= NbSectors,
         GetSector(addr') = driver'.first + k,
         nsector' = driver'.n - k,
         end_transfer_func' = IF nsector' = 0 THEN "read_end" ELSE "read",
         \A i \in 0 .. data_end' - 1 :
            io_buffer'[i] = disk'[driver'.first * Words + driver'.done - data_index' + i]
  PROVE  Requested'
<1>1. \E l \in 1 .. driver'.n :
         /\ l \in 1 .. driver'.n
         /\ l * Words = driver'.done - data_index' + data_end'
         /\ driver'.first + l <= NbSectors
         /\ GetSector(addr') = driver'.first + l
         /\ nsector' = driver'.n - l
         /\ end_transfer_func' = IF nsector' = 0 THEN "read_end" ELSE "read"
         /\ \A i \in 0 .. data_end' - 1 :
              io_buffer'[i] = disk'[driver'.first * Words + driver'.done - data_index' + i]
  <2> WITNESS k \in 1 .. driver'.n
  <2> QED
    OBVIOUS
<1> QED
  BY <1>1 DEF Requested, ReadBlock, GetSector

\* The words a write has asked for next lie behind those it has moved.
LEMMA WriteRequested ==
  ASSUME driver'.op = "write", data_index' < data_end', req_nb_sectors' \in 1 .. MaxMult,
         NEW k, k \in 0 .. driver'.n - 1,
         driver'.done = k * Words + data_index',
         driver'.first + k <= NbSectors,
         GetSector(addr') = driver'.first + k,
         nsector' = (driver'.n - k) % CountMod,
         io_nb_sectors' \in 1 .. driver'.n - k,
         data_end' = io_nb_sectors' * Words,
         end_transfer_func' = "write"
  PROVE  Requested'
<1>1. \E l \in 0 .. driver'.n - 1 :
         /\ l \in 0 .. driver'.n - 1
         /\ driver'.done = l * Words + data_index'
         /\ driver'.first + l <= NbSectors
         /\ GetSector(addr') = driver'.first + l
         /\ nsector' = (driver'.n - l) % CountMod
         /\ io_nb_sectors' \in 1 .. driver'.n - l
         /\ data_end' = io_nb_sectors' * Words
         /\ end_transfer_func' = "write"
  <2> WITNESS k \in 0 .. driver'.n - 1
  <2> QED
    OBVIOUS
<1> QED
  BY <1>1 DEF Requested, AskedBlock, GetSector

\* Taken together.
LEMMA Together ==
  ASSUME DriveOK', driver' \in Driver, want' \in [Word -> Val], InStep', WritesLand'
  PROVE  DiskInv'
<1>1. BufSize \in Nat /\ MaxMult \in Nat
  BY Constants
<1>2. InBuffer'
  BY <1>1 DEF InBuffer, TypeOK, DriveOK, BlockOK, Buffers
<1> QED
  BY <1>2 DEF DiskInv

-----------------------------------------------------------------------------
(***************************************************************************)
(* The steps of the driver.                                                *)
(***************************************************************************)
LEMMA IdleDriver ==
  ASSUME NEW k \in 0 .. MaxCommands, NEW p \in {"idle", "reset", "settle"}
  PROVE  /\ Idle(k) \in Driver /\ Idle(k).phase = "idle" /\ Idle(k).op = "none"
         /\ [Idle(k) EXCEPT !.phase = p] \in Driver
         /\ [Idle(k) EXCEPT !.phase = p].phase = p /\ [Idle(k) EXCEPT !.phase = p].op = "none"
<1>1. 0 \in 0 .. NbSectors /\ 0 \in 0 .. CountMod /\ 0 \in 0 .. CountMod * Words
  BY AtaAssumption, Constants
<1>2. Idle(k) = [phase |-> "idle", op |-> "none", first |-> 0, n |-> 0, done |-> 0, commands |-> k]
  BY DEF Idle
<1>3. Idle(k) \in Driver /\ Idle(k).phase = "idle" /\ Idle(k).op = "none"
  BY <1>1, <1>2 DEF Driver
<1> QED
  BY <1>3 DEF Driver

\* The types of what the invariant speaks of.
LEMMA InvTypes ==
  ASSUME DiskInv
  PROVE  /\ DriveOK /\ InBuffer /\ InStep /\ WritesLand /\ driver \in Driver /\ want \in [Word -> Val]
         /\ addr \in Addr /\ nsector \in 0 .. CountMod - 1 /\ io_buffer \in Buffers
         /\ disk \in [Word -> Val] /\ mult_sectors \in 0 .. MaxMult
         /\ data_index \in Nat /\ data_end \in Nat /\ data_index <= data_end /\ data_end <= BufSize
         /\ driver.first \in Nat /\ driver.n \in Nat /\ driver.done \in Nat
         /\ driver.commands \in 0 .. MaxCommands
         /\ driver.n <= CountMod /\ driver.first <= NbSectors
         /\ driver.phase \in {"idle", "wait", "data", "reset", "settle"}
         /\ driver.op \in {"none", "read", "write", "other"}
         /\ cmd.nien = 0 /\ cmd.reset = IF driver.phase = "reset" THEN 1 ELSE 0
<1>1. DriveOK /\ driver \in Driver /\ want \in [Word -> Val] /\ InStep /\ WritesLand /\ InBuffer
  BY Parts DEF DiskInv
<1>2. /\ addr \in Addr /\ nsector \in 0 .. CountMod - 1 /\ io_buffer \in Buffers
      /\ disk \in [Word -> Val] /\ mult_sectors \in 0 .. MaxMult
      /\ data_index \in Nat /\ data_end \in Nat /\ data_index <= data_end /\ data_end <= BufSize
  BY <1>1, Constants DEF DriveOK, BlockOK
<1>3. /\ driver.first \in 0 .. NbSectors /\ driver.n \in 0 .. CountMod /\ driver.done \in 0 .. CountMod * Words
      /\ driver.commands \in 0 .. MaxCommands
      /\ driver.phase \in {"idle", "wait", "data", "reset", "settle"}
      /\ driver.op \in {"none", "read", "write", "other"}
  BY <1>1 DEF Driver
<1>4. CountMod * Words \in Int
  BY Constants
<1>5. cmd.nien = 0 /\ cmd.reset = IF driver.phase = "reset" THEN 1 ELSE 0
  BY <1>1 DEF InStep
<1> QED
  BY <1>1, <1>2, <1>3, <1>4, <1>5, Constants

\* Selecting the drive disturbs nothing.
LEMMA SelectStep ==
  ASSUME DiskInv, DriverSelect
  PROVE  DiskInv'
<1>1. /\ drive = "none" /\ SelectDrive /\ driver' = driver /\ want' = want
      /\ disk' = disk /\ status' = status /\ cmd' = cmd
  BY DEF DriverSelect, SelectDrive, drvVars
<1>2. DriveOK'
  BY <1>1, InvTypes, PortsType
<1>3. driver.phase \in {"idle", "reset", "settle"} /\ driver.op = "none"
      /\ (driver.phase = "settle" => "DRQ" \notin status)
  BY <1>1, InvTypes DEF InStep, Busy
<1>4. want' = disk'
  BY <1>1, <1>3, InvTypes, Clean
<1>5. WritesLand'
  BY <1>1, <1>3, <1>4, CleanAfter
<1>6. InStep'
  BY <1>1, <1>3, InvTypes, ToIdle
<1> QED
  BY <1>1, <1>2, <1>5, <1>6, InvTypes, Together

\* Reading the status starts the data phase or ends the command.
LEMMA StatusStep ==
  ASSUME DiskInv, DriverStatus
  PROVE  DiskInv'
<1>1. /\ driver.phase \in {"wait", "settle"} /\ ReadStatus /\ want' = want
      /\ driver' = IF "DRQ" \in status THEN [driver EXCEPT !.phase = "data"] ELSE Idle(driver.commands)
      /\ UNCHANGED <<disk, drive, addr, nsector, status, mult_sectors, req_nb_sectors, io_nb_sectors,
                     data_index, data_end, end_transfer_func, io_buffer, cmd>>
      /\ drive = "disk"
  BY DEF DriverStatus, ReadStatus, regs, counts, transfer
<1>2. DriveOK'
  BY <1>1, InvTypes, PortsType
<1>3. want' = disk'
  BY <1>1, InvTypes, Clean
<1>4. CASE "DRQ" \notin status
  <2>1. driver' \in Driver /\ driver'.phase = "idle" /\ driver'.op = "none"
    BY <1>1, <1>4, InvTypes, IdleDriver
  <2>2. WritesLand'
    BY <1>3, <2>1, CleanAfter
  <2>3. InStep'
    BY <1>1, <2>1, InvTypes, ToIdle
  <2> QED
    BY <1>1, <1>2, <2>1, <2>2, <2>3, InvTypes, Together
<1>5. CASE "DRQ" \in status
  <2>1. driver.phase = "wait" /\ Busy /\ driver.op \in {"read", "write", "other"} /\ Requested
        /\ data_index = 0 /\ "ERR" \notin status
        /\ (driver.op \in {"read", "write"} => driver.n \in 1 .. CountMod /\ driver.first < NbSectors)
    BY <1>1, <1>5, InvTypes DEF InStep, Busy
  <2>2. /\ driver' \in Driver /\ driver'.phase = "data" /\ driver'.op = driver.op /\ driver'.n = driver.n
        /\ driver'.first = driver.first /\ driver'.done = driver.done
    BY <1>1, <1>5, InvTypes DEF Driver
  <2>3. data_index' = 0
    BY <1>1, <2>1
  <2>4. WritesLand'
    BY <1>3, <2>2, <2>3, InvTypes, CleanAfter
  <2>5. Requested'
    BY <1>1, <2>1, <2>2 DEF Requested, ReadBlock, AskedBlock
  <2>6. InStep'
    BY <1>1, <1>5, <2>1, <2>2, <2>5, InvTypes, ToRequest
  <2> QED
    BY <1>1, <1>2, <2>2, <2>4, <2>6, InvTypes, Together
<1> QED
  BY <1>4, <1>5

\* A reset of the channel abandons the command.
LEMMA ResetStep ==
  ASSUME DiskInv, DriverReset
  PROVE  DiskInv'
<1> DEFINE r == IF driver.phase = "reset" THEN 0 ELSE 1
<1>1. ControlWrite(r, 0) /\ r \in {0, 1}
  BY DEF DriverReset
<1>2. DriveOK'
  BY <1>1, InvTypes, PortsType DEF Control
<1>3. cmd'.nien = 0 /\ cmd'.reset = r /\ disk' = disk
  BY <1>1 DEF ControlWrite
<1>4. CASE driver.phase # "reset"
  <2>1. driver' = [Idle(driver.commands) EXCEPT !.phase = "reset"] /\ want' = disk
    BY <1>4 DEF DriverReset
  <2>2. driver' \in Driver /\ driver'.phase = "reset" /\ driver'.op = "none"
    BY <2>1, InvTypes, IdleDriver
  <2>3. WritesLand' /\ InStep'
    BY <1>3, <1>4, <2>1, <2>2, CleanAfter, ToIdle
  <2> QED
    BY <1>2, <2>1, <2>2, <2>3, InvTypes, Together
<1>5. CASE driver.phase = "reset"
  <2>1. driver' = [Idle(driver.commands) EXCEPT !.phase = "settle"] /\ want' = want /\ ControlWrite(0, 0)
    BY <1>5 DEF DriverReset
  <2>2. driver' \in Driver /\ driver'.phase = "settle" /\ driver'.op = "none"
    BY <2>1, InvTypes, IdleDriver
  <2>3. want' = disk'
    BY <1>3, <1>5, <2>1, InvTypes, Clean
  <2>4. "DRQ" \notin status'
    BY <1>5, <2>1, InvTypes DEF ControlWrite
  <2>5. WritesLand' /\ InStep'
    BY <1>3, <1>5, <2>2, <2>3, <2>4, CleanAfter, ToIdle
  <2> QED
    BY <1>2, <2>1, <2>2, <2>5, InvTypes, Together
<1> QED
  BY <1>4, <1>5

\* A command starts: what Starts says of the driver.
LEMMA StartsDriver ==
  ASSUME DiskInv, NEW op, NEW a, NEW c, NEW kind \in {"read", "write", "other"},
         NEW first \in 0 .. NbSectors, NEW n \in 0 .. CountMod, Starts(op, a, c, kind, first, n)
  PROVE  /\ driver' \in Driver /\ driver'.op = kind /\ driver'.first = first /\ driver'.n = n
         /\ driver'.done = 0
         /\ driver'.phase = IF kind = "write" /\ "DRQ" \in status' THEN "data" ELSE "wait"
         /\ want' = disk /\ want' = want /\ drive' = "disk" /\ cmd'.nien = 0 /\ cmd'.reset = 0
<1> DEFINE p == IF kind = "write" /\ "DRQ" \in status' THEN "data" ELSE "wait"
<1>1. /\ driver.phase = "idle" /\ drive = "disk" /\ driver.commands < MaxCommands
      /\ driver' = [phase |-> p, op |-> kind, first |-> first, n |-> n, done |-> 0,
                    commands |-> driver.commands + 1]
      /\ want' = want /\ drive' = drive /\ cmd' = cmd
  BY DEF Starts, Exec
<1>2. p \in {"wait", "data"} /\ driver.commands + 1 \in 0 .. MaxCommands /\ 0 \in 0 .. CountMod * Words
  BY <1>1, InvTypes, Constants, AtaAssumption
<1>3. driver' \in Driver
  <2> HIDE DEF p
  <2> QED
    BY <1>1, <1>2 DEF Driver
<1>4. want = disk
  BY <1>1, InvTypes, Clean
<1> QED
  BY <1>1, <1>3, <1>4, InvTypes

\* A read or write command is started.
LEMMA TransferStep ==
  ASSUME DiskInv, Addressable, DriverTransfer
  PROVE  DiskInv'
<1>1. PICK kind \in {"read", "write"}, first \in 0 .. NbSectors - 1, n \in 1 .. CountMod :
        \E op \in IF kind = "read" THEN {"read", "multread"} ELSE {"write", "multwrite"} :
          Starts(op, SetSector(addr, first), n % CountMod, kind, first, n)
  BY DEF DriverTransfer
<1>2. PICK op \in IF kind = "read" THEN {"read", "multread"} ELSE {"write", "multwrite"} :
        Starts(op, SetSector(addr, first), n % CountMod, kind, first, n)
  BY <1>1
<1> DEFINE a == SetSector(addr, first)
           c == n % CountMod
<1>3. first \in 0 .. NbSectors /\ first \in Nat /\ first < NbSectors /\ n \in 0 .. CountMod
  BY Constants
<1>4. a \in Addr /\ GetSector(a) = first
  BY <1>3, InvTypes, SetSectorType, SetThenGet
<1>5. c \in 0 .. CountMod - 1
  BY Constants, ModType
<1>6. Exec(op, a, c)
  BY <1>2 DEF Starts
<1> HIDE DEF a
<1>7. DriveOK'
  BY <1>4, <1>5, <1>6, InvTypes, ExecType
<1>8. /\ driver' \in Driver /\ driver'.op = kind /\ driver'.first = first /\ driver'.n = n
      /\ driver'.done = 0
      /\ driver'.phase = IF kind = "write" /\ "DRQ" \in status' THEN "data" ELSE "wait"
      /\ want' = disk /\ want' = want /\ drive' = "disk" /\ cmd'.nien = 0 /\ cmd'.reset = 0
  BY <1>2, <1>3, StartsDriver
<1>9. ASSUME InStep', disk' = disk, kind = "write" /\ "DRQ" \in status' => data_index' = 0 PROVE DiskInv'
  <2>1. 0 \in Nat /\ driver'.first \in Nat /\ driver'.done \in Nat
    BY <1>3, <1>8
  <2>2. WritesLand'
    BY <1>8, <1>9, <2>1, CleanAfter
  <2> QED
    BY <1>7, <1>8, <1>9, <2>2, InvTypes, Together
<1>10. driver'.n \in 1 .. CountMod /\ driver'.first < NbSectors
  BY <1>3, <1>8
<1>11. ASSUME irq' = 1, status' = {"DRDY", "ERR"}, disk' = disk PROVE DiskInv'
  <2>1. "DRQ" \notin status' /\ "ERR" \in status'
    BY <1>11
  <2>2. InStep'
    BY <1>8, <1>10, <1>11, <2>1, ToEnd
  <2> QED
    BY <1>9, <1>11, <2>1, <2>2
<1>12. ASSUME AbortOnly(a, c) PROVE DiskInv'
  <2>1. irq' = 1 /\ status' = {"DRDY", "ERR"} /\ disk' = disk
    BY <1>12, InvTypes, Raised DEF AbortOnly, Abort
  <2> QED
    BY <1>11, <2>1
<1>13. mult_sectors # 0 => mult_sectors \in 1 .. MaxMult
  BY InvTypes, Constants
<1>14. 1 \in 1 .. MaxMult
  BY Constants
<1>15. CASE kind = "read"
  <2>1. \/ AbortOnly(a, c)
        \/ \E req \in 1 .. MaxMult : SectorRead(a, c, req, data_index, io_buffer)
    BY <1>2, <1>6, <1>13, <1>14, <1>15 DEF Exec, Read, MultRead
  <2>2. ASSUME NEW req \in 1 .. MaxMult, SectorRead(a, c, req, data_index, io_buffer) PROVE DiskInv'
    <3>1. /\ irq' = 1 /\ disk' = disk /\ req_nb_sectors' = req
          /\ \/ status' = {"DRDY", "ERR"}
             \/ /\ status' = {"DRDY", "DSC", "DRQ"} /\ data_index' = 0
                /\ \E j \in 1 .. n :
                     /\ data_end' = j * Words /\ first + j <= NbSectors /\ GetSector(addr') = first + j
                     /\ nsector' = n - j
                     /\ end_transfer_func' = IF nsector' = 0 THEN "read_end" ELSE "read"
                     /\ \A i \in 0 .. data_end' - 1 : io_buffer'[i] = disk[first * Words + i]
      BY <1>3, <1>4, <2>2, InvTypes, ReadEffect
    <3>2. CASE status' = {"DRDY", "ERR"}
      BY <1>11, <3>1, <3>2
    <3>3. ASSUME status' = {"DRDY", "DSC", "DRQ"}, data_index' = 0, NEW j \in 1 .. n,
                 data_end' = j * Words, first + j <= NbSectors, GetSector(addr') = first + j,
                 nsector' = n - j, end_transfer_func' = IF nsector' = 0 THEN "read_end" ELSE "read",
                 \A i \in 0 .. data_end' - 1 : io_buffer'[i] = disk[first * Words + i]
          PROVE  DiskInv'
      <4>1. j * Words \in Nat \ {0} /\ first * Words \in Nat
        BY <1>3, Constants
      <4>2. /\ data_index' < data_end'
            /\ j * Words = driver'.done - data_index' + data_end'
        BY <1>8, <3>3, <4>1
      <4>3. \A i \in 0 .. data_end' - 1 :
              io_buffer'[i] = disk'[driver'.first * Words + driver'.done - data_index' + i]
        <5>1. driver'.first * Words + driver'.done - data_index' = first * Words
          BY <1>8, <3>3, <4>1
        <5> QED
          BY <3>1, <3>3, <5>1
      <4>4. /\ j \in 1 .. driver'.n /\ driver'.first + j <= NbSectors /\ GetSector(addr') = driver'.first + j
            /\ nsector' = driver'.n - j /\ req_nb_sectors' \in 1 .. MaxMult /\ driver'.op = "read"
        BY <1>8, <1>15, <3>1, <3>3
      <4>5. Requested'
        BY <3>3, <4>2, <4>3, <4>4, ReadRequested
      <4>6. "DRQ" \in status' /\ "ERR" \notin status'
        BY <3>3
      <4>7. InStep'
        BY <1>8, <1>10, <1>15, <3>1, <3>3, <4>5, <4>6, ToRequest
      <4> QED
        BY <1>9, <1>15, <3>1, <4>7
    <3> QED
      BY <3>1, <3>2, <3>3
  <2> QED
    BY <1>12, <2>1, <2>2
<1>16. CASE kind = "write"
  <2>1. \/ AbortOnly(a, c)
        \/ \E req \in 1 .. MaxMult : SectorWrite(a, c, req)
    BY <1>2, <1>6, <1>13, <1>14, <1>16 DEF Exec, Write, MultWrite
  <2>2. ASSUME NEW req \in 1 .. MaxMult, SectorWrite(a, c, req) PROVE DiskInv'
    <3>1. /\ disk' = disk /\ req_nb_sectors' = req /\ addr' = a /\ nsector' = n % CountMod
          /\ status' = {"DRDY", "DSC", "DRQ"} /\ data_index' = 0 /\ end_transfer_func' = "write"
          /\ io_nb_sectors' \in 1 .. n /\ data_end' = io_nb_sectors' * Words
      BY <1>4, <2>2, WriteEffect
    <3>a. \A x \in Nat \ {0} : x * Words \in Nat \ {0}
      BY Constants
    <3>b. io_nb_sectors' \in Nat \ {0}
      BY <3>1
    <3>c. io_nb_sectors' * Words \in Nat \ {0}
      BY <3>a, <3>b, Zenon
    <3>2. io_nb_sectors' * Words \in Nat \ {0} /\ 0 * Words = 0
      BY <3>c, Constants
    <3>3. /\ data_index' < data_end' /\ driver'.done = 0 * Words + data_index'
      BY <1>8, <3>1, <3>2
    <3>4. /\ 0 \in 0 .. driver'.n - 1 /\ driver'.first + 0 <= NbSectors
          /\ GetSector(addr') = driver'.first + 0 /\ nsector' = (driver'.n - 0) % CountMod
          /\ io_nb_sectors' \in 1 .. driver'.n - 0 /\ req_nb_sectors' \in 1 .. MaxMult
          /\ driver'.op = "write"
      BY <1>3, <1>4, <1>8, <1>16, <3>1
    <3>5. Requested'
      BY <3>1, <3>3, <3>4, WriteRequested
    <3>6. "DRQ" \in status' /\ "ERR" \notin status'
      BY <3>1
    <3>7. InStep'
      BY <1>8, <1>10, <1>16, <3>5, <3>6, ToRequest
    <3> QED
      BY <1>9, <3>1, <3>7
  <2> QED
    BY <1>12, <2>1, <2>2
<1> QED
  BY <1>15, <1>16

\* A command without a transfer of sectors is started.
LEMMA OtherStep ==
  ASSUME DiskInv, DriverOther
  PROVE  DiskInv'
<1>1. PICK op \in {"setmult", "identify", "recal", "native_max", "flush", "unknown"},
           c \in 0 .. CountMod - 1 : Starts(op, addr, c, "other", 0, 0)
  BY InvTypes DEF DriverOther
<1>2. Exec(op, addr, c)
  BY <1>1 DEF Starts
<1>3. DriveOK'
  BY <1>2, InvTypes, ExecType
<1>4. 0 \in 0 .. NbSectors /\ 0 \in 0 .. CountMod
  BY Constants
<1>5. /\ driver' \in Driver /\ driver'.op = "other" /\ driver'.first = 0 /\ driver'.n = 0
      /\ driver'.done = 0 /\ driver'.phase = "wait"
      /\ want' = disk /\ want' = want /\ drive' = "disk" /\ cmd'.nien = 0 /\ cmd'.reset = 0
  BY <1>1, <1>4, StartsDriver
<1>6. disk' = disk /\ irq' = 1
  <2>1. disk' = disk /\ Raise
    BY <1>1, <1>2 DEF Exec, SetMult, Identify, Recalibrate, ReadNativeMax, FlushCache, AbortOnly, Abort
  <2> QED
    BY <2>1, InvTypes, Raised
<1>7. WritesLand'
  BY <1>5, <1>6, CleanAfter
<1>8. InStep'
  <2>1. CASE op = "identify"
    <3>1. /\ status' = {"DRDY", "DSC", "DRQ"} /\ data_index' = 0 /\ data_end' = Words
          /\ end_transfer_func' = "identify"
      BY <1>2, <2>1 DEF Exec, Identify, Start
    <3>2. Requested'
      BY <1>5, <3>1, Constants DEF Requested
    <3>3. "DRQ" \in status' /\ "ERR" \notin status'
      BY <3>1
    <3> QED
      BY <1>5, <1>6, <3>1, <3>2, <3>3, ToRequest
  <2>2. CASE op # "identify"
    <3>1. "DRQ" \notin status'
      BY <1>1, <1>2, <2>2 DEF Exec, SetMult, Recalibrate, ReadNativeMax, FlushCache, AbortOnly, Abort
    <3> QED
      BY <1>5, <1>6, <3>1, ToEnd
  <2> QED
    BY <2>1, <2>2
<1> QED
  BY <1>3, <1>5, <1>7, <1>8, InvTypes, Together

\* The driver after len more words, in phase p.
Advanced(p, len) == [driver EXCEPT !.phase = p, !.done = @ + len]

\* Its count stays within the command.
LEMMA MoreDone ==
  ASSUME driver \in Driver, NEW len \in Nat, NEW p \in {"wait", "data"},
         NEW k \in Nat, k <= driver.n, driver.done + len <= k * Words,
         driver' = Advanced(p, len)
  PROVE  /\ driver' \in Driver /\ driver'.phase = p /\ driver'.op = driver.op /\ driver'.n = driver.n
         /\ driver'.first = driver.first /\ driver'.done = driver.done + len
<1>1. driver.n \in 0 .. CountMod /\ driver.done \in 0 .. CountMod * Words
  BY DEF Driver
<1>2. k \in Int /\ CountMod \in Int /\ k <= CountMod /\ Words \in Nat
  BY <1>1, Constants
<1>3. k * Words <= CountMod * Words /\ k * Words \in Int /\ CountMod * Words \in Int
  BY <1>2, MulOrder
<1>4. driver.done + len \in 0 .. CountMod * Words
  BY <1>1, <1>3
<1> DEFINE t == [driver EXCEPT !.phase = p]
           d == driver.done + len
<1>5. /\ t \in Driver /\ t.phase = p /\ t.op = driver.op /\ t.n = driver.n /\ t.first = driver.first
      /\ t.done = driver.done
  BY DEF Driver
<1>6. driver' = [t EXCEPT !.done = d]
  BY <1>5 DEF Advanced
<1> HIDE DEF t, d
<1>7. d \in 0 .. CountMod * Words
  BY <1>4 DEF d
<1> QED
  BY <1>5, <1>6, <1>7 DEF Driver, d

\* A step that moves words does not end the block, or it runs the end function.
LEMMA MovedSplit ==
  ASSUME DiskInv, NEW len \in 1 .. Left, NEW buf, Moved(len, buf)
  PROVE  /\ drive' = drive /\ cmd' = cmd
         /\ len < Left => /\ data_index' = data_index + len /\ io_buffer' = buf
                          /\ data_end' = data_end /\ end_transfer_func' = end_transfer_func
                          /\ disk' = disk /\ addr' = addr /\ nsector' = nsector
                          /\ req_nb_sectors' = req_nb_sectors /\ io_nb_sectors' = io_nb_sectors
                          /\ status' = status /\ irq' = irq
         /\ len = Left => EndTransfer(data_end, buf)
<1>1. data_index \in Nat /\ data_end \in Nat /\ Left = data_end - data_index
  BY InvTypes DEF Left
<1>2. len < Left => data_index + len < data_end
  BY <1>1
<1>3. len = Left => data_index + len = data_end
  BY <1>1
<1>4. len < Left => ~(data_index + len >= data_end)
  BY <1>1
<1>5. drive' = drive /\ cmd' = cmd
  BY DEF Moved
<1>6. CASE len < Left
  BY <1>2, <1>4, <1>5, <1>6 DEF Moved, regs, counts
<1>7. CASE len = Left
  <2>1. ~(data_index + len < data_end)
    BY <1>1, <1>3, <1>7
  <2> QED
    BY <1>1, <1>3, <1>5, <1>7, <2>1 DEF Moved
<1> QED
  BY <1>1, <1>6, <1>7

\* The driver moves words of a read; the last of a block brings the next one.
LEMMA ReadsStep ==
  ASSUME DiskInv, Addressable, DriverReads
  PROVE  DiskInv'
<1>1. PICK len \in 1 .. Left :
         /\ Moved(len, io_buffer)
         /\ driver' = CASE len < Left -> [driver EXCEPT !.done = @ + len]
                        [] len = Left /\ driver.op = "read" /\ driver.done + len < driver.n * Words
                             -> [driver EXCEPT !.phase = "wait", !.done = @ + len]
                        [] OTHER -> Idle(driver.commands)
  BY DEF DriverReads
<1>2. driver.phase = "data" /\ driver.op \in {"read", "other"} /\ want' = want
  BY DEF DriverReads
<1>3. /\ drive = "disk" /\ "DRQ" \in status /\ "ERR" \notin status /\ Requested /\ cmd.reset = 0
      /\ (driver.op = "read" => driver.n \in 1 .. CountMod /\ driver.first < NbSectors)
  BY <1>2, InvTypes DEF InStep, Busy
<1>4. Left = data_end - data_index /\ Left \in Nat /\ len \in Nat /\ len \in 0 .. Left
  BY InvTypes DEF Left
<1>5. DriveOK'
  BY <1>1, <1>4, InvTypes, MovedType
<1>6. /\ drive' = drive /\ cmd' = cmd
      /\ len < Left => /\ data_index' = data_index + len /\ io_buffer' = io_buffer
                       /\ data_end' = data_end /\ end_transfer_func' = end_transfer_func
                       /\ disk' = disk /\ addr' = addr /\ nsector' = nsector
                       /\ req_nb_sectors' = req_nb_sectors /\ io_nb_sectors' = io_nb_sectors
                       /\ status' = status /\ irq' = irq
      /\ len = Left => EndTransfer(data_end, io_buffer)
  BY <1>1, MovedSplit
<1>7. want = disk
  BY <1>2, InvTypes, Clean
<1>8. ASSUME disk' = disk, driver' \in Driver, driver'.op # "write", InStep' PROVE DiskInv'
  <2>1. WritesLand'
    BY <1>2, <1>7, <1>8, CleanAfter
  <2> QED
    BY <1>2, <1>5, <1>8, <2>1, InvTypes, Together
<1>9. ASSUME disk' = disk, driver' = Idle(driver.commands) PROVE DiskInv'
  <2>1. driver' \in Driver /\ driver'.phase = "idle" /\ driver'.op = "none"
    BY <1>9, InvTypes, IdleDriver
  <2>2. InStep'
    BY <1>3, <1>6, <2>1, InvTypes, ToIdle
  <2> QED
    BY <1>8, <1>9, <2>1, <2>2
<1>10. CASE driver.op = "other"
  <2>1. end_transfer_func = "identify" /\ data_end = Words /\ driver.done = data_index
    BY <1>3, <1>10 DEF Requested
  <2>2. CASE len < Left
    <3>1. driver' = [driver EXCEPT !.done = driver.done + len]
      BY <1>1, <2>2
    <3>2. driver.done + len \in 0 .. CountMod * Words /\ driver.done + len = data_index + len
      <4>1. driver.done + len < Words
        BY <1>4, <2>1, <2>2, InvTypes, Constants
      <4>2. Words <= CountMod * Words /\ CountMod * Words \in Int
        BY Constants
      <4> QED
        BY <1>4, <2>1, <4>1, <4>2, InvTypes, Constants
    <3>3. driver' \in Driver /\ driver'.phase = "data" /\ driver'.op = "other" /\ driver'.done = driver.done + len
      BY <1>2, <1>10, <3>1, <3>2, InvTypes DEF Driver
    <3>4. data_index' < data_end'
      BY <1>4, <1>6, <2>2, InvTypes
    <3>5. Requested'
      BY <1>6, <2>1, <2>2, <3>2, <3>3, <3>4 DEF Requested
    <3>6. InStep'
      BY <1>3, <1>6, <2>2, <3>3, <3>5, InvTypes, ToRequest
    <3> QED
      BY <1>6, <1>8, <2>2, <3>3, <3>6
  <2>3. CASE len = Left
    <3>1. ~(len < Left)
      BY <1>4, <2>3
    <3>2. driver' = Idle(driver.commands)
      BY <1>1, <1>10, <2>3, <3>1
    <3>3. disk' = disk
      BY <1>6, <2>1, <2>3 DEF EndTransfer
    <3> QED
      BY <1>9, <3>2, <3>3
  <2> QED
    BY <1>4, <2>2, <2>3
<1>11. CASE driver.op = "read"
  <2>1. PICK k \in 1 .. driver.n : ReadBlock(k)
    BY <1>3, <1>11 DEF Requested
  <2> DEFINE F == driver.first * Words
             K == k * Words
  <2>2. /\ K = driver.done - data_index + data_end /\ driver.first + k <= NbSectors
        /\ GetSector(addr) = driver.first + k /\ nsector = driver.n - k
        /\ end_transfer_func = IF nsector = 0 THEN "read_end" ELSE "read"
        /\ \A i \in 0 .. data_end - 1 : io_buffer[i] = disk[F + driver.done - data_index + i]
        /\ k \in 1 .. driver.n /\ k \in Nat
    BY <2>1 DEF ReadBlock
  <2>3. data_index < data_end /\ req_nb_sectors \in 1 .. MaxMult
    BY <1>3, <1>11 DEF Requested
  <2>4. F \in Nat /\ K \in Nat
    BY <2>2, InvTypes, Constants
  <2>5. driver.n \in 1 .. CountMod /\ driver.first < NbSectors
    BY <1>3, <1>11
  <2>6. driver.done + len <= K /\ (len = Left => driver.done + len = K)
    <3> HIDE DEF K, F
    <3> QED
      BY <1>4, <2>2, <2>4, InvTypes
  <2>7. CASE len < Left
    <3>1. driver' = Advanced("data", len)
      <4>1. driver' = [driver EXCEPT !.done = @ + len]
        BY <1>1, <2>7
      <4> QED
        BY <1>2, <4>1, InvTypes DEF Driver, Advanced
    <3>2. /\ driver' \in Driver /\ driver'.phase = "data" /\ driver'.op = driver.op /\ driver'.n = driver.n
          /\ driver'.first = driver.first /\ driver'.done = driver.done + len
      BY <1>4, <2>2, <2>6, <3>1, InvTypes, MoreDone
    <3>3. data_index' < data_end' /\ driver'.done - data_index' = driver.done - data_index
      BY <1>4, <1>6, <2>7, <3>2, InvTypes
    <3>4. F + driver'.done - data_index' = F + driver.done - data_index
      <4> HIDE DEF F
      <4> QED
        BY <1>4, <1>6, <2>4, <2>7, <3>2, InvTypes
    <3>5. Requested'
      <4>1. K = driver'.done - data_index' + data_end'
        BY <1>6, <2>2, <2>7, <3>3
      <4>2. \A i \in 0 .. data_end' - 1 :
              io_buffer'[i] = disk'[driver'.first * Words + driver'.done - data_index' + i]
        <5>1. \A i \in 0 .. data_end - 1 :
                io_buffer[i] = disk[driver'.first * Words + driver'.done - data_index' + i]
          BY <2>2, <3>2, <3>4
        <5> QED
          BY <1>6, <2>7, <5>1
      <4>3. k \in 1 .. driver'.n /\ driver'.op = "read"
        BY <1>11, <2>2, <3>2
      <4> QED
        BY <1>6, <2>2, <2>3, <2>7, <3>2, <3>3, <4>1, <4>2, <4>3, ReadRequested
    <3>6. InStep'
      BY <1>3, <1>6, <1>11, <2>5, <2>7, <3>2, <3>5, InvTypes, ToRequest
    <3> QED
      BY <1>6, <1>8, <1>11, <2>7, <3>2, <3>6
  <2>8. CASE len = Left /\ k < driver.n
    <3>1. ~(len < Left) /\ driver.done + len = K
      BY <1>4, <2>6, <2>8
    <3>2. K < driver.n * Words
      <4>1. driver.n * Words = K + (driver.n - k) * Words /\ driver.n - k \in Nat \ {0}
        BY <2>2, <2>8, InvTypes, Constants
      <4>2. \A x \in Nat \ {0} : x * Words \in Nat \ {0}
        BY Constants
      <4>3. (driver.n - k) * Words \in Nat \ {0}
        BY <4>1, <4>2, Zenon
      <4> HIDE DEF K
      <4> QED
        BY <2>4, <4>1, <4>3
    <3>3. driver' = Advanced("wait", len)
      BY <1>1, <1>11, <2>8, <3>1, <3>2 DEF Advanced
    <3>4. /\ driver' \in Driver /\ driver'.phase = "wait" /\ driver'.op = driver.op /\ driver'.n = driver.n
          /\ driver'.first = driver.first /\ driver'.done = driver.done + len
      BY <1>4, <2>2, <2>6, <3>3, InvTypes, MoreDone
    <3> DEFINE m == driver.n - k
               s == driver.first + k
    <3>5. m \in 1 .. CountMod /\ nsector = m % CountMod /\ nsector # 0 /\ s \in 0 .. NbSectors
      <4>1. m \in 0 .. CountMod - 1 /\ m # 0
        BY <2>2, <2>5, <2>8, InvTypes, Constants
      <4>2. m % CountMod = m
        BY <4>1, Constants, ModSmall
      <4> QED
        BY <2>2, <4>1, <4>2, InvTypes, Constants
    <3>6. SectorRead(addr, m % CountMod, req_nb_sectors, data_end, io_buffer)
      BY <1>6, <2>2, <2>8, <3>5 DEF EndTransfer
    <3>7. /\ irq' = 1 /\ disk' = disk /\ req_nb_sectors' = req_nb_sectors
          /\ \/ status' = {"DRDY", "ERR"}
             \/ /\ status' = {"DRDY", "DSC", "DRQ"} /\ data_index' = 0
                /\ \E j \in 1 .. m :
                     /\ data_end' = j * Words /\ s + j <= NbSectors /\ GetSector(addr') = s + j
                     /\ nsector' = m - j
                     /\ end_transfer_func' = IF nsector' = 0 THEN "read_end" ELSE "read"
                     /\ \A i \in 0 .. data_end' - 1 : io_buffer'[i] = disk[s * Words + i]
      <4>1. GetSector(addr) = s
        BY <2>2
      <4> HIDE DEF m, s
      <4> QED
        BY <2>3, <3>5, <3>6, <4>1, InvTypes, ReadEffect
    <3>8. CASE status' = {"DRDY", "ERR"}
      <4>1. "DRQ" \notin status' /\ "ERR" \in status'
        BY <3>8
      <4>2. InStep'
        BY <1>3, <1>6, <1>11, <2>5, <3>4, <3>7, <4>1, InvTypes, ToEnd
      <4> QED
        BY <1>8, <1>11, <3>4, <3>7, <4>2
    <3>9. ASSUME status' = {"DRDY", "DSC", "DRQ"}, data_index' = 0, NEW j \in 1 .. m,
                 data_end' = j * Words, s + j <= NbSectors, GetSector(addr') = s + j,
                 nsector' = m - j, end_transfer_func' = IF nsector' = 0 THEN "read_end" ELSE "read",
                 \A i \in 0 .. data_end' - 1 : io_buffer'[i] = disk[s * Words + i]
          PROVE  DiskInv'
      <4> DEFINE l == k + j
      <4>1. l \in 1 .. driver'.n /\ driver'.first + l = s + j /\ nsector' = driver'.n - l /\ j \in Nat \ {0}
        BY <2>2, <3>4, <3>5, <3>9, InvTypes
      <4>2. l * Words = K + j * Words /\ s * Words = F + K
        BY <2>2, <4>1, InvTypes, Constants
      <4>3. j * Words \in Nat \ {0}
        BY <4>1, Constants
      <4>4. l * Words = driver'.done - data_index' + data_end' /\ data_index' < data_end'
        <5> DEFINE J == j * Words
        <5>1. l * Words = K + J /\ data_end' = J /\ J \in Nat \ {0} /\ driver'.done = K
          BY <3>1, <3>4, <3>9, <4>2, <4>3
        <5> HIDE DEF J, K, l
        <5> QED
          BY <2>4, <3>9, <5>1
      <4>5. F + driver'.done - data_index' = s * Words
        <5>1. driver'.done = K
          BY <3>1, <3>4
        <5> HIDE DEF F, K, s
        <5> QED
          BY <2>4, <3>9, <4>2, <5>1
      <4>6. \A i \in 0 .. data_end' - 1 :
              io_buffer'[i] = disk'[driver'.first * Words + driver'.done - data_index' + i]
        BY <3>4, <3>7, <3>9, <4>5
      <4>7. driver'.op = "read" /\ req_nb_sectors' \in 1 .. MaxMult
        BY <1>11, <2>3, <3>4, <3>7
      <4> HIDE DEF l
      <4>8. Requested'
        BY <3>9, <4>1, <4>4, <4>6, <4>7, ReadRequested
      <4>9. "DRQ" \in status' /\ "ERR" \notin status'
        BY <3>9
      <4>10. InStep'
        BY <1>3, <1>6, <2>5, <3>4, <3>7, <3>9, <4>7, <4>8, <4>9, InvTypes, ToRequest
      <4> QED
        BY <1>8, <3>4, <3>7, <4>7, <4>10
    <3> QED
      BY <3>7, <3>8, <3>9
  <2>9. CASE len = Left /\ k = driver.n
    <3>1. ~(len < Left) /\ ~(driver.done + len < driver.n * Words)
      <4>1. driver.done + len = driver.n * Words
        BY <2>6, <2>9
      <4>2. driver.done + len \in Int
        BY <1>4, InvTypes
      <4> QED
        BY <1>4, <2>9, <4>1, <4>2
    <3>2. driver' = Idle(driver.commands)
      BY <1>1, <2>9, <3>1
    <3>3. end_transfer_func = "read_end"
      BY <2>2, <2>9, InvTypes
    <3>4. disk' = disk
      BY <1>6, <2>9, <3>3 DEF EndTransfer
    <3> QED
      BY <1>9, <3>2, <3>4
  <2> QED
    BY <1>4, <2>2, <2>7, <2>8, <2>9, InvTypes
<1> QED
  BY <1>2, <1>10, <1>11

\* What the driver writes is a value of the disk.
LEMMA DataType ==
  ASSUME NEW w \in Int
  PROVE  Data(w) \in Val
<1> DEFINE z == NbSectors * Words
<1>1. z \in Nat \ {0}
  BY Constants
<1>2. Data(w) = -1 - (w % z) /\ Val = -z .. z - 1
  BY DEF Data, Val
<1> HIDE DEF z
<1>3. w % z \in 0 .. z - 1
  BY <1>1, ModType
<1> QED
  BY <1>1, <1>2, <1>3

\* The driver's words from its place on.
Supply == [i \in 0 .. BufSize |-> Data(driver.first * Words + driver.done + i)]

\* What the driver has asked for once len more words are in the buffer.
Asked(len) ==
  [w \in Word |-> IF w - driver.first * Words \in driver.done .. driver.done + len - 1 THEN Data(w) ELSE want[w]]

\* It is the disk, and the block in the buffer at its place.
LEMMA StoredLands ==
  ASSUME DiskInv, driver.phase = "data", driver.op = "write", NEW len \in 1 .. Left
  PROVE  LET base == driver.first * Words + driver.done - data_index IN
         \A w \in Word :
           Asked(len)[w] = IF w \in base .. base + (data_index + len) - 1
                           THEN Stored(len, Supply)[w - base] ELSE disk[w]
<1> DEFINE F == driver.first * Words
           base == F + driver.done - data_index
<1>1. F \in Nat /\ base \in Int
  <2>1. F \in Nat
    BY InvTypes, Constants
  <2> HIDE DEF F
  <2> QED
    BY <2>1, InvTypes
<1>2. /\ data_index \in Nat /\ len \in Nat /\ data_index + len <= BufSize /\ BufSize \in Nat /\ driver.done \in Nat
  BY InvTypes, Constants DEF Left
<1> SUFFICES ASSUME NEW w \in Word
             PROVE  Asked(len)[w] = IF w \in base .. base + (data_index + len) - 1
                                    THEN Stored(len, Supply)[w - base] ELSE disk[w]
  OBVIOUS
<1>3. w \in Int
  BY Constants DEF Word
<1>4. want[w] = IF w \in base .. base + data_index - 1 THEN io_buffer[w - base] ELSE disk[w]
  BY InvTypes DEF WritesLand
<1>5. Asked(len)[w] = IF w - F \in driver.done .. driver.done + len - 1 THEN Data(w) ELSE want[w]
  BY DEF Asked
<1> DEFINE i == w - base
<1>6. i \in 0 .. BufSize - 1 =>
        Stored(len, Supply)[i] = IF i \in data_index .. data_index + len - 1 THEN Supply[i - data_index]
                                                                             ELSE io_buffer[i]
  BY DEF Stored
<1>7. i - data_index \in 0 .. BufSize => Supply[i - data_index] = Data(F + driver.done + (i - data_index))
  BY DEF Supply
<1>8. base = F + driver.done - data_index
  OBVIOUS
<1> HIDE DEF F, base
<1>9. F + driver.done + (i - data_index) = w
  BY <1>1, <1>2, <1>3, <1>8
<1>10. CASE w \in base + data_index .. base + (data_index + len) - 1
  <2>1. /\ i \in data_index .. data_index + len - 1 /\ i \in 0 .. BufSize - 1 /\ i - data_index \in 0 .. BufSize
        /\ w - F \in driver.done .. driver.done + len - 1 /\ w \in base .. base + (data_index + len) - 1
    BY <1>1, <1>2, <1>3, <1>8, <1>10
  <2> QED
    BY <1>5, <1>6, <1>7, <1>9, <2>1
<1>11. CASE w \in base .. base + data_index - 1
  <2>1. /\ i \notin data_index .. data_index + len - 1 /\ i \in 0 .. BufSize - 1
        /\ w - F \notin driver.done .. driver.done + len - 1 /\ w \in base .. base + (data_index + len) - 1
    BY <1>1, <1>2, <1>3, <1>8, <1>11
  <2> QED
    BY <1>4, <1>5, <1>6, <1>11, <2>1
<1>12. CASE w \notin base .. base + (data_index + len) - 1
  <2>1. w - F \notin driver.done .. driver.done + len - 1 /\ w \notin base .. base + data_index - 1
    BY <1>1, <1>2, <1>3, <1>8, <1>12
  <2> QED
    BY <1>4, <1>5, <1>12, <2>1
<1> QED
  BY <1>1, <1>2, <1>3, <1>10, <1>11, <1>12

\* A word of the command's sectors.
InCommand(w) == w \in driver.first * Words .. (driver.first + driver.n) * Words - 1

\* A block of the command, or the first part of one, is all that a write of it changes.
LEMMA WithinCommand ==
  ASSUME DiskInv, NEW k \in 0 .. driver.n, NEW j \in 0 .. driver.n - k, NEW buf,
         disk' = DiskWith(driver.first + k, j, buf), NEW w \in Word, disk'[w] # disk[w]
  PROVE  InCommand(w)
<1> DEFINE s == driver.first + k
           F == driver.first * Words
           K == k * Words
           J == j * Words
           R == (driver.n - k - j) * Words
<1>1. s \in Nat /\ k \in Nat /\ j \in Nat /\ driver.first \in Nat /\ driver.n - k - j \in Nat /\ driver.n \in Nat
  BY InvTypes
<1>2. /\ s * Words = F + K /\ (s + j) * Words = F + K + J /\ (driver.first + driver.n) * Words = F + K + J + R
      /\ F \in Nat /\ K \in Nat /\ J \in Nat /\ R \in Nat
  BY <1>1, Constants
<1>3. disk'[w] = IF w \in s * Words .. (s + j) * Words - 1 THEN buf[w - s * Words] ELSE disk[w]
  BY DEF DiskWith
<1>4. w \in s * Words .. (s + j) * Words - 1
  BY <1>3
<1>5. w \in Int
  BY Constants DEF Word
<1> HIDE DEF F, K, J, R
<1>6. w \in F .. F + K + J + R - 1
  BY <1>2, <1>4, <1>5
<1> QED
  BY <1>2, <1>6 DEF InCommand, F

\* The driver moves words of a write; the last of a block stores it, in the sectors of
\* the command only.
LEMMA WritesStep ==
  ASSUME DiskInv, Addressable, DriverWrites
  PROVE  DiskInv' /\ \A w \in Word : disk'[w] # disk[w] => InCommand(w)
<1>1. PICK len \in 1 .. Left :
         /\ Moved(len, Stored(len, Supply))
         /\ driver' = [driver EXCEPT !.done = @ + len, !.phase = IF len < Left THEN "data" ELSE "wait"]
         /\ want' = IF "ERR" \in status' THEN disk' ELSE Asked(len)
  BY DEF DriverWrites, Supply, Asked
<1>2. driver.phase = "data" /\ driver.op = "write"
  BY DEF DriverWrites
<1>3. /\ drive = "disk" /\ "DRQ" \in status /\ "ERR" \notin status /\ Requested /\ cmd.reset = 0
      /\ driver.n \in 1 .. CountMod /\ driver.first < NbSectors
  BY <1>2, InvTypes DEF InStep, Busy
<1>4. Left = data_end - data_index /\ Left \in Nat /\ len \in Nat /\ len \in 0 .. Left
  BY InvTypes DEF Left
<1> DEFINE buf == Stored(len, Supply)
           F == driver.first * Words
           base == F + driver.done - data_index
<1>5. buf \in Buffers
  <2>1. \A i \in 0 .. BufSize - 1 : Supply[i] \in Val
    <3>1. \A i \in 0 .. BufSize - 1 : i \in 0 .. BufSize /\ F + driver.done + i \in Int
      <4>1. F \in Int
        BY InvTypes, Constants
      <4> HIDE DEF F
      <4> QED
        BY <4>1, InvTypes, Constants
    <3>2. \A i \in 0 .. BufSize - 1 : Supply[i] = Data(F + driver.done + i)
      BY <3>1 DEF Supply
    <3> HIDE DEF F
    <3> QED
      BY <3>1, <3>2, DataType
  <2> QED
    BY <1>4, <2>1, InvTypes, StoredType
<1>6. DriveOK'
  BY <1>1, <1>4, <1>5, InvTypes, MovedType
<1>7. /\ drive' = drive /\ cmd' = cmd
      /\ len < Left => /\ data_index' = data_index + len /\ io_buffer' = buf
                       /\ data_end' = data_end /\ end_transfer_func' = end_transfer_func
                       /\ disk' = disk /\ addr' = addr /\ nsector' = nsector
                       /\ req_nb_sectors' = req_nb_sectors /\ io_nb_sectors' = io_nb_sectors
                       /\ status' = status /\ irq' = irq
      /\ len = Left => EndTransfer(data_end, buf)
  BY <1>1, MovedSplit
<1>8. \A w \in Word : Asked(len)[w] = IF w \in base .. base + (data_index + len) - 1 THEN buf[w - base] ELSE disk[w]
  BY <1>2, StoredLands
<1>9. Asked(len) \in [Word -> Val]
  <2>1. \A w \in Word : Data(w) \in Val
    BY DataType, Constants DEF Word
  <2> HIDE DEF Word, Val, Data
  <2>2. \A w \in Word :
          (IF w - driver.first * Words \in driver.done .. driver.done + len - 1 THEN Data(w) ELSE want[w]) \in Val
    BY <2>1, InvTypes
  <2> QED
    BY <2>2 DEF Asked
<1>10. PICK k \in 0 .. driver.n - 1 : AskedBlock(k)
  BY <1>2, <1>3 DEF Requested
<1> DEFINE K == k * Words
           j == io_nb_sectors
           J == j * Words
           l == k + j
<1>11. /\ driver.done = K + data_index /\ driver.first + k <= NbSectors /\ GetSector(addr) = driver.first + k
       /\ nsector = (driver.n - k) % CountMod /\ j \in 1 .. driver.n - k
       /\ data_end = J /\ end_transfer_func = "write"
  BY <1>10 DEF AskedBlock
<1>12. data_index < data_end /\ req_nb_sectors \in 1 .. MaxMult
  BY <1>2, <1>3 DEF Requested
<1>13. l \in Nat /\ l <= driver.n /\ k \in Nat /\ j \in Nat
  BY <1>10, <1>11, InvTypes
<1>14. F \in Nat /\ K \in Nat /\ J \in Nat /\ l * Words = K + J /\ (driver.first + k) * Words = F + K
       /\ ((driver.first + k) + j) * Words = F + K + J
  BY <1>13, InvTypes, Constants
<1>15. driver.done + len <= l * Words /\ (len = Left => driver.done + len = l * Words) /\ base = F + K
  <2> HIDE DEF K, J, l, F, j
  <2> QED
    BY <1>4, <1>11, <1>14, InvTypes
<1>16. ASSUME NEW p \in {"wait", "data"}, p = IF len < Left THEN "data" ELSE "wait"
       PROVE  /\ driver' \in Driver /\ driver'.phase = p /\ driver'.op = "write" /\ driver'.n = driver.n
              /\ driver'.first = driver.first /\ driver'.done = driver.done + len
  <2>1. driver' = Advanced(p, len)
    BY <1>1, <1>16, InvTypes DEF Advanced, Driver
  <2> HIDE DEF l
  <2> QED
    BY <1>2, <1>4, <1>13, <1>15, <2>1, InvTypes, MoreDone
<1> HIDE DEF buf
<1>17. CASE len < Left
  <2>1. /\ driver' \in Driver /\ driver'.phase = "data" /\ driver'.op = "write" /\ driver'.n = driver.n
        /\ driver'.first = driver.first /\ driver'.done = driver.done + len
    BY <1>16, <1>17
  <2>2. want' = Asked(len)
    BY <1>1, <1>3, <1>7, <1>17
  <2>3. data_index' < data_end'
    BY <1>4, <1>7, <1>17, InvTypes
  <2>4. Requested'
    <3>1. driver'.done = K + data_index'
      <4> HIDE DEF K
      <4> QED
        BY <1>4, <1>7, <1>11, <1>14, <1>17, <2>1, InvTypes
    <3>2. k \in 0 .. driver'.n - 1 /\ io_nb_sectors' \in 1 .. driver'.n - k /\ data_end' = io_nb_sectors' * Words
      BY <1>7, <1>10, <1>11, <1>17, <2>1
    <3> QED
      BY <1>7, <1>11, <1>12, <1>17, <2>1, <2>3, <3>1, <3>2, WriteRequested
  <2>5. InStep'
    BY <1>3, <1>7, <1>17, <2>1, <2>4, InvTypes, ToRequest
  <2>6. WritesLand'
    <3>1. driver'.first * Words + driver'.done - data_index' = base
      <4> HIDE DEF F
      <4>1. F + (driver.done + len) - (data_index + len) = F + driver.done - data_index
        BY <1>4, <1>14, InvTypes
      <4> QED
        BY <1>7, <1>17, <2>1, <4>1 DEF F
    <3> HIDE DEF base
    <3>2. \A w \in Word : want'[w] = IF w \in base .. base + data_index' - 1 THEN io_buffer'[w - base] ELSE disk'[w]
      BY <1>7, <1>8, <1>17, <2>2
    <3> QED
      BY <2>1, <3>1, <3>2 DEF WritesLand
  <2>7. DiskInv'
    BY <1>6, <1>9, <2>1, <2>2, <2>5, <2>6, Together
  <2> QED
    BY <1>7, <1>17, <2>7
<1>18. CASE len = Left
  <2>1. ~(len < Left)
    BY <1>4, <1>18
  <2>2. /\ driver' \in Driver /\ driver'.phase = "wait" /\ driver'.op = "write" /\ driver'.n = driver.n
        /\ driver'.first = driver.first /\ driver'.done = l * Words
    BY <1>15, <1>16, <1>18, <2>1
  <2> DEFINE s == driver.first + k
             m == driver.n - k
  <2>3. s \in 0 .. NbSectors /\ m \in 1 .. CountMod /\ j \in 1 .. m
    BY <1>10, <1>11, InvTypes, Constants
  <2>4. WriteBlock(buf)
    BY <1>7, <1>11, <1>18 DEF EndTransfer
  <2>5. /\ irq' = 1 /\ req_nb_sectors' = req_nb_sectors
        /\ \/ /\ status' = {"DRDY", "ERR"}
              /\ disk' = disk \/ \E x \in 0 .. j : disk' = DiskWith(s, x, buf)
           \/ /\ s + j <= NbSectors
              /\ disk' = DiskWith(s, j, buf)
              /\ \/ j = m /\ status' = {"DRDY", "DSC"}
                 \/ /\ j < m
                    /\ status' = {"DRDY", "DSC", "DRQ"} /\ data_index' = 0
                    /\ GetSector(addr') = s + j
                    /\ nsector' = (m - j) % CountMod
                    /\ io_nb_sectors' \in 1 .. m - j
                    /\ data_end' = io_nb_sectors' * Words /\ end_transfer_func' = "write"
    <3>1. GetSector(addr) = s /\ nsector = m % CountMod /\ io_nb_sectors \in 1 .. m
      BY <1>11
    <3> HIDE DEF s, m
    <3> QED
      BY <1>12, <2>3, <2>4, <3>1, InvTypes, BlockEffect
  <2>6. \A w \in Word : disk'[w] # disk[w] => InCommand(w)
    <3>1. k \in 0 .. driver.n /\ \A x \in 0 .. j : x \in 0 .. driver.n - k
      BY <1>10, <1>11, <1>13, InvTypes
    <3>2. j \in 0 .. j
      BY <1>13
    <3>3. disk' = disk \/ \E x \in 0 .. j : disk' = DiskWith(s, x, buf)
      BY <2>5, <3>2
    <3> HIDE DEF j
    <3> QED
      BY <3>1, <3>3, WithinCommand
  <2>7. ASSUME want' = disk', InStep' PROVE DiskInv'
    <3>1. WritesLand'
      BY <2>2, <2>7, CleanAfter
    <3>2. want' \in [Word -> Val]
      BY <1>6, <2>7 DEF DriveOK, BlockOK
    <3> QED
      BY <1>6, <2>2, <2>7, <3>1, <3>2, Together
  <2>8. CASE status' = {"DRDY", "ERR"}
    <3>1. "ERR" \in status' /\ "DRQ" \notin status'
      BY <2>8
    <3>2. want' = disk'
      BY <1>1, <3>1
    <3>3. InStep'
      BY <1>3, <1>7, <2>2, <2>5, <3>1, InvTypes, ToEnd
    <3> QED
      BY <2>6, <2>7, <3>2, <3>3
  <2>9. ASSUME disk' = DiskWith(s, j, buf), "ERR" \notin status' PROVE want' = disk'
    <3>1. want' = Asked(len)
      BY <1>1, <2>9
    <3>2. disk' = [w \in Word |-> IF w \in s * Words .. (s + j) * Words - 1 THEN buf[w - s * Words] ELSE disk[w]]
      BY <2>9 DEF DiskWith
    <3>3. s * Words = base /\ (s + j) * Words = base + (data_index + len)
      <4>1. data_index + len = J
        BY <1>4, <1>11, <1>18, InvTypes
      <4>2. s * Words = F + K /\ (s + j) * Words = F + K + J
        BY <1>14
      <4> QED
        BY <1>15, <4>1, <4>2
    <3> DEFINE x == s * Words
               y == (s + j) * Words
               z == base + (data_index + len)
    <3>a. disk' = [w \in Word |-> IF w \in x .. y - 1 THEN buf[w - x] ELSE disk[w]] /\ x = base /\ y = z
      BY <3>2, <3>3
    <3>4. \A w \in Word : Asked(len)[w] = IF w \in base .. z - 1 THEN buf[w - base] ELSE disk[w]
      <4>1. base \in Int
        <5> HIDE DEF base, F, K
        <5> QED
          BY <1>14, <1>15
      <4> HIDE DEF base
      <4>2. base + (data_index + len) - 1 = z - 1
        BY <1>4, <4>1, InvTypes
      <4> HIDE DEF z
      <4> QED
        BY <1>8, <4>2, Zenon
    <3> HIDE DEF x, y, z, base
    <3>b. disk' = [w \in Word |-> IF w \in base .. z - 1 THEN buf[w - base] ELSE disk[w]]
      BY <3>a
    <3>5. \A w \in Word : Asked(len)[w] = disk'[w]
      BY <3>4, <3>b, Zenon
    <3>6. disk' \in [Word -> Val]
      BY <1>6 DEF DriveOK, BlockOK
    <3> HIDE DEF Word, Val
    <3> QED
      BY <1>9, <3>1, <3>5, <3>6
  <2>10. CASE disk' = DiskWith(s, j, buf) /\ j = m /\ status' = {"DRDY", "DSC"}
    <3>1. "ERR" \notin status' /\ "DRQ" \notin status'
      BY <2>10
    <3>2. want' = disk'
      BY <2>9, <2>10, <3>1
    <3>3. driver'.done = driver'.n * Words
      <4>1. l = driver.n
        BY <1>13, <2>10, InvTypes
      <4> QED
        BY <2>2, <4>1
    <3>4. InStep'
      BY <1>3, <1>7, <2>2, <2>5, <3>1, <3>3, InvTypes, ToEnd
    <3> QED
      BY <2>6, <2>7, <3>2, <3>4
  <2>11. CASE /\ s + j <= NbSectors
              /\ disk' = DiskWith(s, j, buf)
              /\ j < m
              /\ status' = {"DRDY", "DSC", "DRQ"} /\ data_index' = 0
              /\ GetSector(addr') = s + j
              /\ nsector' = (m - j) % CountMod
              /\ io_nb_sectors' \in 1 .. m - j
              /\ data_end' = io_nb_sectors' * Words /\ end_transfer_func' = "write"
    <3>1. "ERR" \notin status' /\ "DRQ" \in status'
      BY <2>11
    <3>2. want' = disk'
      BY <2>9, <2>11, <3>1
    <3>3. /\ l \in 0 .. driver'.n - 1 /\ driver'.first + l = s + j /\ m - j = driver'.n - l
      BY <1>13, <2>2, <2>3, <2>11, InvTypes
    <3>4. driver'.done = l * Words + data_index'
      <4>1. l * Words \in Int
        BY <1>13, Constants
      <4> HIDE DEF l
      <4> QED
        BY <2>2, <2>11, <4>1
    <3>5. data_index' < data_end'
      <4>1. \A x \in Nat \ {0} : x * Words \in Nat \ {0}
        BY Constants
      <4>2. io_nb_sectors' \in Nat \ {0}
        BY <2>11
      <4>3. io_nb_sectors' * Words \in Nat \ {0}
        BY <4>1, <4>2, Zenon
      <4> QED
        BY <2>11, <4>3
    <3>6. Requested'
      <4>1. /\ driver'.first + l <= NbSectors /\ GetSector(addr') = driver'.first + l
            /\ nsector' = (driver'.n - l) % CountMod /\ io_nb_sectors' \in 1 .. driver'.n - l
            /\ req_nb_sectors' \in 1 .. MaxMult /\ driver'.op = "write"
        BY <1>12, <2>2, <2>5, <2>11, <3>3
      <4> HIDE DEF l, s, m, j
      <4> QED
        BY <2>11, <3>3, <3>4, <3>5, <4>1, WriteRequested
    <3>7. InStep'
      BY <1>3, <1>7, <2>2, <2>5, <2>11, <3>1, <3>6, InvTypes, ToRequest
    <3> QED
      BY <2>6, <2>7, <3>2, <3>7
  <2> QED
    BY <2>5, <2>8, <2>10, <2>11
<1> QED
  BY <1>4, <1>17, <1>18

-----------------------------------------------------------------------------
(***************************************************************************)
(* The invariant, and what follows from it.                                *)
(***************************************************************************)
LEMMA DiskInvariant == Addressable => (DriverSpec => []DiskInv)
<1> SUFFICES ASSUME Addressable PROVE DriverSpec => []DiskInv
  OBVIOUS
<1>1. Init => DiskInv
  <2> SUFFICES ASSUME Init PROVE DiskInv
    OBVIOUS
  <2>1. driver.phase = "idle" /\ driver.op = "none"
    BY DEF Init, Idle
  <2>2. WritesLand /\ InStep
    BY <2>1 DEF Init, WritesLand, InStep, Busy
  <2> QED
    BY <2>2, InitType DEF DiskInv
<1>2. DiskInv /\ [DriverNext]_vars => DiskInv'
  <2> SUFFICES ASSUME DiskInv, [DriverNext]_vars PROVE DiskInv'
    OBVIOUS
  <2>1. CASE UNCHANGED vars
    <3>1. InBuffer'
      BY <2>1 DEF DiskInv, vars, regs, counts, transfer, drvVars, InBuffer, TypeOK
    <3>2. Requested' <=> Requested
      BY <2>1 DEF vars, regs, counts, transfer, drvVars, Requested, ReadBlock, AskedBlock
    <3>3. InStep' /\ WritesLand'
      BY <2>1, <3>2 DEF DiskInv, vars, regs, counts, transfer, drvVars, InStep, Busy, WritesLand
    <3> QED
      BY <3>1, <3>3 DEF DiskInv
  <2> QED
    BY <2>1, SelectStep, TransferStep, OtherStep, StatusStep, ReadsStep, WritesStep, ResetStep DEF DriverNext
<1> QED
  BY <1>1, <1>2, PTL DEF DriverSpec

\* ide_sector_read, ide_set_sector, nsector: for every geometry that can be addressed, the drive is
\* at the driver's place of the command, and asks for data exactly until the count has been moved.
THEOREM DriveAndDriverInStep == Addressable => (DriverSpec => []TransferInStep)
<1> SUFFICES ASSUME Addressable PROVE DriverSpec => []TransferInStep
  OBVIOUS
<1>1. DiskInv => TransferInStep
  <2> SUFFICES ASSUME DiskInv PROVE TransferInStep
    OBVIOUS
  <2>1. ASSUME Busy, driver.op = "read", "DRQ" \in status
        PROVE  /\ \A i \in data_index .. data_end - 1 :
                    io_buffer[i] = disk[driver.first * Words + driver.done + i - data_index]
               /\ Left \in 1 .. driver.n * Words - driver.done
               /\ driver.done < driver.n * Words
    <3>1. Requested /\ data_index < data_end
      BY <2>1, InvTypes DEF InStep, Requested
    <3>2. PICK k \in 1 .. driver.n : ReadBlock(k)
      BY <2>1, <3>1 DEF Requested
    <3> DEFINE F == driver.first * Words
               K == k * Words
               N == driver.n * Words
    <3>3. K = driver.done - data_index + data_end
          /\ \A i \in 0 .. data_end - 1 : io_buffer[i] = disk[F + driver.done - data_index + i]
      BY <3>2 DEF ReadBlock
    <3>4. F \in Nat /\ K \in Nat /\ N \in Nat /\ K <= N
      <4>1. k \in Int /\ driver.n \in Int /\ k <= driver.n /\ Words \in Nat
        BY InvTypes, Constants
      <4>2. K <= N
        BY <4>1, MulOrder
      <4> QED
        BY <4>2, InvTypes, Constants
    <3> HIDE DEF F, K, N
    <3>5. Left \in 1 .. N - driver.done /\ driver.done < N
      BY <3>1, <3>3, <3>4, InvTypes DEF Left
    <3>6. \A i \in data_index .. data_end - 1 : /\ i \in 0 .. data_end - 1
                                                /\ F + driver.done - data_index + i = F + driver.done + i - data_index
      BY <3>4, InvTypes
    <3>7. \A i \in data_index .. data_end - 1 : io_buffer[i] = disk[F + driver.done + i - data_index]
      BY <3>3, <3>6
    <3> QED
      BY <3>5, <3>7 DEF F, N
  <2>2. ASSUME Busy, driver.op = "write", "DRQ" \in status
        PROVE  /\ Left \in 1 .. driver.n * Words - driver.done
               /\ driver.done < driver.n * Words
    <3>1. Requested /\ data_index < data_end
      BY <2>2, InvTypes DEF InStep, Requested
    <3>2. PICK k \in 0 .. driver.n - 1 : AskedBlock(k)
      BY <2>2, <3>1 DEF Requested
    <3> DEFINE j == io_nb_sectors
               K == k * Words
               J == j * Words
               N == driver.n * Words
    <3>3. driver.done = K + data_index /\ data_end = J /\ j \in 1 .. driver.n - k
      BY <3>2 DEF AskedBlock
    <3>4. K \in Nat /\ J \in Nat /\ N \in Nat /\ K + J <= N
      <4>1. k \in Int /\ j \in Int /\ k + j \in Int /\ driver.n \in Int /\ k + j <= driver.n /\ Words \in Nat
            /\ k \in Nat /\ j \in Nat
        BY <3>3, InvTypes, Constants
      <4> HIDE DEF j
      <4>2. (k + j) * Words <= N
        BY <4>1, MulOrder
      <4>3. (k + j) * Words = K + J
        BY <4>1
      <4> QED
        BY <4>1, <4>2, <4>3, InvTypes, Constants
    <3> HIDE DEF j, K, J, N
    <3>5. Left \in 1 .. N - driver.done /\ driver.done < N
      BY <3>1, <3>3, <3>4, InvTypes DEF Left
    <3> QED
      BY <3>5 DEF N
  <2>3. ASSUME Busy, driver.op \in {"read", "write"}, "DRQ" \notin status, "ERR" \notin status
        PROVE  ~(driver.done < driver.n * Words)
    <3>1. driver.done = driver.n * Words
      BY <2>3, InvTypes DEF InStep
    <3> QED
      BY <3>1, InvTypes
  <2>4. driver.phase = "data" => Busy /\ "DRQ" \in status
    BY InvTypes DEF InStep, Busy
  <2> QED
    BY <2>1, <2>2, <2>3, <2>4 DEF TransferInStep, Busy
<1> QED
  BY <1>1, DiskInvariant, PTL

\* ide_sector_write_cb1: every word the driver has written is on the disk at its place or waits in
\* the buffer, and nothing else has changed, through failures in the middle of a block and resets.
THEOREM WrittenWordsLand == Addressable => (DriverSpec => []WritesLand)
<1> SUFFICES ASSUME Addressable PROVE DriverSpec => []WritesLand
  OBVIOUS
<1>1. DiskInv => WritesLand
  BY DEF DiskInv
<1> QED
  BY <1>1, DiskInvariant, PTL

\* ide_set_irq: a driver that waits for the drive has been interrupted.
THEOREM WaitersAreInterrupted == Addressable => (DriverSpec => []WaitingIsInterrupted)
<1> SUFFICES ASSUME Addressable PROVE DriverSpec => []WaitingIsInterrupted
  OBVIOUS
<1>1. DiskInv => WaitingIsInterrupted
  BY DEF DiskInv, InStep, WaitingIsInterrupted
<1> QED
  BY <1>1, DiskInvariant, PTL

\* Reading changes nothing on the disk.
LEMMA ReadsKeepDisk ==
  ASSUME DiskInv, DriverReads
  PROVE  disk' = disk
<1>1. PICK len \in 1 .. Left : Moved(len, io_buffer)
  BY DEF DriverReads
<1>2. Requested /\ driver.op \in {"read", "other"}
  BY InvTypes DEF DriverReads, InStep, Busy
<1>3. end_transfer_func \in {"identify", "read", "read_end"}
  BY <1>2 DEF Requested, ReadBlock
<1>4. EndTransfer(data_end, io_buffer) => disk' = disk
  BY <1>3 DEF EndTransfer, SectorRead
<1>5. len < Left \/ len = Left
  BY InvTypes DEF Left
<1> QED
  BY <1>1, <1>4, <1>5, MovedSplit

\* Nor does a command before its data has come.
LEMMA StartsKeepDisk ==
  ASSUME NEW op, NEW a, NEW c, Exec(op, a, c)
  PROVE  disk' = disk
BY DEF Exec, Identify, Recalibrate, SetMult, AbortOnly, Read, Write, MultRead, MultWrite, ReadNativeMax,
       FlushCache, SectorRead, SectorWrite

\* ide_sector_write: a step changes only sectors of the write command in progress.
THEOREM OnlyTheCommandWrites == Addressable => (DriverSpec => WritesStayInRange)
<1> SUFFICES ASSUME Addressable PROVE DriverSpec => WritesStayInRange
  OBVIOUS
<1> DEFINE A == \A w \in Word : disk'[w] # disk[w] =>
                  /\ driver.op = "write"
                  /\ w \in driver.first * Words .. (driver.first + driver.n) * Words - 1
<1>1. DiskInv /\ [DriverNext]_vars => [A]_vars
  <2> SUFFICES ASSUME DiskInv, DriverNext PROVE A
    OBVIOUS
  <2>1. CASE DriverWrites
    <3>1. \A w \in Word : disk'[w] # disk[w] => InCommand(w)
      BY <2>1, WritesStep
    <3> QED
      BY <2>1, <3>1 DEF DriverWrites, InCommand
  <2>2. CASE ~DriverWrites
    <3>1. disk' = disk
      BY <2>2, ReadsKeepDisk, StartsKeepDisk
         DEF DriverNext, DriverSelect, SelectDrive, DriverTransfer, DriverOther, Starts, DriverStatus,
             ReadStatus, DriverReset, ControlWrite
    <3> QED
      BY <3>1
  <2> QED
    BY <2>1, <2>2
<1> QED
  BY <1>1, DiskInvariant, PTL DEF DriverSpec, WritesStayInRange
==============================================================================
