------------------------------ MODULE PciBoard ------------------------------
(***************************************************************************)
(* PCI configuration space behind the i440FX ports (pci.c) and what the    *)
(* board makes of it (pc.c): the VGA's memory window and the fixed alias   *)
(* of it.                                                                  *)
(*                                                                         *)
(* A byte has one bit and a device four registers of four bytes: identity, *)
(* command and status, base address 0, interrupt line and pin.             *)
(***************************************************************************)
EXTENDS Integers

CONSTANTS
  BarSize,     \* the VGA's window, a power of two
  VgaMem,      \* pc->vga_mem_size, at most BarSize
  LfbAlias,    \* VBE_LFB_ADDR, a multiple of BarSize
  PciDevices   \* the devices of the bus

ASSUME PciAssumption ==
  /\ BarSize \in {1, 2, 4, 8, 16} /\ VgaMem \in 0 .. BarSize
  /\ LfbAlias \in Nat /\ LfbAlias % BarSize = 0
  /\ "vga" \in PciDevices

VARIABLES
  configReg,   \* I440FXState.config_reg: enable bit, device, register
  config,      \* PCIDevice.config
  region,      \* io_regions[0].enabled of the VGA
  vgaAddr      \* pc->pci_vga_ram_addr

pciVars == <<configReg, config, region, vgaAddr>>

PciRegs == 0 .. 15
PciCommand == 4
Status == {6, 7}
Bar0 == 8
LinePin == 12
Nowhere == -1
ReadOnly == 0 .. 3 \cup Bar0 .. Bar0 + 3 \cup {LinePin + 1}

PciInit ==
  /\ configReg = [on |-> FALSE, dev |-> "none", reg |-> 0]
  /\ config = [d \in PciDevices |-> [a \in PciRegs |-> IF a < 4 \/ a = 6 THEN 1 ELSE 0]]
  /\ region = FALSE /\ vgaAddr = Nowhere

Dword(c, a) == c[a] + 2 * c[a + 1] + 4 * c[a + 2] + 8 * c[a + 3]
Bit(v, i) == (v \div <<1, 2, 4, 8>>[i + 1]) % 2
Aligned(v, n) == v - (v % n)

\* pci_update_mappings and set_pci_vga_bar; only the VGA has a region.
UpdateMappings(d, c) ==
  IF d # "vga" THEN UNCHANGED <<region, vgaAddr>>
  ELSE IF c[PciCommand] = 1 THEN region' = TRUE /\ vgaAddr' = Aligned(Dword(c, Bar0), BarSize)
  ELSE region' = FALSE /\ vgaAddr' = IF region THEN Nowhere ELSE vgaAddr

\* pci_device_config_write8: status bits are cleared by writing ones.
Write8(c, a, bit) ==
  IF a \in Status THEN [c EXCEPT ![a] = IF bit = 1 THEN 0 ELSE @]
  ELSE IF a \in ReadOnly THEN c ELSE [c EXCEPT ![a] = bit]

\* The bytes of a write one after the other, those past the end left out.
WriteBytes(c, a, v, size) ==
  [x \in PciRegs |-> IF x \in a .. a + size - 1 THEN Write8(c, x, Bit(v, x - a))[x] ELSE c[x]]

\* Mutant: a new base address is stored and not yet mapped.
WriteBarLater(d, a, v) ==
  /\ config' = [config EXCEPT ![d] = [x \in PciRegs |->
                  IF x \in a .. a + 3 THEN Bit(Aligned(v, BarSize), x - a) ELSE @[x]]]
  /\ UNCHANGED <<region, vgaAddr>>

\* pci_write_bar.
WriteBar(d, a, v) ==
  LET c == [x \in PciRegs |-> IF x \in a .. a + 3 THEN Bit(Aligned(v, BarSize), x - a)
                              ELSE config[d][x]] IN
  /\ config' = [config EXCEPT ![d] = c]
  /\ UpdateMappings(d, c)

\* pci_device_config_write.
ConfigWrite(d, a, v, size) ==
  IF size = 4 /\ a = Bar0 /\ d = "vga" THEN WriteBar(d, a, v)
  ELSE LET c == WriteBytes(config[d], a, v, size) IN
       /\ config' = [config EXCEPT ![d] = c]
       /\ IF PciCommand \in a .. a + size - 1 THEN UpdateMappings(d, c)
          ELSE UNCHANGED <<region, vgaAddr>>

\* The offsets from port 0xcfc at which a write of a size arrives (pc_io_write,
\* pc_io_write16, pc_io_write32), and the register it means: config_reg | offset.
DataPorts(size) == CASE size = 1 -> 0 .. 3 [] size = 2 -> {0, 2} [] size = 4 -> {0}

Or4(reg, off) == Aligned(reg, 4) + Bit(reg, 0) + 2 * Bit(reg, 1)
                   + (IF Bit(off, 0) = 1 /\ Bit(reg, 0) = 0 THEN 1 ELSE 0)
                   + (IF Bit(off, 1) = 1 /\ Bit(reg, 1) = 0 THEN 2 ELSE 0)

\* i440fx_write_addr: port 0xcf8, 32 bits.
WriteAddr(r) == configReg' = r /\ UNCHANGED <<config, region, vgaAddr>>

\* i440fx_write_data and pci_data_write.
WriteData(off, v, size) ==
  LET a == IF size = 4 THEN Aligned(configReg.reg, 4) ELSE Or4(configReg.reg, off) IN
  /\ off \in DataPorts(size)
  /\ IF configReg.on /\ configReg.dev \in PciDevices THEN ConfigWrite(configReg.dev, a, v, size)
     ELSE UNCHANGED <<config, region, vgaAddr>>
  /\ UNCHANGED <<configReg>>

\* pci_vga_addr: the offset in video memory that a physical address stands for.
LfbOffset(addr) ==
  IF vgaAddr # Nowhere /\ addr - vgaAddr \in 0 .. VgaMem - 1 THEN addr - vgaAddr
  ELSE IF addr - LfbAlias \in 0 .. VgaMem - 1 THEN addr - LfbAlias ELSE Nowhere

\* The BIOS and the operating system, one device at a time, in accesses of any size.
PciNext ==
  \/ \E d \in PciDevices \cup {"none"}, reg \in {PciCommand, Bar0, Bar0 + 1, 3} :
       WriteAddr([on |-> TRUE, dev |-> d, reg |-> reg])
  \/ WriteAddr([configReg EXCEPT !.on = FALSE])
  \/ \E size \in {1, 2, 4}, off \in 0 .. 3, v \in {0, 1, 9, 15} : WriteData(off, v, size)

PciSpec == PciInit /\ [][PciNext]_pciVars

(***************************************************************************)
(* Properties.                                                             *)
(***************************************************************************)
\* The video memory is where the guest's last words say: at the VGA's base address while
\* its memory decoding is on and nowhere else but the fixed alias, through sizing with all
\* ones, accesses of every width, unaligned registers and other devices
\* (pci_device_config_write, pci_update_mappings); and both windows show it from its
\* beginning, although the first to match decides (pci_vga_addr).
BarAgrees ==
  LET c == config["vga"] IN
  /\ vgaAddr = IF c[PciCommand] = 1 THEN Dword(c, Bar0) ELSE Nowhere
  /\ \A x \in 0 .. VgaMem - 1 :
       /\ LfbOffset(LfbAlias + x) = x
       /\ c[PciCommand] = 1 => LfbOffset(Dword(c, Bar0) + x) = x
  /\ c[LinePin + 1] = 0 /\ \A a \in 0 .. 3 : c[a] = 1
=============================================================================
