# WiNspire: TLA+ models, checks and proofs

WiNspire is a PC emulator for the TI-Nspire. It runs in two ways: *Native mode* keeps the
guest's disk in an image file on the calculator, *Server mode* keeps it on a PC that the
calculator reaches over USB networking with a small block protocol (WRBP). This directory
models the parts of it where the order of events decides whether the guest's data survives
and whether the guest keeps running: the disk path from the IDE data port to the medium,
the path of an interrupt from a device to the CPU, the other devices of the PC, the picture
from a guest's write to the LCD, and the CPU where it depends on more than one instruction:
address translation, control transfers and interruptible string instructions.

Files: `<Component>.tla` is a model, `<Component>_<run>.cfg` a TLC configuration,
`<Part>_proofs.tla` the TLAPS proofs of one component or of several, `PROJECT.json` the index (runs, mutants, the map
from definitions to source lines, findings, hazards, theorems).

## 1. Inventory

All sources are under `src/source/`.

| Component | Source | State | Operations | Hard part |
|---|---|---|---|---|
| IDE hard disk | `winspire/ide.c` 470-960, 1560-1910 | task file, transfer window, `end_transfer_func`, buffer | port accesses, commands, reset | a transfer is a chain of callbacks; any access may come at any time |
| IDE CD-ROM | `ide.c` 960-1560, 3698-3710 | reply counters, sense data, disc | PACKET commands, disc change | replies cut by two limits, changes in mid-transfer |
| Image file backend | `ide.c` 1955-2345, 3293-3400 | read windows, stdio stream | read, write, flush | stale windows, partial failures |
| Network backend | `ide.c` 2345-3290 | read windows, write buffer, write-back table | read, write, flush, delete | three caches over a link that breaks |
| WRBP link | `ide.c` 2345-2640, `server/netblock_server.c` | two byte streams, image, session | HELLO, TIME, PING, READ, WRITE, FLUSH | framing after refusals, timeouts and breaks; durability |
| Interrupt controllers | `winspire/i8259.c`, `i386.c` 6584-6600, 6719 | two 8259s, INTR latch, IF, HLT | device lines, acknowledge, ports | edges forwarded through a cascade into a latch |
| Interval timer | `winspire/i8254.c` | three channels, clock | ports, expiry | wrap of a 32-bit clock |
| Keyboard controller | `winspire/i8042.c` | two queues, output buffer, modes | ports, key and mouse events | two devices share one buffer |
| DMA controllers | `winspire/i8257.c` | channels, flip-flop, masks | ports, transfer | half-written registers |
| UART, clock, link | `winspire/misc.c` | FIFO, CMOS registers | ports, ticks | interrupt identification |
| PCI | `winspire/pci.c` | configuration space, mappings | configuration accesses | remapping while in use |
| NE2000 | `winspire/ne2000.c` | page ring, remote DMA | ports, frame received | ring boundary |
| Sound Blaster, OPL, speaker | `sb16.c`, `adlib.c`, `fmopl.c`, `pcspk.c` | DSP, DMA counters | ports, audio callback | DSP against DMA |
| VGA | `vga.c`, `../winspire-ndless/main.c` 401-581 | registers, video memory, dirty rows, fingerprints, remembered cells | ports, memory, refresh, copy to the LCD | redrawing only what changed |
| CPU | `i386.c`, `fpu.c`, `simd.inc` | registers, TLB and its caches, mode, tables | instructions, exceptions | stale translations, frames of nested transfers, instructions left half way |
| Machine and main loop | `pc.c` | all devices | `pc_step`, port dispatch | order in which devices are polled |
| Frontends, menu, configuration | `main.c`, `win32.c`, `../winspire-ndless/main.c`, `ini.c`, `osd/osd.c` | window, input state | events | shutdown order |

How they interact: everything but the sound output runs in one thread. `pc_step` polls the
devices and runs a slice of CPU; a port access of the guest calls the device, which runs to its end and may
call the block device (which answers before it returns) or `i8259_set_irq`. Concurrency
therefore lies at four places: between guest and devices at the granularity of a port
access, between calculator and server over the connection, between the image and the medium
behind it, and between the user's menu (disc change) and the guest. The sound output is the
exception: `mixer_callback` has one caller, the desktop test program
(`tests/desktop_win9x.c` 342, `SDL_OpenAudio`), and there SDL calls it in a thread of its own
beside `pc_step`. It takes from the sound card's ring what `pc_step` puts in, one producer
and one consumer, each with its own index.

What makes each part correct is stated in section 4 for the modelled ones. `PROJECT.json`
lists, under `hazards`, the places where these parts could go wrong unnoticed by a test.

## 2. Modules

| Module | Models | Notes |
|---|---|---|
| `BlockCalls` | the hooks of `struct BlockDevice` | calls, answers, contents as stamps |
| `BlockDisk` | what such a device promises | abstract: one register per sector and a write-behind image |
| `NetBlkCache` | network backend | one step per request or loop iteration; refines `BlockDisk` |
| `FileDisk` | file backend | one step per hook call, stdio writing out at any time; refines `BlockDisk` |
| `WrbpLink` | protocol, both ends | streams of units (header or sector), sessions, timeouts |
| `AtaDisk` | hard disk | one step per port access; two guests, any and well-behaved |
| `AtapiCd` | CD-ROM | one step per port access; a guest that follows the protocol |
| `Pic8259`, `MCPic8259` | interrupt controllers and INTR | `MCPic8259` gives the lines and commands of each run |
| `Pit8254` | timer and PC speaker | one step per port access, poll or callback, on a clock that wraps |
| `Kbd8042` | keyboard controller, keyboard, mouse | queues are lengths |
| `Dma8257` | DMA controllers | operators on the registers of a controller |
| `Sb16` | sound card, over `Dma8257` | samples are counted |
| `PcMisc` | UART, periodic interrupt, floppy link | three small devices |
| `Ne2000` | network card and a driver | memory in pages |
| `VgaScreen` | VGA, renderers, redraw queue, LCD | memory in words, palettes and fonts as versions |
| `PciBoard` | configuration space, VGA window | bytes of one bit |
| `Mmu386` | page tables, TLB, `dtlb_fast`, fetch page | one page table and its directory entry |
| `Transfer386` | interrupts, gates, rings, returns, tasks | C functions as operators on the registers |
| `RepString` | string instructions with REP | one step per turn of the loop |
| `Machine` | the board | composes the eleven above; `workload` says which guest runs |

### Correspondence

*Contents.* A sector holds the serial number ("stamp") of the write that filled it. Stamps
grow with every write call, so "older" and "newer" contents can be compared and a mixture of
two writes is visible.

*NetBlkCache.* `read_cache`, `read_cache_next`, `write_sector`, `write_sectors`,
`write_buffer`, `writeback_count` are the fields of `BlockDeviceNet`. A window's or the
table's contents are functions of the sector, because the code finds entries by sector
number; clean table entries only count. `pc` is where in the hook the code is; a request
either does all it asks or takes the link down for good, since the client never reconnects.
`acked` is a history variable. `DrainRun` clears the dirty marks of its run whether or not
the request succeeds, as the code does. The result -1 of `netblk_store_write` is taken for
success, as the code does. `TINY386_NET_PREFETCH_SECTORS`, `TINY386_NET_WRITEBACK` and the
server's advertised maximum are constants.

*FileDisk.* `file` is what the stdio stream shows, `media` what has been written out. A
failed `fwrite` has written any subset of its range. A read past the windows may fail with
the window emptied.

*WrbpLink.* Headers and sectors are units; a unit read in the place of the other kind is
taken for it, as nothing but the magic tells them apart. The server receives a WRITE in
chunks of `MaxSectors`. `link = "silent"` is a peer that vanished without closing. TIME
requests come from the separate clock program that connects before the emulator. The
server's accept loop serves one connection at a time, so a session begins only when it
listens.

*AtaDisk.* The buffer, its transfer window and `end_transfer_func` are as in `IDEState`;
register widths, the size of a sector in words, geometry and the multiple setting are
constants, so that wrap-around happens within few values. `Spec` lets the guest do any
access at any time. `DriverSpec` is a driver that programs a transfer, waits for the
interrupt, moves each block and may reset at any moment.

*AtapiCd.* Sizes are bytes. The reply of a command that transfers no sectors is only its
size. `IntLimit` stands for 2^31: `packet_transfer_size` is an `int` product.

*Pic8259.* 8-bit registers are sets of lines. `SetIrq` is `i8259_set_irq`, `Acknowledge` is
`i8259_read_irq` called by `cpui386_step`; every write to a port is an action, with
`pic_update_irq` in exactly those that call it.

*Pit8254.* `age` is the time since a channel's load, which the code knows modulo `Wrap`; the
poll is `i8254_update_irq`. History variables count the interrupts that were due and those
that came. The speaker's wave is a length and a position.

*Kbd8042.* A queue is its length and the status register is computed by `KbdUpdateIrq` as in
the code, at the places where the code calls it. Movement is counted in packets, so that the
difference between a reserve of 16 bytes and a packet of 3 or 4 stays visible.

*Dma8257, Sb16.* `Needed` are the argument bytes of a DSP command and `Taken` those the code
takes; `SbReadDma` is `SB_read_DMA` called from `i8257_dma_run`, `AudioCallback` the mixer's call of
`sb16_audio_callback`, one step although the desktop's sound thread may be interrupted in it:
it only raises the ring's read index, so a producer that runs meanwhile sees less room than
there is. What the guest
could compute from the two positions it can read is compared with the bytes really moved.

*PcMisc.* The clock's ticks fall back to 0 where the microsecond clock wraps. The floppy
link's arguments, position and rest are as in `EMULINK`; an image may be attached at any time.

*Ne2000.* A frame occupies pages with a header in the first; `Deposit` wraps at `stop`. The
driver keeps the boundary one page behind, as drivers of this card do. Frames are accepted
whenever `ne2000_receive` accepts them, also when the ring has been filled to the very page of
the boundary and counts as empty: `drv.over` then records the overrun, and the contents of the
ring are no longer followed (the driver may go to any page) until it is set up again.

*VgaScreen.* `vr` and `vram` are the guest's side, `vc` what the renderers remember,
`fb` the frame buffer, `front` the redraw queue and `lcd` what the user sees, each drawn row with the versions of
palette and font it was drawn with. `pal16` and `gpal` are `last_palette` and
`graphic_palette`, changed where the code changes them: `gpal` before any renderer of
`vga_graphic_refresh`, `pal16` only in a text refresh that was not ordered to draw everything
(`shown.by = "ordered"` is one that was). A refresh is one step: it runs to its end in the code.

*PciBoard.* Registers are byte arrays with one bit per byte, so that sizing, which writes
all ones and reads back the size mask, happens with the code's own masks.

*Mmu386.* The guest's kernel changes entries (`WritePte`, `GrantPte`), `owed` are the pages
it has to flush. Fast entries keep their frame and privilege, TLB entries the rights and
CR0.WP of the time they were filled.

*Transfer386.* Stacks, frames and task state segments are memory the transfer code reads and
writes; `open` remembers what each entry left and `resumed` what the last return should have
come back to. Four worlds: real mode, virtual 8086, rings with call gates and interrupt gates
of both sizes, tasks. The guest may forge frames, swap segments, unmap its stack and jump
through call gates into an inner ring. `own` is what the program has by its own doing and not
by a transfer that is still open: the ring it jumped to and an NT flag from a forged frame.

*RepString.* `strNow` holds registers, memory and the device's side of a port; `strOp` the
instruction and the registers it started with. A page fault leaves `strNow` where the code
leaves it and the kernel maps the page; a yield goes back to the fetch, where the kernel may
take pages away. The fast path works on physical addresses from one translation, the
reference (`Elements`) translates every element.

*Machine.* The devices share nothing but the lines to the interrupt controller, which
`Pic8259` models, so their state spaces need not be multiplied: `workload`, chosen at the
start, says which device's guest runs. One run therefore explores all of them.

## 3. Findings

Three runs expect a violation; each states a line of the repository that the code does not
keep.

1. `NetBlkCache_stale` (`ide.c:2916`): with prefetch a window may be filled with a sector
   whose newer contents are still in the write buffer or table, and a later read delivers
   it. Pending writes are looked for in the requested range only, the fetch is wider.
2. `NetBlkCache_drain` (`ide.c:2782`): dirty marks are cleared before the request that
   carries the entries; after a failed drain the table is reused although "Every dirty entry
   has been committed" is not so.
3. `WrbpLink_reconnect` (`netblock_server.c:511`): the server closes an unintelligible
   stream "for clean reconnect"; the client has no reconnect.

Seen while reading, and not the subject of a run: GET CONFIGURATION picks the current profile
by the CD drive's own `nb_sectors` (`ide.c` 974-987, 1526), which `ide_cddrive_init` never
sets, so it names no profile although a disc is loaded; `block_device_reinit` accepts only
`BF_MODE_RO` images while `ide_attach_cd` opens `BF_MODE_RW` ones (`ide.c` 3647, 3669).
Special mask and special fully nested mode change the active request of the 8259 without
`pic_update_irq`; `RaisedWhenActive` is checked without them.

The following are in the models too; a property that meets one says so in its comment and
leaves it out by a history variable, and no line of the repository claims otherwise.

- *Timer.* A read of port 0x43 indexes a fourth channel. Redoing the load after 2^31
  microseconds drops the phase.
- *Keyboard.* A key that arrives between the status and the data read changes whose byte is
  read. A full queue drops single bytes, a prefix among them. Movement larger than the reserve
  is torn across packets.
- *Sound.* Four ADPCM commands never take their arguments; the silence command raises a line
  that no register acknowledges; moving the card to another interrupt leaves the old line up.
- *Clock.* When the microsecond clock wraps (71.6 minutes) the periodic timeout stays in the
  past lap and the interrupt stops until the rate is set again.
- *Floppy link.* An image changed in the middle of a write receives the rest; a fourth
  argument undoes the transfer; the drive number is not checked against two.
- *NE2000.* A frame that fills the ring exactly up to the boundary makes it count as empty
  (`ne2000.c` 286-289): the next frames overwrite unread ones.
- *VGA.* A text refresh that is ordered to draw everything (a mode change, the end of a held
  screen, `vga_refresh` with its argument set) skips `update_palette16` (`||` at `vga.c` 1021)
  and draws in the colours of the refresh before, black on black the first time; the next
  refresh corrects it. Unusual text layouts are drawn over what the frame buffer held, which
  nothing clears. Writes through the linear frame buffer, page flips in mode 13h and font changes mark
  nothing dirty; VBE pictures are recognised by a fingerprint and redrawn every 64 presents
  at the latest; with the read-paced retrace a guest that never reads the status is not
  redrawn in mid-frame.
- *PCI.* Sizing the base address while decoding is on moves the window for that time; byte
  and word writes to it are ignored.
- *CPU.* A same-level exception with an error code through a 16-bit gate stores the code over
  the saved IP; a return into an inner conforming segment is refused; ESP is already switched
  when the inner stack faults; JMP FAR through a call gate to an inner segment switches ring and
  stack (`i386.c` 5836-5914) where the processor faults, and leaves no frame to return by; IRET
  takes NT from the frame in every ring (6399-6402); IRETD in real and virtual 8086 mode (2849),
  an absent return SS, a call to a busy task and IRET to virtual
  8086 mode outside ring 0 abort the emulator. In string instructions a 16-bit offset that
  wraps in the middle of a page (segment base not page-aligned) continues linearly to the
  page's end; `StringExact` leaves that case out (`WrapsAtPage`).
- *IDE.* A software reset does not lower INTRQ; `cur_drive` is empty until the guest selects
  a drive; a refused read changes `io_nb_sectors` under an abandoned write.

## 4. Runs

Every passing run checks deadlock unless said otherwise. Times are for two workers.

| Run | Shows | Bounds | Distinct states |
|---|---|---|---|
| `NetBlkCache_exact` | without prefetch the caches implement `BlockDisk`; reads deliver the latest acknowledged writes, nothing acknowledged is lost while the link lives, a successful flush has committed all, the image never goes back, every hook returns | 3 sectors, 2 writes, 2 windows of 2, buffer 2, table 2, requests up to 3 | 496 467 |
| `FileDisk_rw` | the file behind its windows implements `BlockDisk` | 3 sectors, 2 writes, 2 windows of 2 | 96 000 |
| `WrbpLink_sessions` | client and server in step after refusals; READ, WRITE and FLUSH mean what they say; the end of a session makes acknowledged writes durable; with keepalive the server comes back to accept, whatever timeouts left behind | 3 sectors, 1 write, chunks of 2, 2 sessions, 1 timeout of each kind | 137 101 |
| `AtaDisk_ports` | any access at any time: no transfer leaves the buffer | 2 sectors, counts modulo 5, multiple 2 | 192 000 |
| `AtaDisk_driver` | the driver reads and writes exactly the sectors it names and is interrupted for every block | 4 sectors, geometry 2 x 2, LBA and CHS, 3 commands | 872 000 |
| `AtapiCd_guest` | parts add up, bytes are in place, every part is announced and interrupted, a disc change is reported | sectors of 4 and 6 bytes, 3 sectors, limits 2, 3, 6, 16, 3 commands | 631 874 |
| `Pic8259_eoi` | a guest that only ends interrupts gets no spurious one; HLT wakes | lines 5, 8, 14 | 33 200 |
| `Pic8259_modes` | masking, rotation, priorities, re-initialising and polling the slave, auto EOI: the CPU is told, the slave is forwarded, a request is taken exactly by its delivery | lines 5, 15 | 269 568 |
| `Machine_devices` | the properties of the next table, device by device | see below | 1 065 554 |

`Machine_devices`, by workload:

| Workloads | Property | Says | Bounds |
|---|---|---|---|
| timer, measure, speaker | `TicksExact` | no interrupt early, lost or twice per load; the wave stays in its buffer | clock of 24, bytes of 2 values, polls at most 2 apart |
| keyboard, mouse | `DataAnnounced`, `StreamsWhole` | status and lines tell of the byte the next read gets; codes and packets are whole | queue 6, reserve 4 |
| dsp, play8, play16, single, switch, rate | `TransferAccounted`, `CardInStep` | DMA position, bytes left and bytes moved agree, the ring neither overflows nor underflows; no argument is taken for a command, a line has a cause | ring 4, blocks of 3 |
| clock | `RtcPrompt` | the next periodic interrupt is at most a period away | clock of 21, periods 2 and 4 |
| floppy (and serial) | `FloppyInPlace` | each string continues after the last sector moved | 2 drives, images of 1 sector, counts 1 and 2 |
| network | `RingIntact` | an unread frame is never overwritten until the ring is overrun at the very page of the boundary, the line has a cause | ring of 5 pages, frames of 1 and 2 |
| band, planar, text, modes, vbe, lcd, retrace | `ScreenShows` | after a refresh the LCD shows what the guest programmed, an ordered text refresh in the colours of the one before | 8 words, 4 rows, text 2 x 2 |
| bus | `BarAgrees` | video memory is where the last words of the guest put it | window 4, memory 3, two devices |
| paging | `AccessExact` | an access comes out as the page tables and WP say, and marks them | 2 pages sharing one slot everywhere, 2 frames |
| real, v86, rings, tasks | `TransfersReturn`, `RingsKept` | a return comes back to what was interrupted; rings, flags, segments and tasks agree, also after jumps through gates and forged frames | 3 transfers deep, 2 over a program with NT |
| stos, lods, scas, movs, cmps, ins, outs | `StringExact` | as if done element by element, however often interrupted | 2 pages of 4, 5 elements, slices of 2 |

Deadlock is not checked there: a string instruction ends, and `cpu_abort` ends the machine.

The serial port and some VGA and PCI registers are there because they are part of the devices'
state and operations; no property is about them.
`Pic8259_modes` has one line at each controller (and the cascade), so a rotation changes no
order among the slave's requests in it; `SlaveIsForwarded` and `CpuIsTold` are proved for any
set of lines.

Why the bounds are enough to meet the interesting cases: two writes can overlap fully,
partly or not, in either order, and a third sector lies outside both; two windows of two
sectors over a disk of three overlap and evict each other; a table of two fills up. Chunks
of two cut a WRITE of three into a full and a short one. A geometry of 2 x 2 carries from
sector to head and from head to cylinder; a count modulo 4 makes 0 stand for the whole disk.
A clock of 24 wraps within a few polls,
with loads before and after the wrap. One slot for two pages makes every access evict. Five
elements cross a page end from each of eight offsets in both directions, in more than one
slice, with operands that overlap by any distance, on pages that may be the same frame.
The CD limits of 2, 3 and 6 against sectors of 4 and 6 cut parts at, before and after sector
ends, and 3 exercises the rounding of odd limits. Counts up to 8 pass `IntLimit`.

The `WrbpLink` runs switch deadlock checking off: sessions and writes are bounded, so a
behaviour may have nothing left to do. `Backlog` bounds what is left in the streams when the
client sends its next request: after a receive timeout it may go on sending without ever
catching up, so the lag has no bound of its own.

### Fairness

- `NetBlkCache`: weak fairness of a hook's own steps. The hook is a loop in the only thread
  and every request ends by the socket timeouts.
- `Pic8259`: weak fairness of `Acknowledge`, since `pc_step` comes back to `cpui386_step`
  for as long as the machine runs. Neither devices nor the guest's instructions are fair.
- `WrbpLink`: weak fairness of the server's steps, a running process, and of `Notice`, which
  is enabled only with keepalive: TCP then reports a lost peer. `WrbpLink_reconnect` adds weak
  fairness of the client's steps, so that its counterexample is not a client that simply
  stops. Connecting and stopping are not fair.

### Mutants

For each property of a passing run `PROJECT.json` names a definition and a mutated form of
it (defined beside it, marked "Mutant:") under which TLC finds the property violated.

## 5. Proofs

Proved with TLAPS for every value of the constants that satisfies the named assumptions.

`FileDisk_proofs`. The inductive invariant is `TypeOK /\ WindowsHoldFile /\ MediaBehind`.
`MediaBehind` says that stamps only grow from medium to file to latest write; without it
writing a sector out could not be shown to be a `Commit` of `BlockDisk`. Theorems:
`FileTypeCorrect`, `WindowsAreCurrent`, and `FileImplementsDisk`: every step of the file
backend is a step of the plain disk or leaves it alone.

`NetBlkCache_proofs`. `Shape` (types, where in a hook which call is in progress, the buffer
is a run of consecutive sectors, the table never holds more than its count) is inductive by
itself and gives `TypeCorrect`. `Safe` adds the order of things: what is in the image is no
newer than the buffer, the buffer than the table, the table than the call in progress
(`Ordered`), how far a write has got (`Progress`), that nothing is lost while the link lives,
and that a flush in progress has found buffer and table empty (`Flushed`); it gives
`NoWriteLost`, `FlushIsDurable` and `WritesInOrder`. Order needs the assumption
`TableCoversBuffer`: the table is at least as large as the buffer, as in the release (2048
and 1024); otherwise a write too long for the table is buffered behind older entries.
`Coherent` adds, for `Prefetch = 1`, that every window and every sector delivered so far is
current; it gives `WindowsAreCoherent` and `ReadsAreLatest`. The refinement,
`CachesImplementDisk`, needs two facts more: what the buffer holds is acknowledged or of the
write in progress (`Pending`), so sending it is a `Commit`, and a read has delivered exactly
the sectors it has passed (`Delivers`), so its answer is a `ReadOK`. The heads of the hooks
are `Begin`, `Return` is the answer, a request that changes the image is `Commit`
(`ImageCommits`), and all the rest leaves the plain disk alone. Finding 1 shows that
`Prefetch = 1` cannot be dropped from the three theorems that have it.

`WrbpLink_proofs`. `LinkInv` follows the one request there can be: unread in the stream,
being served, or done with, and only then units of its answer are on their way back, which
are a beginning of that answer (`InStep`). Beside it stand what the image holds of writes
whose answer is still under way (`InImage`), when everything is on the medium (`Kept`), and
what the last answer said (`Told`). A break of the connection cuts the streams at any place,
so nothing is said of their ends. Theorems: `StreamsStayInSync`, `ReadsDeliverImage`,
`AckedWritesAreInImage`, `AckedWritesAreDurable`. Like the properties they speak of
behaviours in which no receive or send has timed out (`Untimed`).

`AtaDisk_proofs`. For any guest, `NothingLeavesTheBuffer`: `InBuffer` is inductive by itself.
For the driver, `DiskInv` couples the driver's place in its command with the drive's: in a
read the block in the buffer is the `k`-th and holds the disk's words (`ReadBlock`), in a
write the next sectors are asked for and `end_transfer_func` is the one that stores them
(`AskedBlock`). It gives `DriveAndDriverInStep`, `WrittenWordsLand`, `WaitersAreInterrupted`
and the action property `OnlyTheCommandWrites`, under the hypothesis `Addressable`: every
sector, and the one after the last, has an address in LBA and in CHS. With 16 heads, 63
sectors and 28-bit addresses this is any disk below 33 GB; the code does not refuse a larger
image, whose upper part its guest cannot reach by cylinder.

`AtapiCd_proofs`. `CdInv`: as long as a reply is in progress (`Moving`), the bytes left in the
part, the bytes announced, the place in the sector buffer, the next block and what the guest
has got so far add up (`Flow`). It gives `PartsAreAsAnnounced`, `ReadBytesAreInPlace`,
`ReadsAreComplete` and `ChangesAreReported`, for every sector size, byte count limit, disc and
length of the other replies, without further hypotheses.

`Cpu386_proofs`, what the CPU depends on. Interrupt controllers: `Good` is the type invariant, line 2 of the master low between updates
(it is pulsed), and the two properties under the conditions on the guest. `CpuIsTold` holds
for a guest that never writes special mask or special fully nested mode to the master,
`SlaveIsForwarded` for one that neither initialises nor polls the master again nor uses
special mask mode at the slave. The conditions are needed: those modes change the active
request without telling the CPU. `NothingSpurious` holds for a guest whose writes to the
controllers only end interrupts (`OnlyEnds`); its invariant `Exact` says that a raised INTR
and a forwarded line 2 have an active request behind them. `RequestsAreDelivered`, the action
property, holds for every guest.

Address translation: `MmuInv`: every entry of the TLB, of a page not owed a flush, agrees with
the page tables but for rights granted since (`TlbExact`), and every entry of the two caches
before it still allows the access it was made for (`FastExact`). It gives `AccessIsExact` and
`CachesAreTrue`, for every number of pages, frames and slots.

`Board_proofs`. `KeyboardDataIsAnnounced` and `StreamsStayWhole` (`KbInv`: pending bits, status
and lines are what the two queues' lengths say, the prefix history is the delay flag);
`WindowFollowsBar` (`PciInv`: the base address register is a multiple of its size and the
window is mapped as the command register says); `PeriodicInterruptIsPrompt` (`ClockInv`) and
`FloppyStaysInPlace` (`FloppyInv`: the file's position is the first sector plus what the
transfer has moved); `FramesStayWhole` (`NicInv`). In the ring of the network card places are
compared by how far they come after the page the driver reads next (`Offset`): counted so, the
unread frames follow one another without a gap up to the current page (`Lined`), each of their
pages holds its part (`Stored`), and the boundary is the last place of all, which
`ne2000_buffer_full` keeps the largest frame from passing (`RoomLeft`) as long as the ring has
not been filled to it exactly. Once it has and another frame comes (`drv.over`), the invariant
keeps only where frames and registers may be; the driver's next start of the ring restores the
rest. The pairwise order in `Lined` follows from the gapless chain only
by induction over the frames, so the invariant carries both.

`TicksStayExact` (`PitInv`): in the periodic modes the interrupts given so far are whole
periods (`last % count = 0`), not more than have passed, and fewer than one period behind but
for the time since the last poll; and `last` lies in the first half of the clock's range,
since `i8254_update_irq` reloads the channel beyond it. From the last two, and from
`PitAssumption`, follows that the difference of two readings of the wrapping clock is the time
that has passed. The assumption says that half the clock's range, one longest period and the
longest gap between two polls, counted in periods of the timer's input, together fit the
range; with 32 bits of microseconds, 1.193182 counts to a microsecond and a period of at most
65536 counts that is any gap below 24 minutes. `CardStaysInStep` and
`TransfersAreAccounted` have one invariant, `SbInv`: a line has a cause (`SbCaused`); of a
transfer left alone, bytes left, DMA position and bytes moved agree and only its own channel
requests service (`SbExact`: without it a stale request of the other channel could move the
position); the DSP waits for what its command needs (`SbStepped`). Acts within acts (a
command byte starts a transfer, which runs the controller, which calls the card, which may
end the transfer) are lemmas about the C functions, one per function, that a step combines.

Each theorem of `Board_proofs` is about the device's own specification (`KbSpec`, `PciSpec`,
`MiscSpec`, `NicSpec`, `PitSpec`, `SbSpec`), which leaves all of its guests' actions free; a
workload of `Machine` is one of them.

`Screen_proofs`. `ScreenStaysTrue`, for any guest (`VgaSpec`). A renderer that skips what it
drew before relies on a frame buffer that others draw into as well, so `VgaInv` says for each
of them, in every state, what the frame buffer holds: the band but for its dirty lines
(`BandKept`), the planar picture drawn last but for its dirty pairs (`PairKept`), the VBE
picture unless too few full presents have followed the last change (`VbeKept`), the remembered
cells but for the one under the cursor, in the colours of `last_palette` (`TextKept`; those
are the guest's own only after a refresh that was not ordered to draw everything). Each holds only while no order to draw
everything is outstanding (`Orders`), and `Owing` says that a change of the mode leaves one
outstanding. `Drawn` relates the last refresh to the picture wanted now, and `FrontKept` the
LCD to the frame buffer: equal unless TI-OS took the LCD or the clearing of a new mode is
still to come. `VgaAssumption` says that the pictures fit the LCD, as the fast renderers
check. The history flags `band`, `pair` and `text` stand for changes the code has no way to
notice. The proof of `TextKept` found `text` wrong in one case: a cursor moved while rows are
not as long in memory as on the screen, so that its address may name cells of two rows. What
counts is the row length of the last drawing, not the one being written.

Only model-checked, and why:

- `CallsReturn`, `HaltWakes`, `SessionsEnd`: liveness under fairness, and `ENABLED`, are out of
  the prover's reach.
- `StringExact` compares with the instruction done element by element: an induction over
  data, which the installed provers cannot do.
- `TransfersReturn`, `RingsKept`: not proved. The frames of the transfers in progress lie as
  words in the stacks of three rings and two tasks, and a return is right because every word of
  every frame below it is still what its transfer pushed. The invariant would have to describe
  the contents of all nested frames, in four formats, over tables that the model gives as
  concrete values.

## 6. Not modelled

- Arithmetic of the instruction set, floating point, sample synthesis, drawing: data
  conversions without the control a model checker explores.
- Read-only and snapshot images and CISO: no caller in the shipped builds.
- A READ answer that arrives after a receive timeout is accepted for whatever was asked
  next, since `netblk_header_ok` does not compare addresses. `WrbpLink` contains this
  behaviour; its data properties are stated for behaviours without timeouts.
- Byte count limits of 0 and 1 and odd reply sizes at the CD drive, with which the word-wide
  data port cannot finish a part.
- OPL synthesis (`fmopl.c`, third-party), the generic renderers of the desktop build, write
  mode arithmetic of the VGA planes, the desktop front ends, the menu, the configuration
  parser, the calculator's helper programs.
- Port dispatch (`pc.c`): a table from port numbers to the device functions modelled.
- Segment limits: the code does not check them. The LDT is left out of `Transfer386`.
- Input scanning of the native front end. It drops releases when the keyboard's queue is full.

## 7. Plan

Done: the disk path (`BlockDisk`, `NetBlkCache`, `FileDisk`, `WrbpLink`, `AtaDisk`,
`AtapiCd`), interrupts (`Pic8259`), the other devices and the CPU slices (`Machine` and what
it extends).

Proved: section 5. Left for a proof: `TransfersReturn` and `RingsKept` of `Transfer386`, for
the reason given there. `StringExact` and the liveness properties stay with TLC.

Possible models: input scanning and the shutdown path of the native front end.
