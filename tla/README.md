# sh-boot in TLA+

sh-boot is a boot loader for Hitachi/Renesas SuperH boards.  It resets into a
monitor with one-letter commands on a serial line, boots a kernel from an IDE
disk or over the network, offers the kernel BIOS calls, and holds a GDB stub
that debugs it.  There is no operating system below it and no thread in it;
what makes it hard is that everything else happens at the same time: the
program it debugs shares its memory, exceptions and NMIs come in the middle of
its own exception code, and the network adapters, the disk, the serial line and
the servers go on by themselves while the code polls them.

The modules here model that code, TLC checks them on small instances, and TLAPS
proves most of their safety properties for instances of any size.  Line numbers are those
of the files in `src/`; `PROJECT.json` lists, for every definition, the lines it stands for.

## Inventory

| Part | Source | State it keeps | Operations | Right if |
|---|---|---|---|---|
| GDB stub | `sh-stub.c`, `main.c` | `registers[]`, `stepped`, `instrBuffer`, `dofault`, `ingdbmode`, `in_nmi`, the traps in the program's memory | `handle_exception`, `gdb_handle_exception` (`? d g G m M X c s k D`), `doSStep`, `undoSStep`, `handle_buserror` | memory is seen as if no trap had been put into it; a step runs one instruction; answers and PCs are true |
| Exception entry | `exceptions-sh3.S`, `exceptions-sh2.S` | CPU registers, stacks, SPC, SSR, `registers[]`, `in_nmi` | vector stubs, `saveRegisters`, `restoreRegisters`, `nmi`, `do_timer`, `do_IRQ` | the program goes on as it was stopped |
| Packets | `sh-stub.c`, `main.c` | `remcomInBuffer`, `remcomOutBuffer`, checksum | `getpacket`, `putpacket`, `mem2hex`, `hex2mem`, `ebin2mem`, `serial_output` | what was sent is what is run, and nobody waits for ever |
| Network boot | `ethboot/` | `arptable`, `filename`, `dhcp_reply`, `oport`, `mount_port`, `nfs_port`, `fs_mounted`, `rpc_id`, the image | `etherboot`, `bootp`, `udp_transmit`, `await_reply`, `nfs`, `load_file` | the kernel is the server's file; the address is the loader's own |
| 8390 driver | `ns8390.c` | the ring's CURR and BOUND, ISR, RSR | `eth_receive`, `eth_rx_overrun`, `eth_transmit`, `eth_reset` | frames are passed on whole, each once |
| PCNET32 driver | `pcnet32.c` | `rx_ring`, `tx_ring`, `cur_rx`, `cur_tx` | the same | driver and chip stay in step round the rings |
| IDE driver | `ide.c` | task file, `ide_device_data` | `ide_detect_devices`, `ide_startup_devices`, `ide_read_sectors` | the sectors returned are those asked for; every call returns |
| Monitor, BIOS | `main.c` | `ingdbmode` | the monitor's commands, `handle_bios_call`, `shutdown` | calls return to the caller with one register changed |
| Timer | `rtc.c` | `tick`, TCNT | `get_tick`, `reset_tick`, `sleep128`, and the loops of the other files that wait for a tick | a wait ends, and is neither short nor long |
| Serial | `sh-sci.c` | FIFO or data registers, error flags | `getDebugChar`, `getDebugCharTimeout`, `putDebugChar`, `handleError` | characters in order; one error does not make the port deaf |
| SMC91xx driver | `smc9000.c` | the selected bank, RCR, TCR, packet memory, `nic` | `eth_*` | no call leaves packet memory behind or the receiver off; every call returns |
| CS89x0 driver | `cs89x0.c` | the address port, the chip's registers, `eth_nic_base`, `eth_adapter_cnf`, `eth_auto_neg_cnf`, `node_addr` | `eth_*`, the probe | the adapter is found and configured from its own EEPROM |
| Start-up, boards | `entry.S`, `init-*.S`, `cat68701.c`, `sh2000.c`, `pci-sh7751.c` | none after they ran | straight-line register writes | |
| Pure code | `vprintf.c`, `string.c`, `ctype.c` | none | formatting, copying | what is printed is what the directive says |
| Flash writer | `tools/cqsh4-flash/flash.c` | the chip's command state | `do_flash` | the ROM holds the image when it says so |
| Scrambler | `tools/dreamcast/scramble.c` | the generator, the file | `scramble`, `descramble` | descrambling undoes scrambling |

How they interact.  An exception of the program enters through
`exceptions-sh3.S`, which saves the registers in `registers[]` and calls
`handle_exception`; that decides, by the vector and TRA, between a BIOS call
(`handle_bios_call`) and a session with gdb.  A session reads and writes the
program's memory and leaves by returning, upon which the entry code restores
what is in `registers[]`: the stub and the entry code share that array, the
stub's stack, `dofault` and `in_nmi`.  BIOS calls and the network loader use the
same Ethernet drivers, of which a board is linked with one; the kernel's disk
reads use `ide.c`.  Every wait is written with `get_tick`, which changes the
counter it reads.  The adapters share
memory (rings, registers) with their drivers and nothing else.

What is hard: an NMI or a timer interrupt between two instructions of the entry
code; the re-entry of a stub that has one register save area; a fault in the
middle of a memory command, which leaves by `longjmp`; a program that stops
anywhere but at the trap of its step; packets and datagrams lost, doubled and
late; several servers that answer one broadcast; rings that wrap and fill while
the other side moves; time-outs after which a device goes on with what was
given up; a reset in between.  `PROJECT.json` lists these as hazards, each with
its line and the properties that would catch it going wrong.

## Modules

```
DebugTarget   <-- implemented by --  GdbStub  <-- MCGdbStub
                                        ^
                                        |--- GdbStubProofs
Entry      = ExcEntry | ExcEntrySh2                   <-- EntryProofs
GdbPacket                                             <-- MCGdbPacket, GdbPacketProofs
Net <-- Bootp <-- Nfs <-- NetBoot                     <-- MCNetBoot, NetBootProofs
Ethernet   = Ns8390 | Pcnet32 | Smc9000 | Cs89x0      <-- MCEthernet, EthernetProofs
             implements FrameQueue
Storage    = Ide | Flash                              <-- MCStorage, StorageProofs
Algorithms = SStep | Printf | Scramble                <-- MCAlgorithms
Rtc        <-- RtcProofs
Sci        <-- SciProofs
```

`|` stands for parts of which a program has one.  `Entry`, `Ethernet`, `Storage`
and `Algorithms` have the variables of all their parts, instantiate each with
`INSTANCE`, and choose one in their initial state; only that one takes steps,
the variables of the others are `Absent` throughout, and variables of one name
(`pc`, `registers`, `queue`) are shared.  So the parts that promise the same
thing have it stated once: `FrameQueue` is what every Ethernet driver promises,
`ContextKept` what both processors' entry code does, `DataExact` what both kinds
of storage do.  Every program whose state
lasts longer than one computation has a `TypeOK`, which holds in its instance and
can be named in its configuration; the one that is named is that of `GdbStub`, where
it is also proved, and bounds how far a memory command goes.

### GdbStub, DebugTarget, MCGdbStub

`GdbStub` is the CPU with a program and the stub.  The program's memory is an
array of slots, each with an instruction of a kind that stepping tells apart
(plain, store, conditional branch with and without a delay slot, jump, RTE,
illegal, and the traps).  `at` says who has the CPU: the program (`user`), a
BIOS call, the monitor, or a place in the session: `report` (the S packet is
out, line 847), `wait` (in `getpacket`, 870), `access` (inside `m`, `M`, `X`),
`reply` (1002), `plant` (between the two halves of `doSStep`), `detach` (996).
`wild` is where the CPU goes through a stack frame that is gone.

The program's actions are `UserPlain` .. `UserFault`; the host's `CmdInfo` ..
`CmdDetach` are the arms of the switch; `ReportAcked`, `AccessWord`,
`AccessDone`, `ReplyAcked`, `StepPlant`, `DetachDone` are the code between two
points where something else can happen.  A BIOS call fills a buffer of the
program's any number of times or faults on it (`BiosBuffer`) and returns,
detaches or shuts down.  `StubInterrupted` and `StubFaults`
enter the stub a second time.  An `m` or `M` is word by word, because it may
fault after any of them; BL is kept, because a second fault with BL set resets
the CPU.

`DebugTarget` is what a debugger's host is promised: a memory that only the
program and the host's own commands change.  `GdbStub` implements it with the
refinement mapping `Shown` (the memory with the word under a step's trap put
back) and `Mode`.  A reset in the middle of a step may leave one trap behind, and
once the stub has been re-entered nothing is promised until a reset; both are
in `DebugTarget`, because both are what the code does.  A store of the program
into the slot under the trap is invisible in `Shown`, and lost in the code when
`undoSStep` writes the old word back: that is a finding.

The instance: 5 slots, one in ROM, one unmapped; two programs that between them
have every kind of instruction; three register files, whose register for jumps,
stores and buffers points at another slot, at the program's start and at the
unmapped slot, with R15 inside the code;
an access that succeeds and one that writes ROM and then faults.  Five slots
let a branch go forward, backward, over its slot, into ROM, out of memory and
to itself.  The exceptions that hit the stub are bounded to one before a reset:
after the first nothing is promised.

* **TypeOK** — also that no memory command goes past its length, which for `m` is cut to
  what the reply has room for (`MaxRead`).
* **TrapsTakenOut** — while the host's commands are served there is no trap of a step in
  memory, but for those in `left`, which a reset left there: however the program stopped,
  whatever was stored over the trap, and also where an exception came between the two
  halves of `doSStep`.  It is about memory and not about `stepped`.
* **FaultsArmed** — `dofault` is set again on both ways out of the `setjmp`.  Nothing is
  promised of it between a re-entry of the stub and the next reset.
* **AnswersTrue** — OK means all words accessed, E03 means one is unmapped.
* **StepExact** — an action property: the first instruction after `s` leads to the trap,
  and no second one runs.
* **StopPcExact** — the PC that gdb is shown.
* **ImplementsDebugTarget** — the refinement.

Two more runs of this instance show disagreements between the code and its
comments: `ProbeReset` (the second bad access in a session resets the CPU) and
`StepRte` (a step over RTE).

### Algorithms: SStep, Printf, Scramble, MCAlgorithms

`GdbStub` takes `doSStep` to know the next PC by the kind of instruction;
`SStep` checks that on the bits: the masks and displacements of `doSStep`
against the instruction set's definition (`NextPc`), for all 65536 opcodes, T
set and clear, with PCs at both ends of the address space so that branches wrap.
The address space has 14 bits so that TLC's integers do for it and a 12-bit
displacement still reaches across both ends; the code's arithmetic is the same
modulo any power of two.

`Printf` is `number` and the conversions of `vprintf`: a directive is the record
that the parser of `vprintf` makes of its characters, and what comes out is compared
(`PrintedExact`) with a definition that says what a field is: its text, filled up
to its width on the side the flags say.  All 32 sets of flags, widths and
precisions that are absent, negative, too small and ample, and arguments around
the ends of each range; longs have 8 bits and shorts 4, so that negation,
truncation and the most negative number occur.

`Scramble` is the Dreamcast scrambler with its generator and its loops over chunks
of falling size, on sequences of slices.  Files of 0 to 20 slices with 0, 1 and 31
bytes more, and chunks of at most 8 slices, so that whole chunks, every smaller
size and an incomplete slice all occur; scrambled or descrambled up to twice in
any order (`ScrambleInverts`).  The list of sizes of chunks is that of the code but
for its first.

### Entry: ExcEntry, ExcEntrySh2

The entry and return code, with the CPU's registers, stacks and the vector.

`ExcEntry` is the SH-3's.  Up to line 293 BL is set and the code is one step; from
there a step is a few instructions and `Nmi`, `Break`, `Irq` may come between any two.
A register's value is the name of the program's register it belongs to, `junk`
or a vector, so that `ContextKept` says that each register ends where it began.
`clean` is true while everything that came since the stop came where the entry
code can bear it (`Harmless`): that is the statement of where it can.

`ExcEntrySh2` is the SH-2's, where an interrupt may come from the first
instruction on, the handler runs on the program's own stack, and the way back
builds the frame of RTE there.  The stack is its words: what lies below R15 may
be overwritten at any time, so `ContextKept` fails if anything still needed is
read from there, and the host may move R15 while the program is stopped.  `clean`
leaves out one thing, the timer's interrupt, which spoils three registers.

`MaxHits` = 2 interrupts before the program resumes: one to spoil and one more
to hit the code that was spoiled or nested.  `FREE` = 8 words are below the
program's, more than the frame and one interrupt take.  `Resumed` is liveness, and
`NmiRearmed` says that even a spoiled return leaves the NMI button working.
`BreakEntry` shows that a serial break saves wrong R2 and R3.

### GdbPacket, MCGdbPacket

`getpacket` and `putpacket`, character by character on the way to the stub,
packet by packet on the way back; the data of `m`, `M` and `X`, the signals of
`s`, `c` and `?`, the O packets of a program that prints; and a host that does what
gdb does: repeat, acknowledge, send `-`, show what is printed.  The line loses and
garbles up to `MaxErrors` = 2 characters or packets: with one, all that is promised
must hold, and the second is there for `RepeatsTakeErrors`.

Five requests, so that a late packet of one can meet the next and a merged one the
one after: a binary write whose data have a `#` and an escape, a write in
hexadecimal that runs into a bus error after its first byte, a read back whose
answer has a run of seven (for which the code sends a `#`), a run of a program
that prints twice and stops by an NMI, and `?`.  `BUFMAX` = 10 is filled by
two of them merged, `OUTBUFMAX` = 8 just takes the answer to the read.
Runs of 99 and more, of which `putpacket` makes two, are out of these bounds; the
theorems on replies are for runs of any length.

* **RunsWhatWasSent** — the stub runs no packet nobody sent.
* **RepeatsTakeErrors** — packets have no number, so each error may run one again,
  and nothing else does, for any number of errors.
* **RepliesMatch** — what the host takes for the answer to a request is what a target
  answers (`MemoryAfter`, `SignalAfter`), and what is shown is what was printed.
* **SessionCompletes** — neither side waits for ever, nor does the program that prints.

### Net, Bootp, Nfs, NetBoot, MCNetBoot

One module per file, each extending the one below as the code calls it; they
have no specification of their own and `NetBoot` composes them.
`Net` has the network (a set of packets, with loss, duplication and reordering),
the adapter's queue, ARP both ways and the two places where `udp_transmit` waits
for it; `Bootp` the two retry loops and what an answer overwrites; `Nfs` the
calls with their ids and retries, ports, mount, reads and unmount, and
`load_file` starting over.  The servers are external: they answer, refuse,
answer short, forget the loader's hardware address, restart on another port.

The instance has a DHCP server whose file takes two reads, the second short,
and a BOOTP server whose file is one read; answers meant for another host may
be about.  `Naming` says which answers of which server have a file name: the DHCP
server's offer has one and its ACK has none, the BOOTP server's answer has one.
`MaxFaults` = 2 packets lost, doubled or late and answers short or
refused; retry limits of 2, so that all are reached with that many; 2
repetitions of a failed attempt; a range of two source ports, so that the sweep
starts over.

* **ImageExact** — the image is a prefix of the file at all times, and the file
  at the end, whatever was repeated or late.
* **AddressHeld**, **OneServer** — which answers the loader acts on.  Address and server
  are always from one answer, and the file name too if that answer has one (`Names`); if
  not, it stays that of an earlier answer, which may be another server's: a finding.
* **MountReleased** — without faults, no attempt leaves a mount behind.  With them one may:
  the mount whose reply is lost stays, a finding.
* **KernelLoads** — any single fault is survived, apart from two named cases in
  which it is not: `Muddled` and `Stuck`, both findings.

### Ethernet: Ns8390, Pcnet32, Smc9000, Cs89x0, FrameQueue, MCEthernet

`Ns8390` is the ring of pages between the adapter and `eth_receive`.  The adapter
stores a page at a time and may meet BOUND between any two steps of the driver.
Frames of 1, 2 and 3 pages in a ring of 4, three frames to come: the ring wraps, is
filled to the last page, and overruns in the middle of a frame.  The driver's
steps are the accesses to registers another party changes.

`Pcnet32` is two rings of two descriptors, with the chip (external) at its own place
in each.  `WRAP` = 2 is the width of `cur_rx` and `cur_tx`; it must be a multiple
of the ring sizes, as 2^32 is, and three frames take them past it.
`sync_tx` is a variable that keeps its first value, so that both kinds of build
are checked.

`Smc9000` is the driver's calls in any order, and a chip whose packet memory is
shared between what it receives and what it is to send.  A routine sees the registers
of the bank it selects, or, in `eth_reset`, of the bank it finds: `Start` has a case
for each.  `wild` is a call through a function pointer of `nic` that is null, which
takes an adapter that is not there or a call before the first probe.  Four pages with
frames of one to three, so that received frames can hold what a transmission asks for;
sizes of one page, of two, and too many; two tries to allocate, so that the
first and the last are different.

`Cs89x0` is the probe along its list of addresses, the configuration from the chip or
from its EEPROM, the choice of the medium, and the calls.  A chip shows its
signature only while its address port points there, and keeps port and registers
through a restart of the processor, while the driver's variables do not.  Two ports;
the built-in list, which has each first even and then odd, and the two kinds of
`CS_SCAN`; boards with no chip, one chip or two, of which one is silent, has no
cable, is in auto mode, or does not care.  `size` is rounded to a minimum and to
even.  The chip takes a bid for as much as 1514 bytes when it has room, and none for more
(`TooLong`); the driver looks at neither limit and asks again.

* **RingAgrees** — CURR and BOUND agree on what is between them.
* **RxInStep**, **SentInOrder** — chip and driver are at the same place in both rings of
  the PCNET32, and frames go out once each in order, though waits for them end early.
* **MemoryKept** — between calls all packet memory is the SMC91xx's receiver's again,
  whatever was given up and when.
* **Listening** — which calls turn a receiver off: that of an SMC91xx marked as
  initialized is off only after one of the two that `excused` records, both findings; a
  CS89x0 that a probe has found is on, and is the one whose address is used.  After a probe
  that found nothing the driver goes on with the last address it saw, a finding;
  `Listening` is not about that.
* **NoneHidden** — a probe that finds nothing has had nothing to find, at the addresses for
  which the code puts the port back (the odd ones) and for an adapter that needs no cable
  and has configured itself.  At even addresses an adapter is lost, a finding.
* **SendEnds** — a transmission by an SMC91xx ends whatever the chip does; one by a CS89x0
  that is on, if the chip sends what it was given and the frame is not `TooLong`.  With a longer
  one the driver retries for ever, a finding; the run has such a frame.
* **FramesReceived** — what has come is passed on, again and again; of the 8390's ring
  what no damaged frame hides (`Hidden`, a finding).
* **KeepsFrameQueue** — the refinement: `FrameQueue` is a queue from which frames are
  passed on in order, whole and once each, and are lost only when the adapter is set
  up afresh or brought out of an overrun.  What waits is in each driver something
  different: frames between the ends of a ring of pages, descriptors that are the
  host's, packets in a FIFO.

### Storage: Ide, Flash, MCStorage

`Ide` is calls of the driver, one after the other, and a device that works between the
polls, or does not: every wait may run out, and the device goes on with what was
given up.  A wait has two polls, enough for it to succeed at once, later, or
not at all.  The registers count to 4 sectors and address 4; requests are for
none, one, some, all and one more than that, at the start and over the end of the disk,
for an address that does not fit the registers, and for device 1.  The last two succeed,
with sectors that were not asked for: both are findings, and `Addressed` names the requests
that the driver can make of the disk.

`Flash` is every write and read of `do_flash`, and a chip (external) that takes
commands as sequences of writes, ignores them while it works, toggles a bit with
every read until it is done, and may fail.  Any contents before; two images that
need each other's bits set, and whose words look like a status; the board may be
reset once anywhere, and the writer started again with either image while the chip
is still at work.

* **DataExact** — the sectors are those asked for, if the request is `Addressed`, and nothing
  of any request stays for the next one; the ROM holds the image when the writer says so.
* **TaskFileFree** — the disk's registers are written while it is not busy.
* **CallsEnd** — whatever the disk does; the flash writer, because the chip works or
  gives up.

### Rtc

`get_tick` in its two halves (it reads the counter, and then stops it, moves what is
more than a tick and starts it again), `reset_tick`, and waits of both kinds: that
of `sleep128`, and that of the drivers and the loader.  The counter goes on between
any two steps of the code, by at most `LAG` = 2, which is less than a tick, and by any
amount while an NMI or gdb holds the processor.  Eight counts with three to a tick, and ticks that wrap at
8: counter and ticks wrap, and the counts {0, 1, 3, 5} overflow or change their
sign from most starts.

* **WaitsLongEnough**, **WaitsNotTooLong**, **WaitEnds** — a wait is neither short nor long,
  and ends.  Where the sum overflows or changes its sign it does end early, a finding
  that `WaitsLongEnough` leaves out by `Overflows` and `ChangesSign`; `WaitsNotTooLong` has
  these waits too, and leaves out `Misses`.

### Sci

The SCI with one register each way and the SCIF with a FIFO each way (3 deep,
sending asked for at 1), the register accesses of the driver one by one, and characters,
errors and overruns between any two of them.  Five characters each way overrun and
refill the FIFO; a time-out of 0 counts down around, as the code's does.

The SCIF is that of the SH-4, whose overrun flag the driver looks at; on an SH-3 or an
SH7300 it does not, a finding.

* **InOrder** — a character is read once and in order, and none that the port kept
  (`dropped` has the others) is passed over, whatever comes between the read, the status
  and the clearing of its flag; a character is sent once and in order.
* **ReceptionGoesOn** — an error or overrun stops reception only until the driver
  looks; calls with a time-out, and sending, end.

## Fairness

Every specification assumes that the processor runs (weak fairness of the steps
of the code under study, which polls in a loop and never blocks) and, where a
property needs the other side, that it does what hardware or a peer does on its
own:

* `Entry`: the host lets the handler return.
* `GdbPacket`: gdb reads and times out.
* `NetBoot`: packets that are not lost arrive, and servers answer.
* `Ethernet`: the driver is called again and again, the 8390 finishes a frame it has
  begun, the CS89x0 sends what it was given.  Nothing is assumed of the other two:
  their waits are counted or timed.
* `Storage`: the flash chip finishes what it is at, well or not; nothing of the disk,
  whose calls end because the code counts.
* `Rtc`: the counter counts, and the processor, while it is not held.
* `Sci`: the port sends what it has; nothing of what comes.

No strong fairness is assumed, and none of the environment's faults is fair.
`GdbStub` and `Algorithms` have safety properties only and state no fairness.

CHECK_DEADLOCK FALSE is set where the system really ends: the session is over
(`GdbPacket`), the kernel runs or the loader has halted (`NetBoot`), the one
step, directive or file was worked out (`Algorithms`), the CPU has jumped through a
null pointer (`Ethernet`, `Smc9000`), the flash writer has ended (`Storage`), and,
as a bound only, the last character has come and a call waits for one more (`Sci`).

## Proofs

Eight modules hold theorems.  Each is proved for every value of the constants that the
`ASSUME` of its module allows, and but for four each states a property that a run checks,
so that TLC has looked for a counterexample before there was a proof.  The four are the
type invariants of `Entry` and `GdbPacket` (`Typed`, `TypesHold`) and what is said of a line
without errors (`CommandsRunOnce`, `RepliesAreExact`).  What a proof needs of a step it gets from an inductive invariant, and
the names below are those of the invariants and of their parts.  Where one was not
obvious TLC checked it first.

**GdbStubProofs** — any number of slots, any ROM and unmapped slots, programs, stores,
host accesses and displacement.

* `TypeCorrect`: `Spec => []TypeOK`.  `TypeOK` is inductive, with one lemma per group of
  actions.
* `AddressErrorsArmed`, `StopPcShown` (`FaultsArmed`,
  `StopPcExact`): the first is not inductive, and the second needs to know what the
  frame says of the PC.  `Control` joins them to `UserPc`, that a program that runs has
  a PC in the address space, and `Reported`, that while a stop is reported the saved PC
  is the one of the stop, or for a trap the one after it.  The re-entry of the stub makes
  all of them conditional on `~nested`; the address error that comes with `dofault`
  clear goes to `wild`, from which only a reset leads, so `Control` survives it.
* `TrapOut` (`TrapsTakenOut`): `TrapInv`, that while `stepped` is set the one trap of a step
  that no reset left is where `instrBuffer` says (`Known`), and that what `undoSStep` would
  write back is no such trap (`Undone`).  It does not suppose `~nested`: a re-entry changes
  neither, also between the setting of `stepped` and that of `instrBuffer`.
* `AnswersCorrect` (`AnswersTrue`): `Accessed` says of a command half done what the
  property says of one that is answered: no slot so far was unmapped, and those in RAM
  hold what `M` writes.
* `StepLands` (`StepExact`): `Aim`, that from `s` to the first instruction `instrBuffer` is
  where that instruction leads, and `RomKept`, that a trap which ROM did not take left
  the old instruction there.
* `KeepsPromise` (`ImplementsDebugTarget`): step by step, under `TypeOK`, `Control`
  and `Stepping`.  Every step of the stub shows a step of `DebugTarget` or none
  in `Shown`: planting and removing the trap show none, and what an `M` changes is what
  the host was told it may.

**EntryProofs** — any number of interrupts; on the SH-2 any stack of at least 8 free words.

* `NmiAgain` (`NmiRearmed`): `Rearmed`, that `in_nmi` is clear from the last instruction
  that clears it on.
* `ContextIsKept`, `VectorIsTold`, `Typed`: `Sh3Context` says, place by place, which of
  the program's registers are still in the CPU or there again, which are in
  `registers[]`, and what is on the stack (`OnTheWayIn`, `OnTheWayOut`), and that a second
  NMI is fended off (`Fended`).  `Sh2Context` says the same of the words of the
  program's own stack: where R15 is is known after any interrupt (`Sh2Frame`), what is in
  the registers only while the timer has not spoiled them (`Sh2Kept`).

**EthernetProofs** — rings, packet memories, lists of ports and boards of any size, any
lengths of frames, and any number of them.

* `AdaptersListen` (`Listening`), which says of the SMC91xx that no call but the two of
  `excused` turns its receiver off, not that it is never off: `SmcListens` adds that a poll for the adapter's answer
  is only made on one that was found; `CsReady` says at which places a CS89x0 that was
  found is on.
* `ProbeFinds` (`NoneHidden`): `CsPassed`, that of the candidates the probe has passed
  none is in order.
* `MemoryIsKept` (`MemoryKept`): `SmcPages`, that the free pages, those of the frame that
  comes, those of the frames that wait and those held for sending are together all
  there are, with `SmcPacket`, that driver and chip agree at which place of
  `eth_transmit` a packet is held.
* `RingIsAgreed` (`RingAgrees`): `NsInStep` locates the k-th frame that waits by the lengths
  of those before it: its header is there, and says where it ends (`NsHeaders`);
  all of them and the frame being stored do not reach BOUND (`NsRoom`); and what the
  driver has read of the first is still true (`NsPlace`).
* `RxIsInStep`, `IsSentInOrder` (`RxInStep`, `SentInOrder`): `RxFollows` and `TxFollows`, that
  there is a number of descriptors, from one's own on round the ring, that one side
  has and the other has not.  That number is in no variable.

* `FramesArePassedOn` (`KeepsFrameQueue`): each step of each driver and its adapter is a step
  of `FrameQueue`, or none.  It rests on the invariants above, and what `QueueInv` adds to
  them, driver by driver:

  * 8390: `NsFilled` and `NsFilling`, that the pages behind a header hold the parts of its frame,
    in order and across the end of the ring; `NsBuffer`, that what `eth_receive_1` has
    copied so far is the beginning of the oldest frame (`WholeOfParts` joins its two halves);
    and that no frame that waits, nor the one passed on last, has the number of the one
    that comes.  A frame is dropped without being passed on only while `clearing`.
  * PCNET32: that the frame in the first descriptor the driver has is the oldest that waits,
    if it is good (`PcnetFirst`), from the number of descriptors in `RxFollows`.
  * SMC91xx: `GoodOf`, the good ones of the packets in the FIFO, grows at its end and loses its
    head or nothing, whatever packets with errors are between (`GoodOfMore`, `GoodOfTail`).
  * CS89x0: what the chip at `eth_nic_base` has received, of the chips at any of the `Ports`.

**GdbPacketProofs** — any requests whose addresses and lengths have one digit, any data,
programs, buffers, memories and noise.  The assumptions on the constants are that a
request fits the buffer (`TextsFit`), that it carries the data it says and asks for no more
than an answer has room for (`DataFits`), and that an `int` is wide enough not to take a
length of one digit for a negative one (`WORD > 31`).  The model's recursive functions over characters are shown to
exist and to be what they say (`Recursion`), since the provers do not know that.

* `TypesHold`: `Typed` is inductive only with what `getpacket` knows while it reads: that it has
  less than `BUFMAX` characters, and that the place behind `remcomInBuffer` holds the 0 that
  `strlen` and `hexToInt` stop at.  `buffer` of the model has that place, one more than the
  code's array: line 391 writes a 0 there, which is a finding, and the theorem says that
  nothing else is written there and nothing further on.
* `RepeatsAreErrors` (`RepeatsTakeErrors`): `Room`, that the commands run, what is on its way and what
  the host may still repeat without an error are together no more than `next + errors`.
* `CommandsRunOnce`: `Exchange` says what is on the line when nothing went wrong: the rest
  of one packet, of which what has come is in the buffer with its checksum (`Collected`),
  or one + or one answer, and nothing else.
* `RepliesAreExact` is what `RepliesMatch` says of a line without errors, and the first half of `RepliesHold`.  `UnrleRle`: what `putpacket` encodes gdb
  decodes, for a run of any length.  `Parsed`, `HexData`, `BinaryData`: what the stub finds in the buffer are the address,
  the length and the data the host wrote there, escaped or not.  `CarriedOut`: so memory and signal become `MemoryAfter`
  and `SignalAfter`.  `Right` ties these to what is on the line: the answer the host is going to read, and
  how much of what the program prints it has shown.
* `OnlyWhatWasSent` (`RunsWhatWasSent`) and `RepliesHold` (`RepliesMatch`): one error more, from one invariant,
  `OneError`: up to the error `Exchange` and `Right`, and after it `Steady`, of two cases.
  `Settled`: the command was carried out, and an acknowledgement was heard or is coming; then
  the stub takes nothing on the line for a packet (`Deaf`), so what comes for the host is of
  that answer only (`ThenAnswer`, `Owed`).  `Awaited`: none is coming, whether the command was
  carried out or not; then what the stub gets next is that command in whole and nothing behind
  it (`Coming`), or the host sends it again, and `Doable` says that it does the same a second
  time.  There is no third case, so no answer is left over for the next command.  What is
  being read then is the command (`Collected` and `Begins`); or it has lost or changed a
  character and so has the wrong checksum whatever follows (`Doomed`); or it has lost its #,
  and goes on into the repeated packet once the host has timed out (`Merging`).  That the last
  two are refused is the hypothesis `ErrorsShow`: a checksum of eight bits does not show each
  error.  It is about `Requests`, `Noise` and `BUFMAX` only, and TLC evaluates it for those of
  the run.  So what is run is what the host is at (`SentRuns`), and nothing is once the host
  has its last reply (`Obedient`).

**StorageProofs** — a disk of any size and requests of any number of sectors; a flash ROM
of any size and any images.

* `RegistersFree` (`TaskFileFree`) is inductive as it stands.
* `DataIsExact` (`DataExact`): for the disk and requests that are `Addressed`, `Reading`: the sectors in the buffer are those
  the disk has been taken past, and what it shows (`Shows`) goes with how many are left;
  for the flash `Burning`: the words below `offset` are the image's, what of a command
  is still to be written fits what the chip has seen of it (`Commands`), and what two
  reads of the status can tell is so (`Polls`).

**SciProofs** — `ReadAndSentInOrder` (`InOrder`), for any depth and trigger of the FIFOs:
what waits is newer than what was read, and in order (`Reading`); what came, was kept and
was not read waits (`Kept`); what the driver has
seen of RD_F still holds when it reads (`SeenStillSet`); and what waits to be sent is
what was put and not sent (`Sending`).

**RtcProofs** — any range of counter and ticks, length of a tick, and wait.

* `LongEnough` (`WaitsLongEnough`): `NotLess`, that what was waited is not less than the
  ticks that `tick` shows, and what is on the counter, but for one tick.
* `NotTooLong` (`WaitsNotTooLong`): `NotMore`, that it is not more, with `LAG` for each
  tick, and that a wait that goes on has not passed its end: `start + count`, if that
  wraps, or not.  The attempt to prove it showed two things that TLC's values had hidden:
  the counter must be read within a tick (`LAG` below `CNT_PER_TICK`: it counts once in
  1024 cycles, and the code does little between two reads), and of the waits of no
  ticks only those that start at the last value of `tick` can miss their end (`Misses`).

**NetBootProofs** — any number of servers, of which any speak DHCP, files of any length,
queues, retries and bounds of faults of any size.

* `AddressIsHeld` (`AddressHeld`): `Replies`, that every answer on its way was given by a
  server that holds the address if it says so, and `Forgotten`, that in the loop for
  the confirmation no earlier answer is left in `dhcp_reply`: without it a plain answer
  there would count as the confirmation before it.
* `OneServerAnswers` (`OneServer`), for answers with and without names: `Named`, that the
  file name is of the answer that made `ip` the loader's if that has one, and of
  some answer before if not.
* `ImageIsExact` (`ImageExact`): `Numbers` and `Current`, that the call being made has a
  number that on its way only it or its answers have; `Progress`, that the image is as
  far as `offs`, and the call asks for what follows.
* `MountIsReleased` (`MountReleased`): `Clean`, that without faults exactly one of the call
  and its answer is on its way (`Exchange`), and mountd's list is what it is before
  the call, or after; that no call goes to a port where nobody listens (`Ports`); and
  that the server's hardware address is never asked for in vain (`Arping`).  So no
  time-out occurs, and no call is made twice.

Induction over numbers is done by sets: the library's well-founded induction takes an
operator, which the provers cannot instantiate, but `WFMin`, that a set of numbers which is
not empty has a least one, does not.  In `EthernetProofs` `Induct` follows from it, and
the sums of lengths round a ring (`SumExists`, `SumFrom`) rest on that; in `RtcProofs` it gives
the longest wait there is (`LongIs`).

Model-checked only:

* liveness under fairness (`Resumed`, `SessionCompletes`, `KernelLoads`, `FramesReceived`,
  `SendEnds`, `CallsEnd`, `WaitEnds`, `ReceptionGoesOn`), which the prover does not do;
* `Algorithms` (`TargetExact`, `PrintedExact`, `ScrambleInverts`): bitwise operators, and
  recursive definitions over data.

## Findings

`PROJECT.json` lists what the code does that a comment, or the rest of the code,
says it does not.  Three of them are runs that TLC finds violated
(`ProbeReset`, `StepRte`, `BreakEntry`).  The others were met while modelling,
and a property that would fail on one names the case it leaves out: `clean` in
`ExcEntry` and `ExcEntrySh2`, `Muddled` and `Stuck` in `NetBoot`, `Hidden` in
`Ns8390`, `excused` in `Smc9000`, `InOrder(k)` in `Cs89x0`, which says what kind of
adapter a probe does find, `TooLong` in `Cs89x0`, `Addressed` in `Ide`, `Names` in `NetBoot`,
`nested` in `GdbStub`, and `Overflows`, `ChangesSign` and `Misses` in `Rtc`.

## Not modelled

* `decode_rfc1533`, the path and credential handling of `nfs.c`, `etherboot`'s
  checks for a host name and a root path, the gateway: data, without control that
  the properties tell apart.
* Time in the network, disk and Ethernet modules: a time-out is a choice of the
  environment.  `Rtc` has what 32-bit ticks do.
* The SH-2's counter (CMT): `get_tick` returns it as it is, a finding.
* `eth_transmit` of the 8390 beyond its reset of the ring: it waits for nothing, so
  that what goes out is whatever is in the buffer when the adapter gets there, and
  `eth_node_addr` called later than the loader does.  Both are findings.
* The PHY of the SMC91xx, bus timing of the IDE driver, baud rates.
* The monitor's commands that boot, and the results of BIOS calls; `G`, `g`, `D`
  and `k` as packets (as commands they are in `GdbStub`).
* `%n`, `%%` and `%I` of `vprintf`.
* Boards, PCI set-up, straight-line start-up: register writes without state that
  anything here reads again.
* `string.c`, `ctype.c`, `setjmp.S`: pure; `setjmp` and `longjmp` appear in `GdbStub`
  by what they do.
* Build files, `cqsh3.c`, precompiled images.

## Plan

Done, in this order: `GdbStub` with its abstract specification and first proofs,
`SStep`, `ExcEntry`, `GdbPacket`, `NetBoot`, `Ns8390`, `Pcnet32`, `Ide`, `Smc9000`;
then `Cs89x0` and the four drivers under one abstract queue (`Ethernet`,
`FrameQueue`), `Rtc`, `Sci`, `ExcEntrySh2` and `Entry`, the data and the console
output of `GdbPacket`, `Printf` and `Scramble` (`Algorithms`), `Flash` and `Storage`.

Of the model there remain the monitor's boot commands over `Storage` and `NetBoot`,
and a reliable file transfer as an abstract specification of `NetBoot`.

Proofs: the safety properties of every run but `Algorithms` are proved, and both
refinements.  There remains that `NetBoot` implements the file transfer, once that is
stated.
