# virt86: TLA+ models, checks and proofs

virt86 is a C++ library that gives one interface to several hypervisors (KVM,
Intel HAXM, Windows Hypervisor Platform, Hypervisor.Framework). An application
creates a `VirtualMachine`, maps host memory into it, creates
`VirtualProcessor`s and calls `Run` or `Step` in a loop; between two calls it
reads and writes registers and memory, enqueues interrupts and sets
breakpoints. This directory models the logic virt86 itself adds on top of the
hypervisors: the bookkeeping that must stay in agreement with state which
lives in the hypervisor or in the guest.

Modules are `*.tla`, TLC models `*.cfg`; `PROJECT.json` lists components, runs,
mutants, the source lines of every definition, findings, hazards and theorems.

    tlc -workers 2 -config MemoryUnmap.cfg MCGuestMemory
    tlapm GuestMemoryProofs.tla

## 1. Inventory

| Component | State | Operations | Interacts with |
|---|---|---|---|
| Guest memory (`core/src/vm/vm.cpp`) | `m_memoryRegions`, an ordered list of regions | `MapGuestMemory`, `UnmapGuestMemory`, `SubtractMemoryRange`, `MemRead`, `MemWrite`, `GetMemoryRegion` | the hypervisor's own map, through `...Impl` of the backend |
| Interrupt queue (`core/src/vp/vp.cpp` 43-61, 805-835) | `m_pendingInterrupts`, `m_interruptMutex` | `EnqueueInterrupt`, `HandleInterruptQueue`, `InjectPendingInterrupt` | any thread; backends' `PrepareInterrupt`, `CanInjectInterrupt`, `RequestInterruptWindow`, `InjectInterrupt` |
| Paging (`vp.cpp` 89-398) | none; reads control registers and page tables | `LinearToPhysical`, `GetPagingMode` | guest memory; page tables other processors write |
| Linear memory (`vp.cpp` 400-488) | locals of the loop | `LMemRead`, `LMemWrite` | paging, guest memory |
| Descriptor tables (`vp.cpp` 490-801) | none; reads and writes guest memory | `GetGDTEntry`, `SetGDTEntry`, `ReadSegment`, ... | registers, guest memory |
| KVM processor (`kvm/src/kvm_vp.cpp`) | copies of four register banks with dirty and changed flags; `m_debug`; the `kvm_run` page | `RunImpl`, `StepImpl`, registers, FPU, MSRs, breakpoints | the kernel, by ioctls that may each fail |
| KVM machine (`kvm/src/kvm_vm.cpp`) | the list of memory slots, the next slot number | map, flags, dirty pages | guest memory |
| HAXM processor (`haxm_vp.cpp`, `linux`, `darwin`, `windows`) | copies of registers and FPU state with flags, tunnel, debug state | as KVM | the HAXM driver |
| HAXM machine (`haxm_vm.cpp`) | the VM's handle; RAM blocks are in the driver | map, unmap, flags | guest memory |
| WHPX processor (`whpx_vp.cpp`, `whpx_regs.cpp`) | exit context, instruction emulator; no copies of registers | `RunImpl`, registers, emulator callbacks | the WHPX partition |
| WHPX machine, dispatch | partition, function table | set-up, map, unmap, dirty pages | guest memory |
| Platforms, life cycle (`platform.cpp`, `*_platform.cpp`) | the device or function table, the machines and their processors | construct, `CreateVM`, `FreeVM`, destroy | all |
| HvF backend, host information, platform-check | - | stubs; CPUID queries; printing | - |

What is hard here, and what makes each part correct:

- **Two records of one thing.** The region list and the hypervisor's map must
  agree after every sequence of maps and unmaps, although unmapping edits the
  list while it walks it, and although a call may fail after its checks passed.
  The host must read the byte the guest reads.
- **Copies with flags.** A register has a value in the copy, one in the kernel
  and one the guest produced. The last write must win, whatever fails in between.
- **Threads.** Interrupts are enqueued by other threads while the processor runs;
  the size of the queue is read without the mutex. No vector may be lost,
  duplicated or reordered, and one must not wait for ever.
- **Flags the kernel writes.** What the last exit left in a shared page is used
  at the next call.
- **A guest that runs meanwhile.** Other processors change page tables while
  `LinearToPhysical` walks them and `LMemRead` copies.
- **Many names for one register.** A batch names parts of registers, some of them
  overlapping; the backends translate names, values and MSRs in different ways.
- **Set-up that fails part of the way.** A machine takes up to a dozen calls; at
  each of them something must be taken back, no more and no less.
- **Address arithmetic** that wraps, masks and shifts, and descriptors whose fields
  are in pieces.

`PROJECT.json` lists these as hazards at the line where they bite.

## 2. Modules

| Module | Models | Proofs |
|---|---|---|
| `GuestMemory` | `VirtualMachine`'s memory map and the hypervisor's map | `GuestMemoryProofs` |
| `InterruptQueue` | the interrupt queue with its three backends | `InterruptQueueProofs` |
| `InterruptChannel` | abstract: what `EnqueueInterrupt` promises | - |
| `KvmRegisters` | register copies and flags of the KVM processor | `KvmAndTableProofs` |
| `SubRegisters` | the parts of registers, their names, and what a write or read under a name moves, on HAXM, on WHPX and in the architecture | `AccessProofs` |
| `RegisterAccess` | registers, control registers and MSRs of the HAXM and WHPX processors | `AccessProofs` |
| `Execution` | running, stepping, breakpoints and exits of the three processors | `ExecutionProofs` |
| `Paging` | `LinearToPhysical` in all modes | `PagingProofs` |
| `LinearMemory` | `LMemRead`, `LMemWrite` | `AccessProofs` |
| `Descriptors` | GDT and IDT entries, `ReadSegment`, `GetSegmentSize` | `KvmAndTableProofs` |
| `LifeCycle` | platforms, machines and processors, from construction to destruction | `BackendMemoryProofs` |
| `BackendMemory` | guest memory of the three backends, on top of `LifeCycle` | `BackendMemoryProofs` |
| `NumberFacts` | lemmas on `\div` and `%`, and the least and the greatest number of a set | itself |
| `MC...` | the small instances | |

Names follow the code. A definition whose name ends in `_Something` after the
name of another one is a mutant: that definition with a plausible mistake. Each
property of a passing run has one that violates it.

### GuestMemory

State: `regions` is `m_memoryRegions`, `hv` the hypervisor's map from guest to
host addresses (external, as the code uses it), `status` what the last call
returned, and `pc`, `it`, `unmapped` where `SubtractMemoryRange` is. One action
per outcome of a call: `RejectMap` (any of the early returns, by `MapStatus` in
the order of the checks), `MapGuestMemory`, `FailMap` (the hypervisor refuses),
and the same for unmapping. The loop of `SubtractMemoryRange` is four actions,
one per branch, on the vector and the iterator; no other call runs meanwhile
(the list has no lock, and the API asks for no concurrent use). Sums and
differences wrap as `uint64_t` does. `MemAccess` is the search of `MemRead` and
`MemWrite`, newest region first; `GetMemoryRegion` searches oldest first.

`StrictUnmapping` and `Remapping` choose between hypervisors: whether a range
may be unmapped only when it is wholly mapped, and whether a mapped page may be
mapped again.

### InterruptQueue

State: the queue, the mutex, where each enqueueing thread and the running
thread are, the vector in `InjectPendingInterrupt`'s hands, and the
hypervisor's side: the interrupt it holds, the `ready_for_interrupt_injection`
and `request_interrupt_window` flags, WHPX's cancellation. Runs and injections may fail,
and the application may write RFLAGS between two runs (`WriteFlags`). A vector is
represented by its number of arrival, so that loss, duplication and reordering
are visible. A read of the queue's size while another thread pushes is a data
race and returns either answer. KVM and HAXM share a protocol (`"tunnel"`): the
flags in the `kvm_run` page and in the HAXM tunnel have the same meaning. The
map points to HAXM's lines where both are alike.

`InterruptChannel` is the promise of `vp.hpp:21-23` without threads, mutex, flags or
exits: a sequence of accepted requests that the guest receives in order, each once. When
it receives them is `QueueDrains`. `ImplementsChannel` is the channel with `pending`
mapped to what the hypervisor holds, followed by the vector in hand and the queue, and
`received` to what the guest got. A push is the step that accepts, a delivery the one
that receives, and every other step a stutter. On KVM and HAXM this and `NothingLost` hold
until `failed` is set: by an injection that fails, whose result nobody looks at, or by a run
that fails although it left a vector with the kernel and the ready flag set.

### KvmRegisters

State: `cache` (the four banks `m_regs`, `m_sregs`, `m_debugRegs`, `m_fpuRegs`),
`hw` (the kernel's), `dirty` (`m_regsDirty`), `changed` (the four changed
flags), and the history variable `truth`, the last value written by anyone.
`RefreshRegisters` and `UpdateRegisters` go bank by bank and may fail at each.
Registers are abstract; a bank is a set of them; sub-registers and widths are
left out.

### SubRegisters and RegisterAccess

A register is cut into the chunks that some name tells apart (for RAX: AL, AH, the rest
of AX, of EAX, of RAX); a name is a register and a view of it; a write is a function from
the chunks it changes to the chunks of the value, or to zero. The module has it three
times: as `HaxmRegWrite` and `HaxmRegRead` do it, as `TranslateRegisterValue` of WHPX does
it, and as the architecture has it. `FPUControl` is cut where the backends store less of it
than they are given: the upper byte of the tag word, the upper halves of the two pointers
and their segments.

`RegisterAccess` has HAXM's two copies with `m_regsDirty` and the two changed flags, the
VCPU's registers, and the batches of `RegRead`, `RegWrite`, `RegCopy`, `GetMSRs` and
`SetMSRs` entry by entry: HAXM stops at the first name it does not know, WHPX translates
all of them first, reads the old values, merges and writes. `After` is such a loop: each
place has what the last assignment that moves something to it left. HAXM's blocks of MSRs are as
long as the code makes them, overrun included: an entry beyond the array is `Garbage`. The
history variable `file` is what the registers should be; where the code returns OK and does
something else, the place becomes `Unsaid`, by name (`Departures` for writes, `Amiss` for
reads, and the MSR operations). `Answers` lets HAXM's `GetMSR` fail under a read of EFER. What those say is listed under "Other disagreements".

### Execution

State: `debug` is `m_debug`, `kernel` the last one the hypervisor accepted, `tunnel` the
`kvm_run` page, the `hax_tunnel` or `m_exitContext` with its union, `exitInfo` the reported
exit; `cause` and `asked` are history. `Run` and `Step` enter the guest; `GuestExit` is
everything from the hypervisor's return to `RunImpl`'s, with `HandleExecResult`; `EndStep` is
the rest of `StepImpl`, with its second `HandleExecResult`. `Tunnels` is what each exit leaves
in the union where `GetBreakpointAddress` and `HandleExecResult` read DR6 and an address: a
hit its slots, a completed step none, port and MMIO exits whatever of their data lies there,
and an INT3 on KVM what was there before, because KVM writes DR6 for a #DB only. On WHPX the
emulator may fail, and stepping and breakpoints are the base class's: `Unsupported`. The
application's I/O handlers are left out.

### Paging

One call of `LinearToPhysical`: `regs` holds the control registers, `level` and
`table` where the walk is, `reads` the entries read so far. `GetEntry` reads one
entry and does what the code does next: fail, end in a large or small page, or go
down. An entry is any entry, because another processor may write the tables at
any time; so the results hold for every page table and for tables that change
during the walk. Masks and shifts are `%`, `\div` and `*` by powers of two whose
exponents are constants. The second half of the module states the architecture's
walk independently, from the amount of memory an entry of each level maps.

### LinearMemory

A turn of the loop is two steps, `Translate` and `CopyPage`, each with its failure
(`FailTranslate`, `FailCopy`); between any two steps `Remap` changes the guest's page tables,
so also between the translation of a page and the copy. `LMemWrite` is the same code with the
direction reversed. `copied` records where each byte went. `EachByteTranslated` says that the
bytes of a turn go through the translation that turn made of their own page; that it is still
the page's translation when they are copied is not so, and is not said.

### Descriptors

A table is a row of 8-byte words; a descriptor of 16 bytes takes two. Its fields are scaled
to one bit each, so that putting bases, limits and offsets together from pieces of
different widths, with C's promotion to a signed int, is still what the code does.
`GetGDTEntry` is two steps where it reads twice (`ReadFirst`, `ReadSecond`), and another
processor may store a descriptor in between (`GuestStore`). `ReadSegment` and
`GetSegmentSize` are computed from what it returned (`Return`).

### LifeCycle and BackendMemory

An `Initialize` method is a sequence of records: the call, what it creates, what it gives a
handle to, and what the method closes or forgets if it fails. `CallSucceeds` and `CallFails`
go through them for the machine and then for each processor; a failure runs the clean-up
of both methods and the destructors (`Unwound`). `sys` holds the hypervisor's objects, the
handles, and a record of calls made with an invalid one. Destructors take the set of machines
and of processors they are called for: these share nothing, so that the order among them does
not matter, only that of the kinds of objects within one. The last calls of HAXM on Windows
and macOS are the same as on Linux with other functions.

`BackendMemory` extends it with the memory of live machines: `gpa` is the hypervisor's map,
`ram` HAXM's host blocks, `slots`, `memSlot` and `kernelSlots` KVM's list and the kernel's,
`view` the map as the statuses tell the base class. Capabilities of the hypervisor
(HAXM's API version and its 64-bit calls, WHPX's version) are chosen at the start. Bitmaps of
dirty pages are measured in bytes: one of the model's pages stands for `BlockPages` of the
guest's, so that a range takes one word or two, and `overrun` collects the sizes of bitmaps
that were written beyond their end.

How the modules fit together: `LinearMemory` takes from `Paging` that a
translation keeps the offset in the page (`PageOffsetKept`, proved there) and
from `GuestMemory` that an access succeeds for a whole range or not at all.
`BackendMemory` is
composed with `LifeCycle`: its actions need a live machine, and freeing one takes its memory.
`Execution` leaves registers to `KvmRegisters` and `RegisterAccess`. `GuestMemory` takes an
unmapping to happen or not as its status says; `BackendMemory` shows that this is so on
WHPX, and on HAXM but for the case in `MemoryIsAsReported`.

## 3. Runs

Passing runs:

| Run | Shows | Bounds |
|---|---|---|
| `memory_map` | The byte the host reads is the one the guest has, also where a page was mapped twice; longer accesses and `GetMemoryRegion` agree where no page was. | 4 pages of 2 bytes, sizes of 1 to 4 pages and ones that are empty, misaligned or wrap; 2 host blocks, 3 regions: enough for a region to be covered in part by a newer one, which a third covers; large allocations allowed, as on KVM and WHPX; 67,368 states |
| `memory_unmap` | `SubtractMemoryRange` ends; afterwards no region meets the unmapped range; all memory the guest still has is recorded at its host address. | as above, at most 2 regions before a call; unmapping splits to more; 291,907 states |
| `interrupt` | No pop of an empty queue; delivery in order, none twice; the queue is emptied again and again if runs return; on KVM and HAXM nothing is lost until an injection fails, or a run fails after one, and until then the queue refines `InterruptChannel`. | 2 threads, 3 requests: one with the hypervisor, one in hand, one queued; KVM and HAXM, and WHPX with cancellations; failing runs and injections, writes of RFLAGS; 11,822 states |
| `kvm_registers` | The guest and the application see the last write, whatever fails. | a register in three of the banks, an FPU control word and an MSR outside the banks; 2 values; 46,266 states |
| `register_access` | HAXM and WHPX: reads and the guest see the last write to each part of a register under any of its names, but for the parts that `Departures` and `Amiss` name; a refused call changes nothing but what came before the refused name. | registers of one family at a time (RAX, RSP, R8 with CR8, RIP, RFLAGS, EFER with a control register or an MSR, XMM, ST, YMM, the control words, MSRs that one platform or none supports); batches of 2 names, 3 MSRs in blocks of 2, so that a block is full and the next is not; 97,793 states |
| `execution` | `Run` is not single stepped; breakpoints set with OK are armed; exits are told apart although they share a union; the address of a hit is the one last requested for a slot that was hit. | three backends, two breakpoints, so that the slot hit may be the wrong one and bits of an earlier request stay in DR7; two addresses; 3,469,764 states |
| `paging` | Every entry read, except PAE's page directory entry, is the architecture's; the physical address is the one the last entry maps for 4 KiB, 2 MiB, 4 MiB and 1 GiB pages. | pages of 8 bytes, tables of 4 and 8 entries; addresses whose indexes differ at each level, the ends of the space and one beyond; frame numbers with unlike bits; 129,056 states |
| `linear_memory` | Every byte goes once through the translation its turn made of its own page; no access leaves its page; true means all bytes; the loop ends. | 4 pages of 3 bytes, start addresses on and next to page boundaries, sizes from 0 to almost all of the space, wrapping included; remaps between any two steps; 360,192 states |
| `descriptors` | What is read of a descriptor is what was stored, where the layout can hold it; no access goes beyond the limit. | 3 selectors; limits that end with a descriptor, one byte after and in the middle; 2 stores, so that one comes between two reads; 752,511 states |
| `virtual_machines` | A live machine is complete; a gone one is released but for the named leaks; handles are valid when used; memory and slots are what the statuses say; bitmaps of whole words are not overrun. | 2 machines of 2 processors, so that a failure meets finished ones; memory of one machine, two pages, together a "large" range, 3 memory calls; a page stands for 48, so that two take two words of a bitmap, and bitmaps are too small, exact, larger and of whole words; 441,901 states |

The runs that show a disagreement between the code and what the repository says:

| Run | Shows |
|---|---|
| `memory_unmap_shadow` | `SubtractMemoryRange` does not test whether a region meets the range (`vm.cpp:298`): others are resized and moved, and `MemRead` then finds memory where the guest has none. |
| `execution_int3` | `HandleExecResult` looks at DR6 whatever exception the exit is for (`kvm_vp.cpp:285`): an INT 3h after a hardware breakpoint, or after an MMIO exit whose length lies there, is reported as a hardware breakpoint, where `vp.hpp:357-358` promises `SoftwareBreakpoint`. |

That `memory_unmap` passes although `memory_unmap_shadow` does not is no
contradiction: the list never forgets memory the guest has, but it may claim
memory the guest does not have.

Other disagreements met while modelling, outside the conditions of the passing
runs and not kept as runs:

- `vm.cpp:205-206`: a newer region that covers a range in part loses against an
  older one that contains it all (hence `CoveredOnce` in `AccessMatchesGuest`).
- `kvm_vp.cpp:52`: `m_regsDirty` starts as false, so a register written before the first
  run takes a bank of zeros with it.
- `kvm_vp.cpp:200`, `haxm_vp.cpp:106`: `StepImpl` calls `HandleExecResult` again after
  `RunImpl` did, and handlers run twice for one instruction.
- `vp.cpp:297`: the PAE page directory is indexed by bits 11:3 of the address (hence
  `WalkIsArchitecturalButPAE`).
- `vm.cpp:88`: `baseAddress + size - 1` wraps for a range that ends beyond 64 bits, and the
  hypervisor is asked to map it, where `vm.hpp:115-116` promises `OutOfBounds`. The runs make
  these calls; the model's hypervisor refuses them, and the list stays right.
- `vp.cpp:831`: the result of `InjectInterrupt` is ignored, and after a run that fails before
  the guest is entered the ready flag is stale: a vector is lost where `vp.hpp:21-22` says
  that it will be injected (hence `failed`).
- `kvm_vp.cpp:351`, `haxm_vp.cpp:244`: nothing interrupts a running guest when a vector is
  enqueued, although `vp.hpp:22-23` says that the implementation will "cancel VCPU execution
  as needed" (hence "if runs return" in `QueueDrains`).
- `whpx_vp.cpp:198`: after a cancelled run the next injection overwrites a vector
  that was not delivered; two cancellations before one run are one (hence
  `DeliveredInOrder`, which allows gaps, and no `NothingLost` for WHPX).
- `kvm_vp.cpp:690`: `SetFPUControl` does not mark the bank as changed;
  `kvm_vp.cpp:741`: `SetMSR` leaves a stale copy of EFER, FS and GS base in `m_sregs`
  (hence `Plain`, the registers with one way in).
- `kvm_vp.cpp:176`: after EINTR the copies are not marked stale (hence `Signals = FALSE`).
- `kvm_vp.cpp:185`: a failing `SetDebug` leaves the single step flag on (hence
  `stepOK`); `kvm_vp.cpp:201`: an INT 3h during `Step` is reported as `Step`;
  `kvm_vp.cpp:827`: DR7 bits of an earlier request stay (hence `\subseteq` in
  `RequestedAreArmed`); `kvm_vp.cpp:854`: the breakpoint address is read from the
  union whatever the exit was.
- Registers of HAXM: a write of SPL, BPL, SIL or DIL clears bits 15:8; `UpdateRegisters`
  (`haxm_vp.cpp:125`) ignores refusals; EFER is in the bank and an MSR, with a stale copy; a
  block of MSRs is as long as the whole request (`haxm_vp.cpp:691`) and overruns the arrays;
  `SetFPUControl` cuts the tag word to 8 bits and the pointers to 32 (`haxm_vp.cpp:616-621`);
  a read of EFER returns OK when `GetMSR` failed (`haxm_vp.cpp:424-427`).
- Registers of WHPX: two names of one register in a batch undo each other
  (`whpx_vp.cpp:306`); a control register's setter clears the others, and `SetFPUControl`
  cuts the tag word and overwrites the segments with the upper halves of the pointers
  (`whpx_vp.cpp:351-356`); AH, CH, DH and BH are read as AL, CL, DL and BL; `SetMSRs` returns OK
  when it was refused (`whpx_vp.cpp:499`).
- Descriptors: `gdt.cpp:81` and `:106` extend bit 31 of the lower half over the upper one;
  `ReadSegment` of an LDT or TSS outside IA-32e mode takes the base's upper half from
  uninitialised memory; `vp.cpp:610` refuses the last descriptor of a table; `SetGDTEntry`
  writes the first half before it checks the second; the IDT check accepts an entry that
  the limit cuts off and takes entries to have 8 bytes in IA-32e mode too; the RPL and TI
  bits of a selector are not masked.
- Machines: KVM never unmaps the `kvm_run` page and does not notice that mapping it failed
  (`kvm_vp.cpp:90`); HAXM leaves a machine it cannot open (`linux/haxm_sys_vm.cpp:58`) and
  closes a machine before its processors (`haxm_vm.cpp:62`); WHPX gives partitions to
  `CloseHandle` (`whpx_vm.cpp:60`), deletes processors of a partition it has forgotten, and
  deletes its function table before the machines when `m_initStatus` is not OK
  (`whpx_platform.cpp:131`). `GoneIsReleased` and `CallsAreValid` name each.
- Memory: `haxm_vm.cpp:108-117` unmaps a small range and goes on to the large call, or
  returns `Unsupported`; `kvm_vm.cpp:126` passes the address of an iterator;
  `kvm_vm.cpp:144` lets the kernel write words into a bitmap counted in bytes, which
  `vm.hpp:264-265` takes to be large enough (hence "of whole words" in `BitmapsHold`).

### Fairness

- `SubtractMemoryRange` and the loop of `LMemRead` run in the caller's thread and
  wait for nobody: weak fairness of their steps.
- `InterruptQueue`: a thread that is not blocked goes on; the hypervisor delivers what it
  holds, reports the window it was asked for when the guest can take an interrupt (strong
  fairness, because the guest masks and unmasks) and returns from a cancelled run; a guest
  that keeps running keeps unmasking interrupts. Nothing makes the guest exit, and nothing
  makes the application call `Run` or enqueue: `QueueDrains` is stated for behaviours in which
  the guest is entered and `Run` returns again and again. `ImplementsChannel` needs no
  fairness. The other modules assume none.

Deadlock is checked except in `virtual_machines` and `descriptors`: a destroyed platform
has nothing left to do, and neither has a table once `MaxStores` is reached and no call
changes anything.

## 4. Proofs

All theorems are checked by TLAPS for every value of the constants that satisfies
the named assumptions.

**GuestMemoryProofs**: `TypeCorrect`, `BackedMemoryStaysRecorded`,
`UnmapAlwaysForgets`. The invariant is
`TypeOK /\ SubtractInv /\ BackedMemoryIsRecorded`. `SubtractInv` is what a turn of the
loop needs: the range is not empty and below the limit, the hypervisor has already
forgotten it, and the regions before the iterator do not meet it. The cases of the
induction step are the branches of the loop; each shows that the regions that
replace the current one keep every address outside the range at its host address.
Assumption: guest addresses are below 2^64.

`BytesMatchGuest`, `RangesMatchGuest` and `RegionsMatchGuest` are about what the searches
find, under the hypothesis that the hypervisor cannot unmap (`~MemoryUnmapping`, as on
KVM): `memory_unmap_shadow` shows that they are false without it. The invariant `NewestInv` says that
the hypervisor has at every address what the newest region that covers it records, and
nothing where none does. The searches are recursive functions over the list; that they
return the newest, or oldest, region that matches is shown from a least counterexample
(`NumberFacts`) in place of an induction.

**InterruptQueueProofs**, for any number of threads: `TypeCorrect`, `PopsOnlyWhatIsThere` and
`DeliversInOrder` on every backend; `TunnelLosesNothing` and `TunnelIsChannel` on KVM and HAXM
until the failures named in `failed`. `NeverPopsEmpty` is not inductive: `SeenInv` adds
that a runner that saw a request has one in the queue or being pushed, and
`MutexInv` that the push is over when the runner has the mutex. `NothingLost` needs
`ReadyInv`: from an exit with the ready flag set to the injection, failed runs and writes of
RFLAGS included, the hypervisor holds nothing. `OrderInv` puts what the guest received, what the hypervisor
holds, the vector in hand and the queue in one increasing row, also where vectors were lost.
`TunnelIsChannel` is all of `ImplementsChannel`: the initial states are the channel's, and
each step is `Accept` (a push), `Receive` (a delivery) or a stutter.

**KvmAndTableProofs**, of KVM's registers: `GuestSeesEveryWrite`, `ReadsEveryWrite`, for any registers,
banks and failures, if no signal interrupts `KVM_RUN`. The invariant `Coherent` says
for each register which of the two copies holds its last value, by the flags;
`NothingWaits` that no bank is both stale and changed.

Of the descriptor tables: `DescriptorsReadBack` and `TablesNotLeft`, for any tables,
selectors, vectors, modes and stores. The invariant `TableInv` adds to the two properties
`TableHolds`: a descriptor that was stored whole and not overwritten since is in the table
with every word it has, so that what `GetGDTEntry` reads in two steps belongs together even
if another processor replaced the descriptor in between; and that a reader between its two
reads has checked the end of the longer descriptor. `WrittenKeepsTable` is the hard step: a
store gives up the descriptors it overlaps, also a 16-byte one that begins a word earlier.
`BaseReadBack` and `LimitReadBack` put the pieces of a word together again. Assumptions:
selectors are multiples of 8, and bases and limits fit their fields
(`DescriptorAssumption`).

**ExecutionProofs**: `BreakpointsArmed`, `RunNotStepped`, `ReportedBreakpoints` and the action
property `HitAddress`, on the three backends and for any slots and addresses. `ArmedInv` says
how `m_debug` and what the hypervisor accepted may differ after a refused call, in every state
and not only when the guest is entered; `StepInv` that the single step flag is off on both
sides outside a `Step`; `ExitInv` what the tunnel holds between the guest's exit and the second
`HandleExecResult` of `StepImpl`. `HitAddress` is a step property and follows from `ArmedInv` in
the state before: that the addresses in `m_debug`, which `GetBreakpointAddress` reads, are the
requested ones is true only until a request is refused.

**PagingProofs**: `OffsetAlwaysKept`, for any widths; `WalksLikeTheArchitecture` and
`ReturnsMappedAddress`, for every page table and every change to it during the walk. The
code puts addresses together from masks and shifts, the reference from the amount of
memory an entry maps; the lemmas show level by level that the index, the address of the
entry and the page, small or large, are the same number. The invariant `WalkInv` adds
`Progress`: the walk is at the level that follows the entries it has read, and `table` is
where the last of them points. `WidthAssumption` is what this needs of the widths, and
true of the code's: a table fills a page in both formats (4 * 1024 = 8 * 512 = 4096), the
four top tables of PAE reach the 4 GiB of a linear address, 512 is a multiple of 4, and the
frames (2^40) a multiple of those of a 1 GiB page (2^18).

**AccessProofs**, of linear memory: `AccessStaysInPage`, `LoopStaysAt`, `ReportsAllOrFalse`,
`BytesAreTranslated`, for any page size that divides a larger address space, any
range and any change of the page tables between two steps. The invariant says where the loop is: `srcAddrStart` is `laddr + pos` modulo the
address space, `srcAddrEnd` the end of that page, `copySize` the lesser of what the
page and the range have left. Two lemmas do the work: `PageEndIs` (the end of a page,
also of the last, where the sum wraps) and `NextPage`. That the address space is larger
than a page is needed: in one of a single page `copySize` would be 0.

Of the registers on HAXM and WHPX: `ReadsFollowWrites` and the action properties
`GuestHasWrites` and `RefusalChangesNothing`, for any families of registers, MSRs, values
and lengths of batches, whichever calls fail. None of the three is inductive. `AccessInv`
says where the last write to each part of a register is: in the VCPU, unless it waits for
`UpdateRegisters` (`VcpuHolds`); in HAXM's copies as well, unless they are stale
(`CopyHolds`); and that only parts of a marked bank wait, never an MSR, and only while the
copies are not stale and the guest does not run (`Waiting`). The lemmas `HaxmMovesFiled` and `WhpxMovesFiled`
compare what the code moves for a name with what the architecture does, kind of name by
kind; `AfterAgrees` carries that through a batch in which names occur twice and overlap;
`ReadMoves` does the same for reads. `RegCopy` is the case that needs them together: what it
writes is what was read, parts that nothing is said of included. Assumption: an MSR of the
application is not one of the registers that have names (`RegisterAssumption`; an MSR is a
number in the code).

**BackendMemoryProofs**, of the life of the machines: `GoneStaysReleased`, `CallsStayValid`
and `LiveStaysComplete`, on every backend and for any number of machines and processors,
wherever calls fail. None of them is inductive: `LifeInv` adds what exists at each call of
`Initialize`. `Reached` is the call a machine or a processor has come to, `HandlesInv` and
`KernelInv` say that the handles and objects of a machine that is not gone are those of
the calls before it (but for the kvm_run page, whose failure is not noticed), and
`DeviceInv` that the device stays open as long as a machine was made with it. A failed call is the
hard case: the lemmas `UnwoundVM` and `UnwoundVP` follow the clean-up of both methods and the
destructors with two relations, `Released` (a step of a clean-up takes objects of the given
machines only, and of the closed kinds leaves only what a mapped page pins) and `Orphaned`
(with a machine its unopened processors are gone), which are transitive. The only
assumptions are that the backends are the three and that 0, the mark of no machine, is not
one (`LifeAssumption`).

Of their memory: `MemoryReported`, `SlotsOfTheKernel` and `BitmapsAlwaysHold`, for any
number of machines, pages and calls. `MemoryIsAsReported` is inductive with the types of
the maps (`MapInv`). `SlotsAreTheKernels` needs `Numbered`: every number in the kernel is
below `m_memSlot`, so that the next one is new, also after a call that was refused and
used one up. `BitmapsHold` rests on `WordsFit`: a bitmap of whole words that has a byte for
every eight pages has room for the words of 64, however many.

Only model-checked: liveness (`QueueDrains`, `SubtractTerminates`, `CallReturns`), which is out
of the prover's reach, and the runs that show a violation. Every invariant and every action property of a passing
run is also stated by a theorem, some under the hypotheses named above.

## 5. What is not modelled

Not modelled by choice: Hypervisor.Framework (a stub whose operations fail or do nothing),
host information (CPUID queries stored once; constants here), platform-check (prints), the
tables of features that the platforms' constructors fill in (read-only afterwards), the loop
that asks KVM for its CPUIDs until the array is large enough (`kvm_platform.cpp:129`; whether
it ends is up to the kernel), the list of CPUID functions that `whpx_vm.cpp:94` copies with
two increments per turn (a local array, without state), `SetGlobalMemoryLimit`,
`GetExecutionMode` and `GetPagingMode` (they read registers), widths of registers beyond their
named parts, formatting and logging. Which MSRs a kernel knows (`kvm_vp.cpp:735`) is not in
the code.
