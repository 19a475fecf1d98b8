--------------------------- MODULE BackendMemory ---------------------------
(***************************************************************************)
(* The guest memory of the virtual machines of LifeCycle, below the checks *)
(* of the base class (GuestMemory has those and its list of regions): the  *)
(* ...Impl methods of KVM, HAXM and WHPX for mapping, unmapping, flags and *)
(* dirty pages, what each keeps, and what it makes the hypervisor do when  *)
(* one of its calls fails.                                                 *)
(*                                                                         *)
(* Addresses and sizes are counted in blocks of BlockPages pages, here     *)
(* called pages except where bitmaps are measured.                         *)
(***************************************************************************)
EXTENDS LifeCycle, FiniteSets, FiniteSetsExt

CONSTANTS
    MemoryVMs,      \* the machines whose memory is used; they do not share any
    Pages,          \* the pages of a guest, 0 .. n
    Hosts,          \* blocks of host memory
    FlagSets,       \* the MemoryFlags callers pass, sets of "read", "write", "track"
    LargePages,     \* the least size in pages above 0xFFFFFFFF bytes
    BlockPages,     \* how many pages of the guest one of Pages stands for
    BitmapSizes,    \* the sizes in bytes of the bitmaps callers pass
    MaxCalls        \* bound: calls of the memory operations

ASSUME MemoryAssumption ==
    /\ MemoryVMs \subseteq VMs /\ Pages \subseteq Nat
    /\ LargePages \in Nat /\ BlockPages \in Nat \ {0} /\ BitmapSizes \subseteq Nat /\ MaxCalls \in Nat

VARIABLES
    caps,           \* what the hypervisor can do
    gpa,            \* its map of guest pages: host memory, write access, dirty tracking
    ram,            \* host memory known to HAXM
    slots,          \* KVM: m_memoryRegions, in the order of the slots
    memSlot,        \* KVM: m_memSlot
    kernelSlots,    \* KVM: the slots in the kernel
    dirty,          \* the hypervisor's dirty log
    overrun,        \* history: the sizes of the bitmaps that were written beyond their end
    view,           \* history: the map as the statuses tell the base class
    refused,        \* history: pages an unmap was refused for
    reflagged,      \* history: KVM slots whose flags the application changed
    calls           \* calls made so far

memVars == <<caps, gpa, ram, slots, memSlot, kernelSlots, dirty, overrun, view, refused,
             reflagged, calls>>

\* "api4": HAXM's API version is 4 or greater; "setram64", "ramblock64", "protect":
\* HAX_CAP_64BIT_SETRAM, _64BIT_RAMBLOCK, _RAM_PROTECTION; "dirty": WHPX from 10.0.17763.
Capabilities == [kvm |-> {}, haxm |-> {"api4", "setram64", "ramblock64", "protect"},
                 whpx |-> {"dirty"}]

NoHost == <<"none", 0>>
None == [host |-> NoHost, write |-> FALSE, track |-> FALSE]
Extent(base, size) == base .. (base + size - 1)
Ranges == {r \in Pages \X (1 .. Cardinality(Pages)) : Extent(r[1], r[2]) \subseteq Pages}

\* The host memory behind the pages of a range that starts at base.
HostPages(host, base, size) == [p \in Extent(base, size) |-> <<host, p - base>>]
NoPages(base, size) == [p \in Extent(base, size) |-> NoHost]

\* A map of all pages, changed where the other one is defined.
Changed(all, some) == [p \in Pages |-> IF p \in DOMAIN some THEN some[p] ELSE all[p]]

-----------------------------------------------------------------------------
(* What the hypervisors do when they accept a call (external) *)

Mapped(v, base, size, host, flags) ==
    LET behind == HostPages(host, base, size)
    IN gpa' = [gpa EXCEPT ![v] = Changed(@, [p \in Extent(base, size) |->
                  [host |-> behind[p], write |-> "write" \in flags,
                   track |-> "track" \in flags]])]
Unmapped(v, base, size) ==
    gpa' = [gpa EXCEPT ![v] = Changed(@, [p \in Extent(base, size) |-> None])]
Protected(v, base, size, flags) ==
    gpa' = [gpa EXCEPT ![v] = Changed(@, [p \in Extent(base, size) |->
               [gpa[v][p] EXCEPT !.write = "write" \in flags]])]

\* What the base class learns from the status about the memory behind some pages.
Learns(v, ok, behind) == view' = IF ok THEN [view EXCEPT ![v] = Changed(@, behind)] ELSE view

\* The base class refuses ranges above 4 GiB unless the platform allocates those.
Large(size) == size >= LargePages
LargeAllowed(size) == Large(size) /\ backend = "haxm" => "setram64" \in caps

Ready(v) == /\ v \in MemoryVMs /\ fate[v] = "live" /\ at = Idle /\ calls < MaxCalls
            /\ calls' = calls + 1
            /\ UNCHANGED lifeVars

-----------------------------------------------------------------------------
(* KVM *)

KvmFlags(flags) == [readonly |-> "write" \notin flags, log |-> "track" \in flags]
Slot(n, base, size, flags) == [slot |-> n, base |-> base, size |-> size, flags |-> flags]

\* The first region of m_memoryRegions with exactly this range, or 0.
FindRegion(v, base, size) ==
    LET found == {n \in DOMAIN slots[v] : slots[v][n].base = base /\ slots[v][n].size = size}
    IN IF found = {} THEN 0 ELSE Min(found)

\* KVM refuses a slot that overlaps another one, and may refuse any (external).
KvmAccepts(v, base, size) ==
    \A s \in kernelSlots[v] : Extent(s.base, s.size) \cap Extent(base, size) = {}

\* Mutant: the region stays in m_memoryRegions.
KvmSlots_Kept(v, ok, slot) == Append(slots[v], slot)

\* The region is appended before the call and erased again if it fails.
KvmSlots(v, ok, slot) == IF ok THEN Append(slots[v], slot) ELSE slots[v]

KvmMap(v, base, size, host, flags) ==
    /\ backend = "kvm" /\ Ready(v)
    /\ memSlot' = [memSlot EXCEPT ![v] = @ + 1]
    /\ \E ok \in BOOLEAN :
          LET slot == Slot(memSlot[v], base, size, KvmFlags(flags))
          IN /\ ok => KvmAccepts(v, base, size)
             /\ slots' = [slots EXCEPT ![v] = KvmSlots(v, ok, slot)]
             /\ kernelSlots' = IF ok THEN [kernelSlots EXCEPT ![v] = @ \cup {slot}]
                               ELSE kernelSlots
             /\ IF ok THEN Mapped(v, base, size, host, flags) ELSE UNCHANGED gpa
             /\ Learns(v, ok, HostPages(host, base, size))
    /\ UNCHANGED <<caps, ram, dirty, overrun, refused, reflagged>>

\* The flags are recorded, and the kernel is handed the address of the iterator: what
\* it reads there is no region of this machine.  It refuses it, or takes it for a slot
\* beyond the guest's memory.
KvmSetFlags(v, base, size, flags) ==
    /\ backend = "kvm" /\ Ready(v)
    /\ LET n == FindRegion(v, base, size)
       IN /\ n # 0      \* otherwise InvalidRange
          /\ slots' = [slots EXCEPT ![v][n].flags = KvmFlags(flags)]
          /\ reflagged' = [reflagged EXCEPT ![v] = @ \cup {slots[v][n].slot}]
    /\ UNCHANGED <<caps, gpa, ram, memSlot, kernelSlots, dirty, overrun, view, refused>>

\* QueryDirtyPages of the base class: a byte for every eight pages.
RequiredSize(size) == (BlockPages * size + 7) \div 8

\* KVM writes whole 64-bit words (external).
WordsSize(size) == 8 * ((BlockPages * size + 63) \div 64)
Overrun(size, bitmapSize) == IF bitmapSize < WordsSize(size) THEN {bitmapSize} ELSE {}

\* QueryDirtyPages, and ClearDirtyPages with a bitmap of its own, which is larger.
KvmDirtyPages(v, base, size, bitmapSize) ==
    /\ backend = "kvm" /\ Ready(v)
    /\ LET n == FindRegion(v, base, size)
       IN /\ n # 0      \* otherwise InvalidRange
          /\ \E s \in kernelSlots[v] : s.slot = slots[v][n].slot /\ s.flags.log
    /\ dirty' = [dirty EXCEPT ![v] = @ \ Extent(base, size)]
    /\ overrun' = overrun \cup Overrun(size, bitmapSize)
    /\ UNCHANGED <<caps, gpa, ram, slots, memSlot, kernelSlots, view, refused, reflagged>>

-----------------------------------------------------------------------------
(* HAXM *)

\* Mutant: the result of mapping guest memory is not looked at.
HaxmMapOK_Ignored(known, ok) == TRUE

\* HAXM maps only host memory it knows of (external); it may refuse any.
HaxmMapOK(known, ok) == known /\ ok

\* MapHostMemory, whose failure is taken for memory known before, and MapGuestMemory;
\* the Large versions, for which either capability will do, differ in the calls only.
HaxmMap(v, base, size, host, flags) ==
    /\ backend = "haxm" /\ Ready(v) /\ LargeAllowed(size)
    /\ Large(size) => {"setram64", "ramblock64"} \cap caps # {}
    /\ \E alloc, ok \in BOOLEAN :
          LET known == alloc \/ host \in ram[v]
          IN /\ ram' = IF alloc THEN [ram EXCEPT ![v] = @ \cup {host}] ELSE ram
             /\ IF known /\ ok THEN Mapped(v, base, size, host, flags \ {"track"})
                ELSE UNCHANGED gpa
             /\ Learns(v, HaxmMapOK(known, ok), HostPages(host, base, size))
    /\ UNCHANGED <<caps, slots, memSlot, kernelSlots, dirty, overrun, refused, reflagged>>

\* A range up to 4 GiB is unmapped by SET_RAM and then again by SET_RAM2; without
\* HAX_CAP_64BIT_SETRAM, or if SET_RAM2 fails, the status is an error by then.
HaxmUnmap(v, base, size) ==
    /\ backend = "haxm" /\ Ready(v) /\ LargeAllowed(size) /\ "api4" \in caps
    /\ \E first, second \in BOOLEAN :
          /\ IF Large(size) THEN ~first ELSE first \/ ~second
          /\ second => "setram64" \in caps
          /\ IF first \/ second THEN Unmapped(v, base, size) ELSE UNCHANGED gpa
          /\ Learns(v, second, NoPages(base, size))
          /\ refused' = IF second THEN refused
                        ELSE [refused EXCEPT ![v] = @ \cup Extent(base, size)]
    /\ UNCHANGED <<caps, ram, slots, memSlot, kernelSlots, dirty, overrun, reflagged>>

HaxmSetFlags(v, base, size, flags) ==
    /\ backend = "haxm" /\ Ready(v) /\ LargeAllowed(size) /\ "protect" \in caps
    /\ \A p \in Extent(base, size) : gpa[v][p] # None
    /\ Protected(v, base, size, flags)
    /\ UNCHANGED <<caps, ram, slots, memSlot, kernelSlots, dirty, overrun, view, refused,
                   reflagged>>

-----------------------------------------------------------------------------
(* WHPX *)

\* ToWHVFlags
ToWHVFlags(flags) == IF "dirty" \in caps THEN flags ELSE flags \ {"track"}

WhpxMap(v, base, size, host, flags) ==
    /\ backend = "whpx" /\ Ready(v)
    /\ ToWHVFlags(flags) # {}       \* otherwise InvalidFlags
    /\ \E ok \in BOOLEAN :
          /\ IF ok THEN Mapped(v, base, size, host, ToWHVFlags(flags)) ELSE UNCHANGED gpa
          /\ Learns(v, ok, HostPages(host, base, size))
    /\ UNCHANGED <<caps, ram, slots, memSlot, kernelSlots, dirty, overrun, refused, reflagged>>

WhpxUnmap(v, base, size) ==
    /\ backend = "whpx" /\ Ready(v)
    /\ \E ok \in BOOLEAN :
          /\ IF ok THEN Unmapped(v, base, size) ELSE UNCHANGED gpa
          /\ Learns(v, ok, NoPages(base, size))
          /\ refused' = IF ok THEN refused
                        ELSE [refused EXCEPT ![v] = @ \cup Extent(base, size)]
    /\ UNCHANGED <<caps, ram, slots, memSlot, kernelSlots, dirty, overrun, reflagged>>

\* Mutant: the size of the bitmap is not looked at.
WholeWords_Any(bitmapSize) == TRUE

\* WHPX writes 64-bit words.
WholeWords(bitmapSize) == bitmapSize % 8 = 0

\* QueryDirtyPages takes whole words only.  ClearDirtyPages passes no bitmap; it does not
\* test for the function, so that a WHPX without it must not come here.
WhpxDirtyPages(v, base, size, bitmapSize) ==
    /\ backend = "whpx" /\ Ready(v) /\ "dirty" \in caps
    /\ WholeWords(bitmapSize)       \* otherwise MisalignedBitmap
    /\ \A p \in Extent(base, size) : gpa[v][p].track     \* otherwise NotEnabled
    /\ dirty' = [dirty EXCEPT ![v] = @ \ Extent(base, size)]
    /\ overrun' = overrun \cup (Overrun(size, bitmapSize) \ {0})
    /\ UNCHANGED <<caps, gpa, ram, slots, memSlot, kernelSlots, view, refused, reflagged>>

-----------------------------------------------------------------------------

\* The guest writes to a page (external).
GuestWrite(v, p) ==
    /\ fate[v] = "live" /\ at = Idle /\ gpa[v][p].write /\ gpa[v][p].track
    /\ dirty' = [dirty EXCEPT ![v] = @ \cup {p}]
    /\ UNCHANGED <<lifeVars, caps, gpa, ram, slots, memSlot, kernelSlots, overrun, view,
                   refused, reflagged, calls>>

Empty(x) == [v \in VMs |-> x]

Init ==
    /\ LifeInit
    /\ caps \in SUBSET Capabilities[backend]
    /\ gpa = Empty([p \in Pages |-> None]) /\ view = Empty([p \in Pages |-> NoHost])
    /\ ram = Empty({}) /\ slots = Empty(<< >>) /\ memSlot = Empty(0)
    /\ kernelSlots = Empty({}) /\ dirty = Empty({}) /\ refused = Empty({})
    /\ reflagged = Empty({})
    /\ overrun = {} /\ calls = 0

\* QueryDirtyPages checks the size of the bitmap; ClearDirtyPages has its own on KVM and
\* none on WHPX.
DirtyBitmaps(size) ==
    {n \in BitmapSizes : n >= RequiredSize(size)}
        \cup {IF backend = "kvm" THEN 8 * RequiredSize(size) ELSE 0}

MemoryNext ==
    \E v \in VMs, r \in Ranges :
        \/ \E host \in Hosts, flags \in FlagSets :
              \/ KvmMap(v, r[1], r[2], host, flags)
              \/ HaxmMap(v, r[1], r[2], host, flags)
              \/ WhpxMap(v, r[1], r[2], host, flags)
        \/ HaxmUnmap(v, r[1], r[2]) \/ WhpxUnmap(v, r[1], r[2])
        \/ \E flags \in FlagSets :
              \/ KvmSetFlags(v, r[1], r[2], flags)
              \/ HaxmSetFlags(v, r[1], r[2], flags)
        \/ \E n \in DirtyBitmaps(r[2]) :
              \/ KvmDirtyPages(v, r[1], r[2], n)
              \/ WhpxDirtyPages(v, r[1], r[2], n)

\* A machine that is freed takes its memory with it.
Forgotten(f, x) == [v \in VMs |-> IF fate'[v] = "freed" THEN x ELSE f[v]]

LifeStep ==
    /\ \/ ConstructPlatform \/ DestroyPlatform
       \/ CallSucceeds \/ CallFails \/ MmapFails
       \/ \E v \in VMs : CreateVM(v) \/ FreeVM(v)
    /\ gpa' = Forgotten(gpa, [p \in Pages |-> None])
    /\ view' = Forgotten(view, [p \in Pages |-> NoHost])
    /\ ram' = Forgotten(ram, {}) /\ slots' = Forgotten(slots, << >>)
    /\ memSlot' = Forgotten(memSlot, 0) /\ kernelSlots' = Forgotten(kernelSlots, {})
    /\ dirty' = Forgotten(dirty, {}) /\ refused' = Forgotten(refused, {})
    /\ reflagged' = Forgotten(reflagged, {})
    /\ UNCHANGED <<caps, overrun, calls>>

Next ==
    \/ LifeStep
    \/ MemoryNext
    \/ \E v \in VMs, p \in Pages : GuestWrite(v, p)

Spec == Init /\ [][Next]_<<lifeVars, memVars>>

-----------------------------------------------------------------------------
(* Properties *)

\* The guest has the memory that the statuses of the calls tell the base class it has,
\* page by page, through any sequence of maps, unmaps and failures; on HAXM a range whose
\* unmapping was refused may be unmapped all the same (haxm_vm.cpp:108-117).
MemoryIsAsReported ==
    \A v \in VMs, p \in Pages :
        \/ gpa[v][p].host = view[v][p]
        \/ backend = "haxm" /\ p \in refused[v] /\ gpa[v][p] = None

\* KVM's record of the slots is the kernel's, number, range and flags, after failed maps
\* too, and no number is given twice; only flags that the application changed may differ
\* (kvm_vm.cpp:126 passes the kernel something else).
SlotsAreTheKernels ==
    \A v \in VMs :
        /\ \A n \in DOMAIN slots[v] : \E s \in kernelSlots[v] :
              /\ s = [slots[v][n] EXCEPT !.flags = s.flags]
              /\ s.flags = slots[v][n].flags \/ s.slot \in reflagged[v]
        /\ Cardinality(kernelSlots[v]) = Len(slots[v])
        /\ \A s, t \in kernelSlots[v] : s.slot = t.slot => s = t

\* A bitmap that holds whole 64-bit words is never written beyond its end, however many
\* words its range takes, and on WHPX none is; KVM does it to the others, which the base
\* class accepts (vm.cpp:176 counts bytes, kvm_vm.cpp:144 lets the kernel write words).
BitmapsHold == \A n \in overrun : backend = "kvm" /\ n % 8 # 0

=============================================================================
