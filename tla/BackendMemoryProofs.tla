------------------------ MODULE BackendMemoryProofs ------------------------
(* The life of the machines and their guest memory: for any number of        *)
(* machines, processors and pages and any sequence of calls and failures,    *)
(* what is gone is released, what is live is complete, the guest has the     *)
(* memory that the statuses report, KVM's slots are the kernel's, and WHPX   *)
(* keeps to the bitmaps it is given.                                         *)
EXTENDS BackendMemory, NumberFacts, FiniteSetTheorems, TLAPS

-----------------------------------------------------------------------------
(* What a step does to the life of the machines *)

\* A call for guest memory is one of these, for some machine and range.
LEMMA MemoryCalls ==
    ASSUME MemoryNext
    PROVE  \E v \in VMs, r \in Ranges :
              \/ \E host \in Hosts, flags \in FlagSets : KvmMap(v, r[1], r[2], host, flags)
              \/ \E host \in Hosts, flags \in FlagSets : HaxmMap(v, r[1], r[2], host, flags)
              \/ \E host \in Hosts, flags \in FlagSets : WhpxMap(v, r[1], r[2], host, flags)
              \/ HaxmUnmap(v, r[1], r[2])
              \/ WhpxUnmap(v, r[1], r[2])
              \/ \E flags \in FlagSets : KvmSetFlags(v, r[1], r[2], flags)
              \/ \E flags \in FlagSets : HaxmSetFlags(v, r[1], r[2], flags)
              \/ \E n \in DirtyBitmaps(r[2]) : KvmDirtyPages(v, r[1], r[2], n)
              \/ \E n \in DirtyBitmaps(r[2]) : WhpxDirtyPages(v, r[1], r[2], n)
PROOF
  <1>1. PICK v \in VMs, r \in Ranges :
           \/ \E host \in Hosts, flags \in FlagSets :
                 \/ KvmMap(v, r[1], r[2], host, flags)
                 \/ HaxmMap(v, r[1], r[2], host, flags)
                 \/ WhpxMap(v, r[1], r[2], host, flags)
           \/ HaxmUnmap(v, r[1], r[2]) \/ WhpxUnmap(v, r[1], r[2])
           \/ \E flags \in FlagSets :
                 \/ KvmSetFlags(v, r[1], r[2], flags)
                 \/ HaxmSetFlags(v, r[1], r[2], flags)
           \/ \E n \in DirtyBitmaps(r[2]) :
                 \/ KvmDirtyPages(v, r[1], r[2], n)
                 \/ WhpxDirtyPages(v, r[1], r[2], n)
    BY Zenon DEF MemoryNext
  <1>2. QED
    <2> WITNESS v \in VMs, r \in Ranges
    <2>1. QED
      BY <1>1, Zenon

\* Calls for guest memory and writes of the guest leave it alone.
LEMMA LifeGoesOn ==
    ASSUME [Next]_<<lifeVars, memVars>>
    PROVE  LifeStep \/ UNCHANGED lifeVars
PROOF
  <1>1. CASE MemoryNext
    <2>1. ASSUME NEW v \in VMs, Ready(v) PROVE UNCHANGED lifeVars
      BY <2>1 DEF Ready
    <2>2. \A v, base, size, host, flags :
             /\ KvmMap(v, base, size, host, flags) => Ready(v)
             /\ HaxmMap(v, base, size, host, flags) => Ready(v)
             /\ WhpxMap(v, base, size, host, flags) => Ready(v)
      <3> TAKE v, base, size, host, flags
      <3>1. KvmMap(v, base, size, host, flags) => Ready(v)
        BY DEF KvmMap
      <3>2. HaxmMap(v, base, size, host, flags) => Ready(v)
        BY DEF HaxmMap
      <3>3. WhpxMap(v, base, size, host, flags) => Ready(v)
        BY DEF WhpxMap
      <3>4. QED
        BY <3>1, <3>2, <3>3
    <2>3. \A v, base, size : HaxmUnmap(v, base, size) \/ WhpxUnmap(v, base, size) => Ready(v)
      BY Zenon DEF HaxmUnmap, WhpxUnmap
    <2>4. \A v, base, size, x :
             /\ KvmSetFlags(v, base, size, x) => Ready(v)
             /\ HaxmSetFlags(v, base, size, x) => Ready(v)
             /\ KvmDirtyPages(v, base, size, x) => Ready(v)
             /\ WhpxDirtyPages(v, base, size, x) => Ready(v)
      <3> TAKE v, base, size, x
      <3>1. KvmSetFlags(v, base, size, x) => Ready(v)
        BY DEF KvmSetFlags
      <3>2. HaxmSetFlags(v, base, size, x) => Ready(v)
        BY DEF HaxmSetFlags
      <3>3. KvmDirtyPages(v, base, size, x) => Ready(v)
        BY DEF KvmDirtyPages
      <3>4. WhpxDirtyPages(v, base, size, x) => Ready(v)
        BY DEF WhpxDirtyPages
      <3>5. QED
        BY <3>1, <3>2, <3>3, <3>4
    <2>5. \E v \in VMs : Ready(v)
      BY <1>1, <2>2, <2>3, <2>4, MemoryCalls, Zenon
    <2>6. QED
      BY <2>1, <2>5
  <1>2. CASE \E v \in VMs, p \in Pages : GuestWrite(v, p)
    BY <1>2 DEF GuestWrite
  <1>3. QED
    BY <1>1, <1>2 DEF Next

\* No step changes the backend.
LEMMA BackendStays ==
    ASSUME [Next]_<<lifeVars, memVars>>
    PROVE  backend' = backend
PROOF
  <1>1. CASE LifeStep
    BY <1>1 DEF LifeStep, ConstructPlatform, DestroyPlatform, CallSucceeds, CallFails,
                MmapFails, CreateVM, FreeVM
  <1>2. CASE UNCHANGED lifeVars
    BY <1>2 DEF lifeVars
  <1>3. QED
    BY <1>1, <1>2, LifeGoesOn

-----------------------------------------------------------------------------
(* The life of the machines: what there is at each call of Initialize *)

\* The kinds of objects a machine (i = 0) or a processor is made of, and those the program
\* has handles to.
VPKinds == IF backend = "whpx" THEN {"vcpu", "emulator"} ELSE {"vcpu"}
Kinds(i) == IF i = 0 THEN {"vm"} ELSE VPKinds
AllKinds(i) == Kinds(i) \cup (IF backend = "kvm" /\ i # 0 THEN {"page"} ELSE {})

\* The calls that make them and give handles to them.
MadeBy(kind) == CASE kind = "page" -> 3 [] kind = "emulator" -> 2 [] OTHER -> 1
OpenedBy(kind) == IF backend = "haxm" \/ kind = "emulator" THEN 2 ELSE 1

\* The call that Initialize of processor i, or of the machine, is at: 0 if it was not
\* begun or was taken back, 8, which is beyond the last, once it is over.
Reached(v, i) ==
    IF fate[v] = "live" THEN 8
    ELSE IF fate[v] # "creating" \/ at.vp < i THEN 0
    ELSE IF i = at.vp THEN at.call ELSE 8

LifeTypes ==
    /\ backend \in Backends
    /\ sys = [kernel |-> sys.kernel, handles |-> sys.handles, misuse |-> sys.misuse]
    /\ fate = [v \in VMs |-> fate[v]]
    /\ at # Idle =>
          /\ at = [vm |-> at.vm, vp |-> at.vp, call |-> at.call]
          /\ at.vm \in VMs /\ at.vp \in 0 .. NumProcessors /\ at.call \in 1 .. Len(Calls)
    /\ \A v \in VMs : fate[v] = "creating" <=> at # Idle /\ at.vm = v

\* The handles are those of the calls that were made.
HandlesInv ==
    /\ \A o \in sys.handles : o = Device \/ \E v \in VMs, i \in 0 .. NumProcessors :
          \E kind \in Kinds(i) : o = Object(kind, v, i) /\ Reached(v, i) > OpenedBy(kind)
    /\ \A v \in VMs, i \in 0 .. NumProcessors : \A kind \in Kinds(i) :
          Reached(v, i) > OpenedBy(kind) => Object(kind, v, i) \in sys.handles

\* So are the objects, but those of machines that are gone and kvm_run pages.
KernelInv ==
    /\ \A o \in sys.kernel : o = Device \/ \E v \in VMs, i \in 0 .. NumProcessors :
          \E kind \in AllKinds(i) :
             o = Object(kind, v, i) /\ (v \in Gone \/ Reached(v, i) > MadeBy(kind))
    /\ \A v \in VMs, i \in 0 .. NumProcessors : \A kind \in Kinds(i) :
          Reached(v, i) > MadeBy(kind) => Object(kind, v, i) \in sys.kernel

\* The device is open as long as a machine was made with it.
DeviceInv ==
    /\ Device \in sys.handles <=> Device \in sys.kernel
    /\ \A v \in VMs : Reached(v, 0) > 1 => Device \in sys.handles

LifeInv == LifeTypes /\ HandlesInv /\ KernelInv /\ DeviceInv /\ GoneIsReleased /\ CallsAreValid

-----------------------------------------------------------------------------
(* The calls *)

\* The calls by their number.
LEMMA CallNumbers ==
    ASSUME backend \in Backends, NEW c \in 1 .. Len(Calls)
    PROVE  /\ backend = "kvm" /\ at.vp = 0 => Calls = KvmVMCalls /\ c \in 1 .. 2
           /\ backend = "kvm" /\ at.vp # 0 => Calls = KvmVPCalls /\ c \in 1 .. 4
           /\ backend = "haxm" /\ at.vp = 0 => Calls = HaxmVMCalls /\ c \in 1 .. 2
           /\ backend = "haxm" /\ at.vp # 0 => Calls = HaxmVPCalls /\ c \in 1 .. 3
           /\ backend = "whpx" /\ at.vp = 0 => Calls = WhpxVMCalls /\ c \in 1 .. 7
           /\ backend = "whpx" /\ at.vp # 0 => Calls = WhpxVPCalls /\ c \in 1 .. 3
           /\ backend \in {"kvm", "haxm", "whpx"}
PROOF
  <1>1. Len(KvmVMCalls) = 2 /\ Len(KvmVPCalls) = 4
    BY DEF KvmVMCalls, KvmVPCalls
  <1>2. Len(HaxmVMCalls) = 2 /\ Len(HaxmVPCalls) = 3
    BY DEF HaxmVMCalls, HaxmVPCalls
  <1>3. Len(WhpxVMCalls) = 7 /\ Len(WhpxVPCalls) = 3
    BY DEF WhpxVMCalls, WhpxVPCalls
  <1>4. backend \in {"kvm", "haxm", "whpx"}
    BY LifeAssumption
  <1>5. QED
    BY <1>1, <1>2, <1>3, <1>4 DEF Calls, VMCalls, VPCalls

\* What each call makes and opens.
LEMMA CallMakes ==
    ASSUME backend \in Backends, at.call \in 1 .. Len(Calls)
    PROVE  /\ \A kind : kind \in ThisCall.creates
                           <=> kind \in AllKinds(at.vp) /\ MadeBy(kind) = at.call
           /\ \A kind : kind \in ThisCall.opens
                           <=> kind \in Kinds(at.vp) /\ OpenedBy(kind) = at.call
           /\ ThisCall.name = "mmap" => at.vp # 0 /\ at.call = 3
           /\ \A kind \in AllKinds(at.vp) : MadeBy(kind) <= Len(Calls) /\ OpenedBy(kind) <= Len(Calls)
PROOF
  <1>1. CASE backend = "kvm" /\ at.vp = 0
    <2>1. /\ at.call \in 1 .. 2 /\ ThisCall = KvmVMCalls[at.call]
          /\ Len(Calls) = 2
      BY <1>1, CallNumbers DEF ThisCall, KvmVMCalls
    <2>2. Kinds(at.vp) = {"vm"} /\ AllKinds(at.vp) = {"vm"}
      BY <1>1 DEF Kinds, VPKinds, AllKinds
    <2>3. QED
      BY <1>1, <2>1, <2>2 DEF KvmVMCalls, Call, MadeBy, OpenedBy
  <1>2. CASE backend = "kvm" /\ at.vp # 0
    <2>1. /\ at.call \in 1 .. 4 /\ ThisCall = KvmVPCalls[at.call]
          /\ Len(Calls) = 4
      BY <1>2, CallNumbers DEF ThisCall, KvmVPCalls
    <2>2. Kinds(at.vp) = {"vcpu"} /\ AllKinds(at.vp) = {"vcpu", "page"}
      BY <1>2 DEF Kinds, VPKinds, AllKinds
    <2>3. QED
      BY <1>2, <2>1, <2>2 DEF KvmVPCalls, Call, MadeBy, OpenedBy
  <1>3. CASE backend = "haxm" /\ at.vp = 0
    <2>1. /\ at.call \in 1 .. 2 /\ ThisCall = HaxmVMCalls[at.call]
          /\ Len(Calls) = 2
      BY <1>3, CallNumbers DEF ThisCall, HaxmVMCalls
    <2>2. Kinds(at.vp) = {"vm"} /\ AllKinds(at.vp) = {"vm"}
      BY <1>3 DEF Kinds, VPKinds, AllKinds
    <2>3. QED
      BY <1>3, <2>1, <2>2 DEF HaxmVMCalls, Call, MadeBy, OpenedBy
  <1>4. CASE backend = "haxm" /\ at.vp # 0
    <2>1. /\ at.call \in 1 .. 3 /\ ThisCall = HaxmVPCalls[at.call]
          /\ Len(Calls) = 3
      BY <1>4, CallNumbers DEF ThisCall, HaxmVPCalls
    <2>2. Kinds(at.vp) = {"vcpu"} /\ AllKinds(at.vp) = {"vcpu"}
      BY <1>4 DEF Kinds, VPKinds, AllKinds
    <2>3. QED
      BY <1>4, <2>1, <2>2 DEF HaxmVPCalls, Call, MadeBy, OpenedBy
  <1>5. CASE backend = "whpx" /\ at.vp = 0
    <2>1. /\ at.call \in 1 .. 7 /\ ThisCall = WhpxVMCalls[at.call]
          /\ Len(Calls) = 7
      BY <1>5, CallNumbers DEF ThisCall, WhpxVMCalls
    <2>2. Kinds(at.vp) = {"vm"} /\ AllKinds(at.vp) = {"vm"}
      BY <1>5 DEF Kinds, VPKinds, AllKinds
    <2>3. QED
      BY <1>5, <2>1, <2>2 DEF WhpxVMCalls, Call, MadeBy, OpenedBy
  <1>6. CASE backend = "whpx" /\ at.vp # 0
    <2>1. /\ at.call \in 1 .. 3 /\ ThisCall = WhpxVPCalls[at.call]
          /\ Len(Calls) = 3
      BY <1>6, CallNumbers DEF ThisCall, WhpxVPCalls
    <2>2. Kinds(at.vp) = {"vcpu", "emulator"} /\ AllKinds(at.vp) = {"vcpu", "emulator"}
      BY <1>6 DEF Kinds, VPKinds, AllKinds
    <2>3. QED
      BY <1>6, <2>1, <2>2 DEF WhpxVPCalls, Call, MadeBy, OpenedBy
  <1>7. QED
    BY <1>1, <1>2, <1>3, <1>4, <1>5, <1>6, CallNumbers

\* What the method takes back if the call fails.
LEMMA CallTakesBack ==
    ASSUME backend \in Backends, at.call \in 1 .. Len(Calls)
    PROVE  /\ ThisCall.closes \subseteq Kinds(at.vp) /\ ThisCall.forgets \subseteq {"vm"}
           /\ ThisCall.name \notin {"unused", "creating", "live", "freed"}
           /\ backend # "whpx" => ThisCall.forgets = {}
           /\ backend = "whpx" /\ at.vp = 0 => ThisCall.closes = {}
           /\ backend = "whpx" /\ (at.vp # 0 \/ ThisCall.forgets # {}) => ThisCall.name \in Forgetting
           /\ backend = "whpx" /\ at.vp # 0 => ThisCall.name \in Names(WhpxVPCalls)
           /\ backend = "haxm" /\ at.vp # 0 => ThisCall.name \in Names(HaxmVPCalls)
           /\ backend = "haxm" /\ at.vp = 0 /\ at.call = 2 => ThisCall.name = "open_vm"
PROOF
  <1>1. CASE backend = "kvm" /\ at.vp = 0
    <2>1. at.call \in 1 .. 2 /\ ThisCall = KvmVMCalls[at.call] /\ Kinds(at.vp) = {"vm"}
      BY <1>1, CallNumbers DEF ThisCall, Kinds, VPKinds
    <2>2. QED
      BY <1>1, <2>1 DEF KvmVMCalls, Call
  <1>2. CASE backend = "kvm" /\ at.vp # 0
    <2>1. at.call \in 1 .. 4 /\ ThisCall = KvmVPCalls[at.call] /\ Kinds(at.vp) = {"vcpu"}
      BY <1>2, CallNumbers DEF ThisCall, Kinds, VPKinds
    <2>2. QED
      BY <1>2, <2>1 DEF KvmVPCalls, Call
  <1>3. CASE backend = "haxm" /\ at.vp = 0
    <2>1. at.call \in 1 .. 2 /\ ThisCall = HaxmVMCalls[at.call] /\ Kinds(at.vp) = {"vm"}
      BY <1>3, CallNumbers DEF ThisCall, Kinds, VPKinds
    <2>2. QED
      BY <1>3, <2>1 DEF HaxmVMCalls, Call
  <1>4. CASE backend = "haxm" /\ at.vp # 0
    <2>1. at.call \in 1 .. 3 /\ ThisCall = HaxmVPCalls[at.call] /\ Kinds(at.vp) = {"vcpu"}
      BY <1>4, CallNumbers DEF ThisCall, Kinds, VPKinds
    <2>2. DOMAIN HaxmVPCalls = 1 .. 3
      BY DEF HaxmVPCalls
    <2>3. ThisCall.name \in Names(HaxmVPCalls)
      BY <2>1, <2>2 DEF Names
    <2>4. QED
      BY <1>4, <2>1, <2>3 DEF HaxmVPCalls, Call
  <1>5. CASE backend = "whpx" /\ at.vp = 0
    <2>1. at.call \in 1 .. 7 /\ ThisCall = WhpxVMCalls[at.call] /\ Kinds(at.vp) = {"vm"}
      BY <1>5, CallNumbers DEF ThisCall, Kinds, VPKinds
    <2>2. QED
      BY <1>5, <2>1 DEF WhpxVMCalls, Call, Forgetting
  <1>6. CASE backend = "whpx" /\ at.vp # 0
    <2>1. at.call \in 1 .. 3 /\ ThisCall = WhpxVPCalls[at.call] /\ Kinds(at.vp) = {"vcpu", "emulator"}
      BY <1>6, CallNumbers DEF ThisCall, Kinds, VPKinds
    <2>2. DOMAIN WhpxVPCalls = 1 .. 3
      BY DEF WhpxVPCalls
    <2>3. ThisCall.name \in Names(WhpxVPCalls)
      BY <2>1, <2>2 DEF Names
    <2>4. QED
      BY <1>6, <2>1, <2>3 DEF WhpxVPCalls, Call, Forgetting
  <1>7. QED
    BY <1>1, <1>2, <1>3, <1>4, <1>5, <1>6, CallNumbers

-----------------------------------------------------------------------------
(* Releasing *)

AnyKind == {"vm", "vcpu", "emulator"}

\* t is s after some objects of the machines vs were released: a page is never unmapped,
\* and of the kinds whose handles were closed only pinned objects are left.
Released(s, t, vs, kinds) ==
    /\ t.kernel \subseteq s.kernel /\ t.handles \subseteq s.handles
    /\ \A o \in s.kernel : o.vm \notin vs \/ o.kind = "page" => o \in t.kernel
    /\ \A o \in s.handles : o.vm \notin vs => o \in t.handles
    /\ \A o \in t.kernel : o \in s.handles /\ o \notin t.handles /\ o.kind \in kinds => Pinned(t, o)

\* With a machine its processors without handles are gone.
Orphaned(s, t) ==
    \A o \in t.kernel, m \in s.handles :
        o.kind = "vcpu" /\ o \notin s.handles /\ m.kind = "vm" /\ m.vm = o.vm /\ m \notin t.handles
            => Pinned(t, m)

\* Releasing some after others.
LEMMA ReleasedTrans ==
    ASSUME NEW s, NEW t, NEW u, NEW vs, NEW kinds, Released(s, t, vs, kinds), Released(t, u, vs, kinds)
    PROVE  /\ Released(s, u, vs, kinds)
           /\ Orphaned(s, t) /\ Orphaned(t, u) => Orphaned(s, u)
PROOF
  <1>1. \A o : Pinned(t, o) => Pinned(u, o)
    BY DEF Released, Pinned
  <1>2. Released(s, u, vs, kinds)
    <2>1. ASSUME NEW o \in u.kernel, o \in s.handles, o \notin u.handles, o.kind \in kinds
          PROVE  Pinned(u, o)
      BY <1>1, <2>1 DEF Released
    <2>2. QED
      BY <2>1 DEF Released
  <1>3. ASSUME Orphaned(s, t), Orphaned(t, u) PROVE Orphaned(s, u)
    <2>1. SUFFICES ASSUME NEW o \in u.kernel, NEW m \in s.handles, o.kind = "vcpu",
                          o \notin s.handles, m.kind = "vm", m.vm = o.vm, m \notin u.handles
                   PROVE  Pinned(u, m)
      BY DEF Orphaned
    <2>2. o \in t.kernel /\ o \notin t.handles
      BY <2>1 DEF Released
    <2>3. QED
      BY <1>1, <1>3, <2>1, <2>2 DEF Orphaned
  <1>4. QED
    BY <1>2, <1>3

\* The objects are of the given machines, kinds and processors.
LEMMA ObjectsAre ==
    ASSUME NEW kinds, NEW vs, NEW is
    PROVE  \A o : o \in Objects(kinds, vs, is)
                     <=> /\ o = Object(o.kind, o.vm, o.vp)
                         /\ o.kind \in kinds /\ o.vm \in vs /\ o.vp \in is
PROOF BY DEF Objects, Object

\* Closing handles, pages excepted.
LEMMA CloseReleases ==
    ASSUME NEW s, NEW closed, NEW vs, \A o \in closed : o.vm \in vs /\ o.kind # "page",
           NEW t, t = Close(s, closed)
    PROVE  /\ Released(s, t, vs, AnyKind) /\ Orphaned(s, t)
           /\ t.handles = s.handles \ closed
           /\ \A o \in closed : o \in t.kernel => Pinned(t, o)
           /\ (\A o \in closed : o.kind # "vm") =>
                 t.misuse = s.misuse /\ \A o \in s.kernel : o \in closed \/ o \in t.kernel
           /\ (\A o \in closed : VCPUsOf(s, o) \cap s.handles = {}) => t.misuse = s.misuse
PROOF
  <1> DEFINE gone == {o \in closed : ~Pinned(s, o)}
             orphans == {p \in s.kernel \ s.handles : \E o \in gone : p \in VCPUsOf(s, o)}
  <1>0. \A o : o \in orphans <=> o \in s.kernel \ s.handles /\ \E m \in gone : o \in VCPUsOf(s, m)
    OBVIOUS
  <1>1. /\ t.kernel = s.kernel \ (gone \cup orphans)
        /\ t.handles = s.handles \ closed
    BY DEF Close
  <1>2. (\A o \in closed : VCPUsOf(s, o) \cap s.handles = {}) => t.misuse = s.misuse
    BY DEF Close
  <1>3. \A o \in orphans : o \in s.kernel /\ o.kind = "vcpu" /\ o.vm \in vs /\ o \notin s.handles
    <2> HIDE DEF orphans
    <2>1. QED
      BY <1>0 DEF VCPUsOf
  <1>4. \A o \in gone : o \in closed /\ ~Pinned(s, o)
    OBVIOUS
  <1>5. \A o, m : m \in gone /\ m.kind = "vm" /\ o \in s.kernel /\ o.kind = "vcpu" /\ o.vm = m.vm
                     /\ o \notin s.handles => o \in orphans
    <2> HIDE DEF orphans
    <2>1. QED
      BY <1>0 DEF VCPUsOf
  <1>6. \A o \in closed : o \in gone \/ Pinned(s, o)
    OBVIOUS
  <1>7. (\A o \in closed : o.kind # "vm") => orphans = {} /\ t.misuse = s.misuse
    BY <1>2 DEF VCPUsOf
  <1> HIDE DEF gone, orphans
  <1>8. \A o \in s.kernel : o.vm \notin vs \/ o.kind = "page" => o \in t.kernel
    BY <1>1, <1>3, <1>4
  <1>9. \A o : Pinned(s, o) => Pinned(t, o)
    BY <1>8 DEF Pinned
  <1>10. \A o \in closed : o \in t.kernel => Pinned(t, o)
    BY <1>1, <1>6, <1>9
  <1>11. Released(s, t, vs, AnyKind)
    BY <1>1, <1>8, <1>10 DEF Released
  <1>12. Orphaned(s, t)
    <2>1. SUFFICES ASSUME NEW o \in t.kernel, NEW m \in s.handles, o.kind = "vcpu",
                          o \notin s.handles, m.kind = "vm", m.vm = o.vm, m \notin t.handles
                   PROVE  Pinned(t, m)
      BY DEF Orphaned
    <2>2. m \in closed /\ o \in s.kernel /\ o \notin orphans
      BY <1>1, <2>1
    <2>3. QED
      BY <1>5, <1>6, <1>9, <2>1, <2>2
  <1>13. QED
    BY <1>1, <1>2, <1>4, <1>7, <1>10, <1>11, <1>12

\* Closing the handles there are to objects of some machines.
LEMMA CloseAllReleases ==
    ASSUME NEW s, NEW kinds \in SUBSET AnyKind, NEW vs, NEW is, NEW t, t = CloseAll(s, kinds, vs, is)
    PROVE  /\ Released(s, t, vs, AnyKind) /\ Orphaned(s, t)
           /\ t.handles = s.handles \ Objects(kinds, vs, is)
           /\ "vm" \notin kinds => /\ t.misuse = s.misuse
                                   /\ \A o \in s.kernel : o.kind \notin kinds => o \in t.kernel
           /\ (\A p \in s.handles : p.kind = "vcpu" => p.vm \notin vs) => t.misuse = s.misuse
PROOF
  <1> DEFINE closed == Objects(kinds, vs, is) \cap s.handles
  <1>1. t = Close(s, closed)
    BY DEF CloseAll
  <1>2. \A o \in closed : o.vm \in vs /\ o.kind \in kinds /\ o.kind # "page"
    BY ObjectsAre DEF AnyKind
  <1>3. s.handles \ closed = s.handles \ Objects(kinds, vs, is)
    OBVIOUS
  <1> HIDE DEF closed
  <1>4. (\A p \in s.handles : p.kind = "vcpu" => p.vm \notin vs)
            => \A o \in closed : VCPUsOf(s, o) \cap s.handles = {}
    BY <1>2 DEF VCPUsOf
  <1>5. \A o \in closed : o.vm \in vs /\ o.kind # "page"
    BY <1>2
  <1>6. /\ Released(s, t, vs, AnyKind) /\ Orphaned(s, t)
        /\ t.handles = s.handles \ closed
        /\ (\A o \in closed : o.kind # "vm") =>
              t.misuse = s.misuse /\ \A o \in s.kernel : o \in closed \/ o \in t.kernel
        /\ (\A o \in closed : VCPUsOf(s, o) \cap s.handles = {}) => t.misuse = s.misuse
    BY <1>1, <1>5, CloseReleases, SMT
  <1>7. QED
    BY <1>2, <1>3, <1>4, <1>6

\* Closing the handles of machines whose processors are closed already.
LEMMA CloseAllIsValid ==
    ASSUME NEW s, NEW kinds \in SUBSET AnyKind, NEW vs, NEW is,
           \A p \in s.handles : p.kind = "vcpu" => p.vm \notin vs
    PROVE  CloseAll(s, kinds, vs, is).misuse = s.misuse
PROOF
  <1> DEFINE closed == Objects(kinds, vs, is) \cap s.handles
  <1>1. \A o \in closed : o.vm \in vs
    BY ObjectsAre
  <1>2. CloseAll(s, kinds, vs, is) = Close(s, closed)
    BY DEF CloseAll
  <1> HIDE DEF closed
  <1>3. ~\E o \in closed : VCPUsOf(s, o) \cap s.handles # {}
    BY <1>1 DEF VCPUsOf
  <1>4. Close(s, closed).misuse = s.misuse
    BY <1>3 DEF Close
  <1>5. QED
    BY <1>2, <1>4

\* Forgetting the handle of a machine.
LEMMA ForgetAllReleases ==
    ASSUME NEW s, NEW kinds \in SUBSET {"vm"}, NEW v, NEW t, t = ForgetAll(s, kinds, v)
    PROVE  /\ t.kernel = s.kernel /\ t.misuse = s.misuse
           /\ t.handles = s.handles \ Objects(kinds, {v}, {0})
           /\ Released(s, t, {v}, {"vcpu", "emulator"})
           /\ kinds = {} => Released(s, t, {v}, AnyKind) /\ Orphaned(s, t)
PROOF
  <1>1. /\ t.kernel = s.kernel /\ t.misuse = s.misuse
        /\ t.handles = s.handles \ Objects(kinds, {v}, {0})
    BY DEF ForgetAll, Forget
  <1>2. \A o \in Objects(kinds, {v}, {0}) : o.vm = v /\ o.kind = "vm" /\ o.kind \in kinds
    <2>1. \A o \in Objects(kinds, {v}, {0}) : o.kind \in kinds /\ o.vm \in {v}
      BY ObjectsAre, Zenon
    <2>2. QED
      BY <2>1
  <1>3. Released(s, t, {v}, {"vcpu", "emulator"})
    BY <1>1, <1>2 DEF Released
  <1>4. ASSUME kinds = {} PROVE Released(s, t, {v}, AnyKind) /\ Orphaned(s, t)
    <2>1. t.handles = s.handles
      BY <1>1, <1>2, <1>4
    <2>2. QED
      BY <1>1, <2>1 DEF Released, Orphaned
  <1>5. QED
    BY <1>1, <1>3, <1>4

\* Deleting processors of a partition.
LEMMA DeleteReleases ==
    ASSUME NEW s, NEW vs, NEW is, NEW t, t = DeleteVirtualProcessor(s, vs, is)
    PROVE  /\ Released(s, t, vs, {"vm", "emulator"}) /\ Orphaned(s, t)
           /\ t.handles = s.handles \ Objects({"vcpu"}, vs, is)
           /\ is = {} \/ (\A v \in vs : Object("vm", v, 0) \in s.handles) => Released(s, t, vs, AnyKind)
           /\ is = {} \/ vs = {} \/ (/\ Device \in s.handles
                                     /\ \A v \in vs : Object("vm", v, 0) \in s.handles
                                     /\ \A v \in vs, i \in is : Object("vcpu", v, i) \in s.kernel)
                 => t.misuse = s.misuse
PROOF
  <1> DEFINE vcpus == Objects({"vcpu"}, vs, is)
             valid == {o \in vcpus : Object("vm", o.vm, 0) \in s.handles /\ o \in s.kernel}
             bad == (IF vcpus # {} /\ Device \notin s.handles THEN {"table_deleted"} ELSE {})
                       \cup (IF valid = vcpus THEN {} ELSE {"no_such_processor"})
             c == Close(s, valid)
  <1>1. /\ t.kernel = c.kernel /\ t.handles = c.handles \ vcpus
        /\ t.misuse = c.misuse \cup bad
    BY DEF DeleteVirtualProcessor, Forget
  <1>2. \A o \in vcpus : /\ o.vm \in vs /\ o.kind = "vcpu" /\ o.vp \in is
                         /\ o = Object("vcpu", o.vm, o.vp)
    BY ObjectsAre
  <1>3. \A o \in valid : o \in vcpus /\ o.vm \in vs /\ o.kind = "vcpu"
    BY <1>2
  <1>4. \A o \in vcpus : o \in s.kernel /\ Object("vm", o.vm, 0) \in s.handles => o \in valid
    OBVIOUS
  <1>5. is = {} \/ vs = {} => vcpus = {} /\ valid = {}
    BY <1>2
  <1>6. (vcpus = {} \/ Device \in s.handles) /\ valid = vcpus => bad = {}
    OBVIOUS
  <1> HIDE DEF vcpus, valid, bad, c
  <1>7. /\ Released(s, c, vs, AnyKind) /\ c.handles = s.handles \ valid
        /\ \A o \in valid : o \in c.kernel => Pinned(c, o)
        /\ c.misuse = s.misuse
    <2>1. \A o \in valid : o.vm \in vs /\ o.kind # "page" /\ o.kind # "vm"
      BY <1>3
    <2>2. \A o \in valid : o.vm \in vs /\ o.kind # "page"
      BY <2>1
    <2>3. /\ Released(s, c, vs, AnyKind) /\ c.handles = s.handles \ valid
          /\ \A o \in valid : o \in c.kernel => Pinned(c, o)
          /\ (\A o \in valid : o.kind # "vm") =>
                 c.misuse = s.misuse /\ \A o \in s.kernel : o \in valid \/ o \in c.kernel
      <3>1. c = Close(s, valid)
        BY DEF c
      <3>2. QED
        BY <2>2, <3>1, CloseReleases
    <2>4. QED
      BY <2>1, <2>3
  <1>8. t.handles = s.handles \ vcpus
    BY <1>1, <1>3, <1>7
  <1>9. \A o : Pinned(c, o) => Pinned(t, o)
    BY <1>1 DEF Pinned
  <1>10. Released(s, t, vs, {"vm", "emulator"})
    BY <1>1, <1>2, <1>7, <1>8 DEF Released
  <1>11. Orphaned(s, t)
    BY <1>2, <1>8 DEF Orphaned
  <1>12. ASSUME is = {} \/ \A v \in vs : Object("vm", v, 0) \in s.handles
         PROVE  Released(s, t, vs, AnyKind)
    <2>1. \A o \in vcpus : o \in s.kernel => o \in valid
      BY <1>2, <1>4, <1>5, <1>12
    <2>2. \A o \in t.kernel : o \in s.handles /\ o \notin t.handles => Pinned(t, o)
      BY <1>1, <1>7, <1>8, <1>9, <2>1 DEF Released
    <2>3. QED
      BY <1>10, <2>2 DEF Released
  <1>13. ASSUME is = {} \/ vs = {} \/ (/\ Device \in s.handles
                                       /\ \A v \in vs : Object("vm", v, 0) \in s.handles
                                       /\ \A v \in vs, i \in is : Object("vcpu", v, i) \in s.kernel)
         PROVE  t.misuse = s.misuse
    <2>1. \A o \in vcpus : o \in valid
      BY <1>2, <1>4, <1>5, <1>13
    <2>2. valid = vcpus
      BY <1>3, <2>1
    <2>3. bad = {}
      BY <1>5, <1>6, <1>13, <2>2
    <2>4. QED
      BY <1>1, <1>7, <2>3
  <1>14. QED
    BY <1>8, <1>10, <1>11, <1>12, <1>13 DEF vcpus

\* Fewer kinds are said less of.
LEMMA ReleasedFewer ==
    ASSUME NEW s, NEW t, NEW vs, NEW kinds, NEW fewer \in SUBSET kinds, Released(s, t, vs, kinds)
    PROVE  Released(s, t, vs, fewer)
PROOF BY DEF Released

\* The partitions that processors are deleted from, and the function table, are there.
Deletable(s, vs, is) ==
    \/ backend # "whpx" \/ is = {} \/ vs = {}
    \/ /\ Device \in s.handles
       /\ \A v \in vs : Object("vm", v, 0) \in s.handles
       /\ \A v \in vs, i \in is : Object("vcpu", v, i) \in s.kernel

\* Destroying processors.
LEMMA DestroyVPReleases ==
    ASSUME NEW s, NEW vs, NEW is, NEW t, t = DestroyVP(s, vs, is)
    PROVE  /\ Released(s, t, vs, {"vm", "emulator"}) /\ Orphaned(s, t)
           /\ t.handles = s.handles \ Objects(VPKinds, vs, is)
           /\ backend # "whpx" \/ is = {} \/ (\A v \in vs : Object("vm", v, 0) \in s.handles)
                 => Released(s, t, vs, AnyKind)
           /\ Deletable(s, vs, is) => t.misuse = s.misuse
PROOF
  <1>1. CASE backend # "whpx"
    <2>1. t = CloseAll(s, {"vcpu"}, vs, is) /\ VPKinds = {"vcpu"}
      BY <1>1 DEF DestroyVP, VPKinds
    <2>2. {"vcpu"} \in SUBSET AnyKind /\ "vm" \notin {"vcpu"} /\ {"vm", "emulator"} \in SUBSET AnyKind
      BY DEF AnyKind
    <2>3. /\ Released(s, t, vs, AnyKind) /\ Orphaned(s, t)
          /\ t.handles = s.handles \ Objects({"vcpu"}, vs, is)
          /\ t.misuse = s.misuse
      BY <2>1, <2>2, CloseAllReleases
    <2>4. Released(s, t, vs, {"vm", "emulator"})
      BY <2>2, <2>3, ReleasedFewer
    <2>5. QED
      BY <2>1, <2>3, <2>4
  <1>2. CASE backend = "whpx"
    <2> DEFINE c == CloseAll(s, {"emulator"}, vs, is)
    <2>1. t = DeleteVirtualProcessor(c, vs, is)
      BY <1>2 DEF DestroyVP
    <2>2. /\ {"emulator"} \in SUBSET AnyKind /\ "vm" \notin {"emulator"}
          /\ {"vm", "emulator"} \in SUBSET AnyKind
      BY DEF AnyKind
    <2>3. /\ Released(s, c, vs, AnyKind) /\ Orphaned(s, c)
          /\ c.handles = s.handles \ Objects({"emulator"}, vs, is)
          /\ c.misuse = s.misuse
          /\ \A o \in s.kernel : o.kind \notin {"emulator"} => o \in c.kernel
      <3>1. c = CloseAll(s, {"emulator"}, vs, is)
        OBVIOUS
      <3> HIDE DEF c
      <3>2. QED
        BY <2>2, <3>1, CloseAllReleases
    <2> HIDE DEF c
    <2>4. /\ Released(c, t, vs, {"vm", "emulator"}) /\ Orphaned(c, t)
          /\ t.handles = c.handles \ Objects({"vcpu"}, vs, is)
          /\ is = {} \/ (\A v \in vs : Object("vm", v, 0) \in c.handles) => Released(c, t, vs, AnyKind)
          /\ is = {} \/ vs = {} \/ (/\ Device \in c.handles
                                    /\ \A v \in vs : Object("vm", v, 0) \in c.handles
                                    /\ \A v \in vs, i \in is : Object("vcpu", v, i) \in c.kernel)
                => t.misuse = c.misuse
      BY <2>1, DeleteReleases
    <2>5. Released(s, c, vs, {"vm", "emulator"})
      BY <2>2, <2>3, ReleasedFewer
    <2>6. Released(s, t, vs, {"vm", "emulator"}) /\ Orphaned(s, t)
      BY <2>3, <2>4, <2>5, ReleasedTrans
    <2>7. t.handles = s.handles \ Objects(VPKinds, vs, is)
      <3>1. \A o : o \in Objects(VPKinds, vs, is)
                      <=> o \in Objects({"emulator"}, vs, is) \/ o \in Objects({"vcpu"}, vs, is)
        BY <1>2, ObjectsAre DEF VPKinds
      <3>2. QED
        BY <2>3, <2>4, <3>1
    <2>8. /\ \A v \in vs : Object("vm", v, 0) \in s.handles => Object("vm", v, 0) \in c.handles
          /\ Device \in s.handles => Device \in c.handles
          /\ \A v \in vs, i \in is : Object("vcpu", v, i) \in s.kernel => Object("vcpu", v, i) \in c.kernel
      <3>1. \A o \in Objects({"emulator"}, vs, is) : o.kind = "emulator"
        BY ObjectsAre
      <3>2. \A v, i : Object("vm", v, i).kind # "emulator" /\ Object("vcpu", v, i).kind # "emulator"
        BY DEF Object
      <3>3. Device.kind # "emulator"
        BY DEF Device, Object
      <3>4. QED
        BY <2>3, <3>1, <3>2, <3>3
    <2>9. ASSUME is = {} \/ \A v \in vs : Object("vm", v, 0) \in s.handles
          PROVE  Released(s, t, vs, AnyKind)
      BY <2>3, <2>4, <2>8, <2>9, ReleasedTrans
    <2>10. ASSUME Deletable(s, vs, is) PROVE t.misuse = s.misuse
      BY <1>2, <2>3, <2>4, <2>8, <2>10 DEF Deletable
    <2>11. QED
      BY <1>2, <2>6, <2>7, <2>9, <2>10
  <1>3. QED
    BY <1>1, <1>2

\* Destroying machines.
LEMMA DestroyVMReleases ==
    ASSUME NEW s, NEW vs, NEW n, NEW t, t = DestroyVM(s, vs, n)
    PROVE  /\ Released(s, t, vs, {"vm", "emulator"}) /\ Orphaned(s, t)
           /\ t.handles = s.handles \ (Objects(VPKinds, vs, 1 .. n) \cup Objects({"vm"}, vs, {0}))
           /\ backend # "whpx" \/ 1 .. n = {} \/ (\A v \in vs : Object("vm", v, 0) \in s.handles)
                 => Released(s, t, vs, AnyKind)
           /\ Deletable(s, vs, 1 .. n)
                 /\ (\A p \in s.handles :
                       p.kind = "vcpu" /\ p.vm \in vs => p \in Objects(VPKinds, vs, 1 .. n))
                 => t.misuse = s.misuse
PROOF
  <1> DEFINE is == 1 .. n
             d == DestroyVP(s, vs, is)
  <1>1. t = CloseAll(d, {"vm"}, vs, {0})
    BY DEF DestroyVM, DestroyVPs
  <1> HIDE DEF is
  <1>2. /\ Released(s, d, vs, {"vm", "emulator"}) /\ Orphaned(s, d)
        /\ d.handles = s.handles \ Objects(VPKinds, vs, is)
        /\ backend # "whpx" \/ is = {} \/ (\A v \in vs : Object("vm", v, 0) \in s.handles)
              => Released(s, d, vs, AnyKind)
        /\ Deletable(s, vs, is) => d.misuse = s.misuse
    BY DestroyVPReleases
  <1> HIDE DEF d
  <1>3. {"vm"} \in SUBSET AnyKind /\ {"vm", "emulator"} \in SUBSET AnyKind
    BY DEF AnyKind
  <1>4. /\ Released(d, t, vs, AnyKind) /\ Orphaned(d, t)
        /\ t.handles = d.handles \ Objects({"vm"}, vs, {0})
        /\ (\A p \in d.handles : p.kind = "vcpu" => p.vm \notin vs) => t.misuse = d.misuse
    BY <1>1, <1>3, CloseAllReleases
  <1>5. Released(d, t, vs, {"vm", "emulator"})
    BY <1>3, <1>4, ReleasedFewer
  <1>6. Released(s, t, vs, {"vm", "emulator"}) /\ Orphaned(s, t)
    BY <1>2, <1>4, <1>5, ReleasedTrans
  <1>7. t.handles = s.handles \ (Objects(VPKinds, vs, is) \cup Objects({"vm"}, vs, {0}))
    BY <1>2, <1>4
  <1>8. ASSUME backend # "whpx" \/ is = {} \/ \A v \in vs : Object("vm", v, 0) \in s.handles
        PROVE  Released(s, t, vs, AnyKind)
    BY <1>2, <1>4, <1>8, ReleasedTrans
  <1>9. ASSUME Deletable(s, vs, is),
               \A p \in s.handles : p.kind = "vcpu" /\ p.vm \in vs => p \in Objects(VPKinds, vs, is)
        PROVE  t.misuse = s.misuse
    BY <1>2, <1>4, <1>9
  <1>10. QED
    BY <1>6, <1>7, <1>8, <1>9 DEF is

-----------------------------------------------------------------------------
(* The steps of Initialize *)

\* Numbers that are compared.
LEMMA CallsCounted ==
    /\ \A kind : MadeBy(kind) \in 1 .. 3 /\ OpenedBy(kind) \in 1 .. 2
    /\ LifeTypes => \A v \in VMs, i \in 0 .. NumProcessors : Reached(v, i) \in Nat
PROOF
  <1>1. \A kind : MadeBy(kind) \in 1 .. 3
    BY DEF MadeBy
  <1>2. \A kind : OpenedBy(kind) \in 1 .. 2
    BY DEF OpenedBy
  <1>3. ASSUME LifeTypes, NEW v \in VMs, NEW i \in 0 .. NumProcessors PROVE Reached(v, i) \in Nat
    BY <1>3 DEF Reached, LifeTypes
  <1>4. QED
    BY <1>1, <1>2, <1>3

\* Going on to the next call changes what the object at hand, and at most the next
\* processor, have reached.
LEMMA AdvanceReaches ==
    ASSUME LifeTypes, at # Idle, Advance, UNCHANGED backend,
           NEW v, NEW i, v = at.vm, i = at.vp
    PROVE  /\ fate' = [w \in VMs |-> fate'[w]]
           /\ at' # Idle =>
                 /\ at' = [vm |-> at'.vm, vp |-> at'.vp, call |-> at'.call]
                 /\ at'.vm \in VMs /\ at'.vp \in 0 .. NumProcessors /\ at'.call \in 1 .. Len(Calls')
           /\ \A w \in VMs : fate'[w] = "creating" <=> at' # Idle /\ at'.vm = w
           /\ \A w \in VMs : w # v => fate'[w] = fate[w]
           /\ fate[v] = "creating" /\ fate'[v] \in {"creating", "live"}
           /\ \A w \in VMs, j \in 0 .. NumProcessors : w # v \/ j # i =>
                 Reached(w, j)' = Reached(w, j) \/ (Reached(w, j) = 0 /\ Reached(w, j)' = 1)
           /\ Reached(v, i) = at.call
           /\ Reached(v, i)' = IF at.call < Len(Calls) THEN at.call + 1 ELSE 8
PROOF
  <1>1. /\ at = [vm |-> at.vm, vp |-> at.vp, call |-> at.call]
        /\ at.vm \in VMs /\ at.vp \in 0 .. NumProcessors /\ at.call \in 1 .. Len(Calls)
        /\ fate = [w \in VMs |-> fate[w]] /\ fate[at.vm] = "creating"
        /\ \A w \in VMs : fate[w] = "creating" <=> at.vm = w
        /\ backend \in Backends
    BY DEF LifeTypes
  <1>2. Len(Calls) \in Nat /\ Len(VPCalls) >= 1 /\ VPCalls' = VPCalls /\ VMCalls' = VMCalls
    <2>1. Len(VPCalls) >= 1 /\ Len(VMCalls) >= 1 /\ Len(VPCalls) \in Nat /\ Len(VMCalls) \in Nat
      <3>1. Len(KvmVMCalls) = 2 /\ Len(KvmVPCalls) = 4
        BY DEF KvmVMCalls, KvmVPCalls
      <3>2. Len(HaxmVMCalls) = 2 /\ Len(HaxmVPCalls) = 3
        BY DEF HaxmVMCalls, HaxmVPCalls
      <3>3. Len(WhpxVMCalls) = 7 /\ Len(WhpxVPCalls) = 3
        BY DEF WhpxVMCalls, WhpxVPCalls
      <3>4. backend \in {"kvm", "haxm", "whpx"}
        BY <1>1, LifeAssumption
      <3>5. VMCalls \in {KvmVMCalls, HaxmVMCalls, WhpxVMCalls}
        BY <3>4 DEF VMCalls
      <3>6. VPCalls \in {KvmVPCalls, HaxmVPCalls, WhpxVPCalls}
        BY <3>4 DEF VPCalls
      <3>7. Len(VMCalls) \in {2, 7} /\ Len(VPCalls) \in {3, 4}
        BY <3>1, <3>2, <3>3, <3>5, <3>6, Zenon
      <3>8. \A n : n \in {2, 7} \/ n \in {3, 4} => n >= 1 /\ n \in Nat
        OBVIOUS
      <3>9. QED
        BY <3>7, <3>8, Zenon
    <2>2. VPCalls' = VPCalls /\ VMCalls' = VMCalls
      BY DEF VPCalls, VMCalls
    <2>3. QED
      BY <2>1, <2>2 DEF Calls
  <1>3. CASE at.call < Len(Calls)
    <2>1. at' = [at EXCEPT !.call = @ + 1] /\ fate' = fate
      BY <1>3 DEF Advance
    <2>2. at'.vm = at.vm /\ at'.vp = at.vp /\ at'.call = at.call + 1
      BY <1>1, <2>1
    <2>3. at' = [vm |-> at'.vm, vp |-> at'.vp, call |-> at'.call] /\ at' # Idle
      BY <1>1, <2>1 DEF Idle
    <2>4. Calls' = Calls
      BY <1>2, <2>2 DEF Calls
    <2>5. QED
      BY <1>1, <1>2, <1>3, <2>1, <2>2, <2>3, <2>4 DEF Reached
  <1>4. CASE ~(at.call < Len(Calls)) /\ at.vp < NumProcessors
    <2>1. at' = [at EXCEPT !.vp = @ + 1, !.call = 1] /\ fate' = fate
      BY <1>4 DEF Advance
    <2>2. at'.vm = at.vm /\ at'.vp = at.vp + 1 /\ at'.call = 1
      BY <1>1, <2>1
    <2>3. at' = [vm |-> at.vm, vp |-> at.vp + 1, call |-> 1]
      BY <1>1, <2>1
    <2>4. at' # Idle
      BY <2>2 DEF Idle
    <2>5. Calls' = VPCalls
      BY <1>1, <1>2, <2>2 DEF Calls
    <2>6. at'.vp \in 0 .. NumProcessors /\ at'.call \in 1 .. Len(Calls')
      BY <1>1, <1>2, <1>4, <2>2, <2>5, LifeAssumption
    <2>7. \A w \in VMs, j \in 0 .. NumProcessors : w # v \/ j # i =>
                 Reached(w, j)' = Reached(w, j) \/ (Reached(w, j) = 0 /\ Reached(w, j)' = 1)
      BY <1>1, <2>1, <2>2 DEF Reached
    <2>8. /\ Reached(v, i) = at.call
          /\ Reached(v, i)' = 8
      BY <1>1, <2>1, <2>2 DEF Reached
    <2>9. QED
      BY <1>1, <1>4, <2>1, <2>2, <2>3, <2>4, <2>6, <2>7, <2>8
  <1>5. CASE ~(at.call < Len(Calls)) /\ ~(at.vp < NumProcessors)
    <2>1. at' = Idle /\ fate' = [fate EXCEPT ![at.vm] = "live"]
      BY <1>5 DEF Advance
    <2>2. at.vp = NumProcessors
      BY <1>1, <1>5, LifeAssumption
    <2>3. \A w \in VMs, j \in 0 .. NumProcessors : w # v \/ j # i =>
                 Reached(w, j)' = Reached(w, j) \/ (Reached(w, j) = 0 /\ Reached(w, j)' = 1)
      <3>1. \A w \in VMs : w # v => fate'[w] = fate[w] /\ fate[w] # "creating"
        BY <1>1, <2>1
      <3>2. fate'[at.vm] = "live" /\ fate[at.vm] # "live"
        BY <1>1, <2>1
      <3>3. \A j \in 0 .. NumProcessors : j # i => j < at.vp /\ ~(at.vp < j)
        BY <2>2, LifeAssumption
      <3>4. QED
        BY <1>1, <3>1, <3>2, <3>3 DEF Reached
    <2>4. /\ Reached(v, i) = at.call
          /\ Reached(v, i)' = 8
      <3>1. fate'[at.vm] = "live"
        BY <1>1, <2>1
      <3>2. ~(at.vp < at.vp)
        BY <1>1
      <3>3. QED
        BY <1>1, <3>1, <3>2 DEF Reached
    <2>5. QED
      BY <1>1, <1>5, <2>1, <2>3, <2>4
  <1>6. QED
    BY <1>3, <1>4, <1>5

\* What is released stays so while its objects are left alone.
LEMMA StaysReleased ==
    ASSUME backend \in Backends, UNCHANGED backend, NEW v, IsReleased(v), fate'[v] = fate[v],
           \A o : o.vm = v => (o \in sys'.handles => o \in sys.handles)
                              /\ (o \in sys'.kernel <=> o \in sys.kernel)
    PROVE  IsReleased(v)'
PROOF
  <1>1. backend \in {"kvm", "haxm", "whpx"}
    BY LifeAssumption
  <1>2. \A o : o \in ObjectsOf(v)' <=> o \in ObjectsOf(v)
    BY DEF ObjectsOf
  <1>3. \A o \in ObjectsOf(v) : Pinned(sys, o) => Pinned(sys', o)
    BY DEF ObjectsOf, Pinned
  <1>4. \A o \in sys'.handles : o.vm # v
    BY DEF IsReleased
  <1>5. CASE backend = "kvm"
    BY <1>2, <1>3, <1>4, <1>5 DEF IsReleased
  <1>6. CASE backend = "haxm"
    BY <1>2, <1>4, <1>6 DEF IsReleased
  <1>7. CASE backend = "whpx"
    BY <1>2, <1>4, <1>7 DEF IsReleased
  <1>8. QED
    BY <1>1, <1>5, <1>6, <1>7

\* What was done wrong stays excused.
LEMMA StaysValid ==
    ASSUME CallsAreValid, UNCHANGED <<backend>>, sys'.misuse = sys.misuse,
           \A v \in Gone : v \in Gone' /\ fate'[v] = fate[v],
           platform = "down" => platform' = "down" /\ initStatus' = initStatus
    PROVE  CallsAreValid'
PROOF BY DEF CallsAreValid

\* A call of Initialize that goes on: it made what it should, but for the kvm_run page.
LEMMA GoesOn ==
    ASSUME LifeInv, at # Idle, Advance, UNCHANGED <<backend, initStatus, platform>>,
           NEW v, NEW i, NEW c, v = at.vm, i = at.vp, c = at.call,
           i = 0 /\ c = 1 => Device \in sys.handles,
           NEW made \in SUBSET ThisCall.creates,
           \A kind \in ThisCall.creates : kind # "page" => kind \in made,
           sys' = [kernel |-> sys.kernel \cup Objects(made, {v}, {i}),
                   handles |-> sys.handles \cup Objects(ThisCall.opens, {v}, {i}),
                   misuse |-> sys.misuse]
    PROVE  LifeInv'
PROOF
  <1>1. /\ LifeTypes /\ HandlesInv /\ KernelInv /\ DeviceInv /\ GoneIsReleased /\ CallsAreValid
        /\ backend \in Backends
        /\ v \in VMs /\ i \in 0 .. NumProcessors /\ c \in 1 .. Len(Calls)
    BY DEF LifeInv, LifeTypes
  <1>2. /\ \A kind : kind \in ThisCall.creates <=> kind \in AllKinds(i) /\ MadeBy(kind) = c
        /\ \A kind : kind \in ThisCall.opens <=> kind \in Kinds(i) /\ OpenedBy(kind) = c
        /\ \A kind \in AllKinds(i) : MadeBy(kind) <= Len(Calls) /\ OpenedBy(kind) <= Len(Calls)
    BY <1>1, CallMakes
  <1> DEFINE opened == ThisCall.opens
             len == Len(Calls)
  <1>3. /\ sys'.kernel = sys.kernel \cup Objects(made, {v}, {i})
        /\ sys'.handles = sys.handles \cup Objects(opened, {v}, {i})
        /\ sys'.misuse = sys.misuse
        /\ sys' = [kernel |-> sys'.kernel, handles |-> sys'.handles, misuse |-> sys'.misuse]
    OBVIOUS
  <1>4. /\ \A kind \in made : kind \in AllKinds(i) /\ MadeBy(kind) = c
        /\ \A kind \in AllKinds(i) : MadeBy(kind) = c /\ kind # "page" => kind \in made
        /\ \A kind : kind \in opened <=> kind \in Kinds(i) /\ OpenedBy(kind) = c
        /\ \A kind \in AllKinds(i) : MadeBy(kind) <= len /\ OpenedBy(kind) <= len
    BY <1>2
  <1>5. /\ fate' = [w \in VMs |-> fate'[w]]
        /\ at' # Idle =>
              /\ at' = [vm |-> at'.vm, vp |-> at'.vp, call |-> at'.call]
              /\ at'.vm \in VMs /\ at'.vp \in 0 .. NumProcessors /\ at'.call \in 1 .. Len(Calls')
        /\ \A w \in VMs : fate'[w] = "creating" <=> at' # Idle /\ at'.vm = w
        /\ \A w \in VMs : w # v => fate'[w] = fate[w]
        /\ fate[v] = "creating" /\ fate'[v] \in {"creating", "live"}
        /\ \A w \in VMs, j \in 0 .. NumProcessors : w # v \/ j # i =>
              Reached(w, j)' = Reached(w, j) \/ (Reached(w, j) = 0 /\ Reached(w, j)' = 1)
        /\ Reached(v, i) = c
        /\ Reached(v, i)' = IF c < len THEN c + 1 ELSE 8
    BY <1>1, AdvanceReaches
  <1>6. LifeTypes'
    BY <1>1, <1>3, <1>5 DEF LifeTypes
  <1>7. /\ \A j : Kinds(j)' = Kinds(j) /\ AllKinds(j)' = AllKinds(j)
        /\ \A kind : OpenedBy(kind)' = OpenedBy(kind)
    BY DEF Kinds, VPKinds, AllKinds, OpenedBy
  <1>8. Gone' = Gone /\ \A w \in Gone : w \in VMs /\ w # v /\ fate'[w] = fate[w]
    BY <1>5 DEF Gone
  <1>9. \A j : Kinds(j) \subseteq AllKinds(j) /\ "page" \notin Kinds(j)
    BY DEF AllKinds, Kinds, VPKinds
  <1> DEFINE Past(w, j, n) == Reached(w, j) > n
             PastThen(w, j, n) == Reached(w, j)' > n
  <1>10. \A w \in VMs, j \in 0 .. NumProcessors : \A n \in 1 .. 3 :
            /\ Past(w, j, n) => PastThen(w, j, n) \/ (w = v /\ j = i /\ len < n)
            /\ PastThen(w, j, n) => Past(w, j, n) \/ (w = v /\ j = i /\ (n = c \/ len < n))
    <2>1. SUFFICES ASSUME NEW w \in VMs, NEW j \in 0 .. NumProcessors, NEW n \in 1 .. 3
                   PROVE  /\ Past(w, j, n) => PastThen(w, j, n) \/ (w = v /\ j = i /\ len < n)
                          /\ PastThen(w, j, n) => Past(w, j, n) \/ (w = v /\ j = i /\ (n = c \/ len < n))
      OBVIOUS
    <2>2. Reached(w, j) \in Nat
      BY <1>1, CallsCounted
    <2>3. CASE w # v \/ j # i
      BY <1>5, <2>2, <2>3
    <2>4. CASE w = v /\ j = i
      BY <1>1, <1>5, <2>4
    <2>5. QED
      BY <2>3, <2>4
  <1>11. \A kind \in AllKinds(i) : MadeBy(kind) \in 1 .. 3 /\ OpenedBy(kind) \in 1 .. 3
                                  /\ ~(len < MadeBy(kind)) /\ ~(len < OpenedBy(kind))
    BY <1>1, <1>4, CallsCounted
  <1>12. \A kind : MadeBy(kind) \in 1 .. 3 /\ OpenedBy(kind) \in 1 .. 3
    BY CallsCounted
  <1>13. \A w \in VMs, j \in 0 .. NumProcessors : \A kind \in AllKinds(j) :
            /\ Past(w, j, MadeBy(kind)) => PastThen(w, j, MadeBy(kind))
            /\ Past(w, j, OpenedBy(kind)) => PastThen(w, j, OpenedBy(kind))
            /\ PastThen(w, j, MadeBy(kind))
                  => Past(w, j, MadeBy(kind)) \/ (w = v /\ j = i /\ MadeBy(kind) = c)
            /\ PastThen(w, j, OpenedBy(kind))
                  => Past(w, j, OpenedBy(kind)) \/ (w = v /\ j = i /\ OpenedBy(kind) = c)
    <2> HIDE DEF Past, PastThen, len
    <2>1. QED
      BY <1>10, <1>11, <1>12
  <1>14. /\ \A kind \in made : PastThen(v, i, MadeBy(kind))
         /\ \A kind \in opened : PastThen(v, i, OpenedBy(kind))
    <2>1. c \in Nat /\ c < 8 /\ Reached(v, i)' > c
      BY <1>1, <1>5, CallNumbers
    <2>2. QED
      BY <1>4, <2>1
  <1> HIDE DEF Past, PastThen
  <1>15. HandlesInv'
    <2>1. ASSUME NEW o \in sys'.handles
          PROVE  o = Device \/ \E w \in VMs, j \in 0 .. NumProcessors :
                    \E kind \in Kinds(j) : o = Object(kind, w, j) /\ PastThen(w, j, OpenedBy(kind))
      <3>1. CASE o \in sys.handles
        <4>1. o = Device \/ \E w \in VMs, j \in 0 .. NumProcessors :
                    \E kind \in Kinds(j) : o = Object(kind, w, j) /\ Past(w, j, OpenedBy(kind))
          BY <1>1, <3>1 DEF HandlesInv, Past
        <4>2. QED
          BY <1>9, <1>13, <4>1
      <3>2. CASE o \in Objects(opened, {v}, {i})
        <4>1. PICK kind \in opened : o = Object(kind, v, i)
          BY <3>2 DEF Objects
        <4>2. QED
          BY <1>1, <1>4, <1>14, <4>1
      <3>3. QED
        BY <1>3, <2>1, <3>1, <3>2
    <2>2. ASSUME NEW w \in VMs, NEW j \in 0 .. NumProcessors, NEW kind \in Kinds(j),
                 PastThen(w, j, OpenedBy(kind))
          PROVE  Object(kind, w, j) \in sys'.handles
      <3>1. CASE Past(w, j, OpenedBy(kind))
        BY <1>1, <1>3, <3>1 DEF HandlesInv, Past
      <3>2. CASE w = v /\ j = i /\ OpenedBy(kind) = c
        <4>1. kind \in opened
          BY <1>4, <3>2
        <4>2. QED
          BY <1>3, <3>2, <4>1 DEF Objects
      <3>3. QED
        BY <1>9, <1>13, <2>2, <3>1, <3>2
    <2>3. QED
      BY <1>7, <2>1, <2>2 DEF HandlesInv, PastThen
  <1>16. KernelInv'
    <2>1. ASSUME NEW o \in sys'.kernel
          PROVE  o = Device \/ \E w \in VMs, j \in 0 .. NumProcessors : \E kind \in AllKinds(j) :
                    o = Object(kind, w, j) /\ (w \in Gone \/ PastThen(w, j, MadeBy(kind)))
      <3>1. CASE o \in sys.kernel
        <4>1. o = Device \/ \E w \in VMs, j \in 0 .. NumProcessors : \E kind \in AllKinds(j) :
                    o = Object(kind, w, j) /\ (w \in Gone \/ Past(w, j, MadeBy(kind)))
          BY <1>1, <3>1 DEF KernelInv, Past
        <4>2. QED
          BY <1>13, <4>1
      <3>2. CASE o \in Objects(made, {v}, {i})
        <4>1. PICK kind \in made : o = Object(kind, v, i)
          BY <3>2 DEF Objects
        <4>2. QED
          BY <1>1, <1>4, <1>14, <4>1
      <3>3. QED
        BY <1>3, <2>1, <3>1, <3>2
    <2>2. ASSUME NEW w \in VMs, NEW j \in 0 .. NumProcessors, NEW kind \in Kinds(j),
                 PastThen(w, j, MadeBy(kind))
          PROVE  Object(kind, w, j) \in sys'.kernel
      <3>1. CASE Past(w, j, MadeBy(kind))
        BY <1>1, <1>3, <3>1 DEF KernelInv, Past
      <3>2. CASE w = v /\ j = i /\ MadeBy(kind) = c
        <4>1. kind \in made
          BY <1>4, <1>9, <3>2
        <4>2. QED
          BY <1>3, <3>2, <4>1 DEF Objects
      <3>3. QED
        BY <1>9, <1>13, <2>2, <3>1, <3>2
    <2>3. QED
      BY <1>7, <1>8, <2>1, <2>2 DEF KernelInv, PastThen
  <1>17. \A o : o \in Objects(made, {v}, {i}) \/ o \in Objects(opened, {v}, {i})
                   => o.vm = v /\ o # Device
    <2>1. \A o : o \in Objects(made, {v}, {i}) \/ o \in Objects(opened, {v}, {i}) => o.vm \in {v}
      BY ObjectsAre, Zenon
    <2>2. Device.vm = 0
      BY DEF Device, Object
    <2>3. QED
      BY <1>1, <2>1, <2>2, LifeAssumption
  <1>18. DeviceInv'
    <2>1. ASSUME NEW w \in VMs, PastThen(w, 0, 1) PROVE Device \in sys'.handles
      <3>1. Past(w, 0, 1) \/ (0 = i /\ 1 = c)
        <4>1. 0 \in 0 .. NumProcessors /\ "vm" \in AllKinds(0) /\ MadeBy("vm") = 1
          BY LifeAssumption DEF AllKinds, Kinds, MadeBy
        <4>2. QED
          BY <1>13, <2>1, <4>1
      <3>2. Device \in sys.handles
        BY <1>1, <3>1 DEF DeviceInv, Past
      <3>3. QED
        BY <1>3, <3>2
    <2>2. Device \in sys'.handles <=> Device \in sys'.kernel
      BY <1>1, <1>3, <1>17 DEF DeviceInv
    <2>3. QED
      BY <2>1, <2>2 DEF DeviceInv, PastThen
  <1>19. GoneIsReleased'
    <2>1. ASSUME NEW w \in Gone PROVE IsReleased(w)'
      <3>1. w # v /\ fate'[w] = fate[w] /\ IsReleased(w)
        BY <1>1, <1>8 DEF GoneIsReleased
      <3>2. \A o : o.vm = w => (o \in sys'.handles => o \in sys.handles)
                               /\ (o \in sys'.kernel <=> o \in sys.kernel)
        BY <1>3, <1>17, <3>1
      <3>3. QED
        BY <1>1, <3>1, <3>2, StaysReleased
    <2>2. QED
      BY <1>8, <2>1 DEF GoneIsReleased
  <1>20. CallsAreValid'
    BY <1>1, <1>3, <1>8, StaysValid
  <1>21. QED
    BY <1>6, <1>15, <1>16, <1>18, <1>19, <1>20 DEF LifeInv

\* The actions of Initialize that go on.
LEMMA InitializeGoesOn ==
    ASSUME LifeInv, CallSucceeds \/ MmapFails
    PROVE  LifeInv'
PROOF
  <1>1. /\ LifeTypes /\ backend \in Backends /\ at # Idle
        /\ sys = [kernel |-> sys.kernel, handles |-> sys.handles, misuse |-> sys.misuse]
    BY DEF LifeInv, LifeTypes, CallSucceeds, MmapFails
  <1>2. at.call \in 1 .. Len(Calls)
    BY <1>1 DEF LifeTypes
  <1>3. CASE CallSucceeds
    <2>1. /\ Advance /\ UNCHANGED <<backend, initStatus, platform>>
          /\ at.vp = 0 /\ at.call = 1 => Device \in sys.handles
      BY <1>3 DEF CallSucceeds
    <2>2. sys' = [kernel |-> sys.kernel \cup Objects(ThisCall.creates, {at.vm}, {at.vp}),
                  handles |-> sys.handles \cup Objects(ThisCall.opens, {at.vm}, {at.vp}),
                  misuse |-> sys.misuse]
      BY <1>1, <1>3 DEF CallSucceeds
    <2>3. QED
      BY <1>1, <2>1, <2>2, GoesOn
  <1>4. CASE MmapFails
    <2>1. /\ Advance /\ UNCHANGED <<backend, initStatus, platform>> /\ sys' = sys
          /\ ThisCall.name = "mmap"
      BY <1>4 DEF MmapFails
    <2>2. /\ at.vp # 0 /\ at.call = 3
          /\ \A kind : kind \in ThisCall.creates
                          <=> kind \in AllKinds(at.vp) /\ MadeBy(kind) = at.call
          /\ \A kind : kind \in ThisCall.opens
                          <=> kind \in Kinds(at.vp) /\ OpenedBy(kind) = at.call
      BY <1>1, <1>2, <2>1, CallMakes
    <2>3. \A kind : OpenedBy(kind) # 3 /\ (MadeBy(kind) = 3 => kind = "page")
      BY DEF MadeBy, OpenedBy
    <2>4. \A kind \in ThisCall.creates : kind = "page"
      BY <2>2, <2>3
    <2>5. \A kind : kind \notin ThisCall.opens
      BY <2>2, <2>3
    <2>6. Objects({}, {at.vm}, {at.vp}) = {} /\ Objects(ThisCall.opens, {at.vm}, {at.vp}) = {}
      BY <2>5 DEF Objects
    <2>7. sys' = [kernel |-> sys.kernel \cup Objects({}, {at.vm}, {at.vp}),
                  handles |-> sys.handles \cup Objects(ThisCall.opens, {at.vm}, {at.vp}),
                  misuse |-> sys.misuse]
      BY <1>1, <2>1, <2>6
    <2>8. {} \in SUBSET ThisCall.creates
      OBVIOUS
    <2>9. \A kind \in ThisCall.creates : kind # "page" => kind \in {}
      BY <2>4
    <2>10. at.vp = 0 /\ at.call = 1 => Device \in sys.handles
      BY <2>2
    <2>11. QED
      BY <1>1, <2>1, <2>7, <2>8, <2>9, <2>10, GoesOn
  <1>5. QED
    BY <1>3, <1>4

-----------------------------------------------------------------------------
(* Construction, and the end of machines *)

\* The platform's constructor.
LEMMA ConstructPlatformStep ==
    ASSUME LifeInv, ConstructPlatform
    PROVE  LifeInv'
PROOF
  <1>1. /\ LifeTypes /\ HandlesInv /\ KernelInv /\ DeviceInv /\ GoneIsReleased /\ CallsAreValid
        /\ backend \in Backends
    BY DEF LifeInv, LifeTypes
  <1>2. /\ UNCHANGED <<backend, fate, at>> /\ platform = "none"
        /\ sys' = sys \/ sys' = [sys EXCEPT !.kernel = @ \cup {Device}, !.handles = @ \cup {Device}]
    BY DEF ConstructPlatform
  <1>3. /\ sys' = [kernel |-> sys'.kernel, handles |-> sys'.handles, misuse |-> sys'.misuse]
        /\ sys'.misuse = sys.misuse
        /\ \/ sys'.kernel = sys.kernel /\ sys'.handles = sys.handles
           \/ sys'.kernel = sys.kernel \cup {Device} /\ sys'.handles = sys.handles \cup {Device}
    BY <1>1, <1>2 DEF LifeTypes
  <1>4. /\ \A w, j : Reached(w, j)' = Reached(w, j)
        /\ \A j : Kinds(j)' = Kinds(j) /\ AllKinds(j)' = AllKinds(j)
        /\ \A kind : OpenedBy(kind)' = OpenedBy(kind)
        /\ Gone' = Gone /\ Calls' = Calls
    BY <1>2 DEF Reached, Kinds, VPKinds, AllKinds, OpenedBy, Gone, Calls, VMCalls, VPCalls
  <1>5. LifeTypes'
    BY <1>1, <1>2, <1>3, <1>4 DEF LifeTypes
  <1>6. HandlesInv'
    BY <1>1, <1>3, <1>4 DEF HandlesInv
  <1>7. KernelInv'
    BY <1>1, <1>3, <1>4 DEF KernelInv
  <1>8. DeviceInv'
    BY <1>1, <1>3, <1>4 DEF DeviceInv
  <1>9. GoneIsReleased'
    <2>1. ASSUME NEW w \in Gone PROVE IsReleased(w)'
      <3>1. IsReleased(w) /\ w \in VMs /\ Device.vm = 0
        BY <1>1 DEF GoneIsReleased, Gone, Device, Object
      <3>2. \A o : o.vm = w => (o \in sys'.handles => o \in sys.handles)
                               /\ (o \in sys'.kernel <=> o \in sys.kernel)
        BY <1>3, <3>1, LifeAssumption
      <3>3. QED
        BY <1>1, <1>2, <3>1, <3>2, StaysReleased
    <2>2. QED
      BY <1>4, <2>1 DEF GoneIsReleased
  <1>10. CallsAreValid'
    <2>1. platform # "down"
      BY <1>2
    <2>2. QED
      BY <1>1, <1>2, <1>3, <1>4, <2>1 DEF CallsAreValid
  <1>11. QED
    BY <1>5, <1>6, <1>7, <1>8, <1>9, <1>10 DEF LifeInv

\* A machine is begun.
LEMMA CreateVMStep ==
    ASSUME LifeInv, NEW v \in VMs, CreateVM(v)
    PROVE  LifeInv'
PROOF
  <1>1. /\ LifeTypes /\ HandlesInv /\ KernelInv /\ DeviceInv /\ GoneIsReleased /\ CallsAreValid
        /\ backend \in Backends
    BY DEF LifeInv, LifeTypes
  <1>2. /\ UNCHANGED <<backend, initStatus, platform, sys>> /\ at = Idle /\ fate[v] = "unused"
        /\ fate' = [fate EXCEPT ![v] = "creating"]
        /\ at' = [vm |-> v, vp |-> 0, call |-> 1]
    BY DEF CreateVM
  <1>3. /\ at' # Idle /\ at'.vm = v /\ at'.vp = 0 /\ at'.call = 1
        /\ fate = [w \in VMs |-> fate[w]]
        /\ \A w \in VMs : fate[w] # "creating"
    BY <1>1, <1>2 DEF Idle, LifeTypes
  <1>4. /\ fate' = [w \in VMs |-> fate'[w]] /\ fate'[v] = "creating"
        /\ \A w \in VMs : w # v => fate'[w] = fate[w]
    BY <1>2, <1>3
  <1>5. 1 \in 1 .. Len(Calls')
    <2>1. Calls' = VMCalls
      BY <1>2, <1>3 DEF Calls, VMCalls
    <2>2. VMCalls \in {KvmVMCalls, HaxmVMCalls, WhpxVMCalls}
      BY <1>1, LifeAssumption DEF VMCalls
    <2>3. Len(KvmVMCalls) = 2 /\ Len(HaxmVMCalls) = 2 /\ Len(WhpxVMCalls) = 7
      BY DEF KvmVMCalls, HaxmVMCalls, WhpxVMCalls
    <2>4. Len(Calls') \in {2, 7}
      BY <2>1, <2>2, <2>3, Zenon
    <2>5. \A n \in {2, 7} : 1 \in 1 .. n
      OBVIOUS
    <2>6. QED
      BY <2>4, <2>5, Zenon
  <1>6. \A w \in VMs, j \in 0 .. NumProcessors :
           /\ Reached(w, j)' = Reached(w, j) \/ Reached(w, j)' \in 0 .. 1
           /\ Reached(w, j) = Reached(w, j)' \/ Reached(w, j) = 0
    BY <1>2, <1>3, <1>4, LifeAssumption DEF Reached
  <1>7. /\ \A j : Kinds(j)' = Kinds(j) /\ AllKinds(j)' = AllKinds(j)
        /\ \A kind : OpenedBy(kind)' = OpenedBy(kind)
    BY <1>2 DEF Kinds, VPKinds, AllKinds, OpenedBy
  <1>8. Gone' = Gone /\ \A w \in Gone : fate'[w] = fate[w]
    BY <1>2, <1>4 DEF Gone
  <1>9. \A w \in VMs, j \in 0 .. NumProcessors : \A n \in 1 .. 3 :
           Reached(w, j)' > n <=> Reached(w, j) > n
    BY <1>6
  <1>10. \A kind : MadeBy(kind) \in 1 .. 3 /\ OpenedBy(kind) \in 1 .. 3
    BY CallsCounted
  <1>11. LifeTypes'
    BY <1>1, <1>2, <1>3, <1>4, <1>5, LifeAssumption DEF LifeTypes
  <1>12. HandlesInv'
    BY <1>1, <1>2, <1>7, <1>9, <1>10 DEF HandlesInv
  <1>13. KernelInv'
    BY <1>1, <1>2, <1>7, <1>8, <1>9, <1>10 DEF KernelInv
  <1>14. DeviceInv'
    <2>1. \A w \in VMs : Reached(w, 0)' > 1 <=> Reached(w, 0) > 1
      BY <1>9, LifeAssumption
    <2>2. QED
      BY <1>1, <1>2, <2>1 DEF DeviceInv
  <1>15. GoneIsReleased'
    <2>1. ASSUME NEW w \in Gone PROVE IsReleased(w)'
      BY <1>1, <1>2, <1>8, StaysReleased DEF GoneIsReleased
    <2>2. QED
      BY <1>8, <2>1 DEF GoneIsReleased
  <1>16. CallsAreValid'
    BY <1>1, <1>2, <1>8, StaysValid
  <1>17. QED
    BY <1>11, <1>12, <1>13, <1>14, <1>15, <1>16 DEF LifeInv

\* Machines come to an end and the others are left alone.
LEMMA EndStep ==
    ASSUME LifeInv, UNCHANGED backend, NEW vs \in SUBSET VMs,
           sys' = [kernel |-> sys'.kernel, handles |-> sys'.handles, misuse |-> sys'.misuse],
           sys'.kernel \subseteq sys.kernel, sys'.handles \subseteq sys.handles,
           \A o : o.vm \notin vs /\ o # Device =>
              (o \in sys.kernel => o \in sys'.kernel) /\ (o \in sys.handles => o \in sys'.handles),
           \A o \in sys'.handles : o.vm \notin vs,
           Device \in sys'.handles <=> Device \in sys'.kernel,
           Device \in sys.handles => Device \in sys'.handles \/ \A w \in VMs : fate'[w] # "live",
           fate' = [w \in VMs |-> fate'[w]], at' = Idle,
           \A w \in vs : fate'[w] \notin {"unused", "creating", "live"},
           \A w \in VMs : w \notin vs => fate'[w] = fate[w] /\ fate[w] # "creating",
           \A w \in vs : IsReleased(w)',
           CallsAreValid'
    PROVE  LifeInv'
PROOF
  <1>1. LifeTypes /\ HandlesInv /\ KernelInv /\ DeviceInv /\ GoneIsReleased /\ backend \in Backends
    BY DEF LifeInv, LifeTypes
  <1>2. /\ \A w \in VMs, j \in 0 .. NumProcessors : w \notin vs => Reached(w, j)' = Reached(w, j)
        /\ \A w \in vs, j \in 0 .. NumProcessors : Reached(w, j)' = 0
    BY DEF Reached
  <1>3. /\ \A j : Kinds(j)' = Kinds(j) /\ AllKinds(j)' = AllKinds(j)
        /\ \A kind : OpenedBy(kind)' = OpenedBy(kind)
    BY DEF Kinds, VPKinds, AllKinds, OpenedBy
  <1>4. \A kind : ~(0 > MadeBy(kind)) /\ ~(0 > OpenedBy(kind))
    BY CallsCounted
  <1>5. /\ \A w \in VMs : w \in vs => w \in Gone'
        /\ \A w \in VMs : w \notin vs => (w \in Gone' <=> w \in Gone)
    BY DEF Gone
  <1>6. \A kind, w, j : Object(kind, w, j).vm = w
    BY DEF Object
  <1>7. \A kind, w, j : w \in VMs => Object(kind, w, j) # Device
    BY LifeAssumption DEF Device, Object
  <1>8. LifeTypes'
    BY <1>1 DEF LifeTypes, Idle
  <1>9. HandlesInv'
    <2>1. ASSUME NEW o \in sys'.handles
          PROVE  o = Device \/ \E w \in VMs, j \in 0 .. NumProcessors :
                    \E kind \in Kinds(j) : o = Object(kind, w, j) /\ Reached(w, j)' > OpenedBy(kind)
      <3>1. o = Device \/ \E w \in VMs, j \in 0 .. NumProcessors :
                \E kind \in Kinds(j) : o = Object(kind, w, j) /\ Reached(w, j) > OpenedBy(kind)
        BY <1>1, <2>1 DEF HandlesInv
      <3>2. QED
        BY <1>2, <1>6, <2>1, <3>1
    <2>2. ASSUME NEW w \in VMs, NEW j \in 0 .. NumProcessors, NEW kind \in Kinds(j),
                 Reached(w, j)' > OpenedBy(kind)
          PROVE  Object(kind, w, j) \in sys'.handles
      <3>1. w \notin vs /\ Reached(w, j) > OpenedBy(kind)
        BY <1>2, <1>4, <2>2
      <3>2. Object(kind, w, j) \in sys.handles
        BY <1>1, <3>1 DEF HandlesInv
      <3>3. QED
        BY <1>6, <1>7, <3>1, <3>2
    <2>3. QED
      BY <1>3, <2>1, <2>2 DEF HandlesInv
  <1>10. KernelInv'
    <2>1. ASSUME NEW o \in sys'.kernel
          PROVE  o = Device \/ \E w \in VMs, j \in 0 .. NumProcessors : \E kind \in AllKinds(j) :
                    o = Object(kind, w, j) /\ (w \in Gone' \/ Reached(w, j)' > MadeBy(kind))
      <3>1. o = Device \/ \E w \in VMs, j \in 0 .. NumProcessors : \E kind \in AllKinds(j) :
                o = Object(kind, w, j) /\ (w \in Gone \/ Reached(w, j) > MadeBy(kind))
        BY <1>1, <2>1 DEF KernelInv
      <3>2. QED
        BY <1>2, <1>5, <1>6, <2>1, <3>1
    <2>2. ASSUME NEW w \in VMs, NEW j \in 0 .. NumProcessors, NEW kind \in Kinds(j),
                 Reached(w, j)' > MadeBy(kind)
          PROVE  Object(kind, w, j) \in sys'.kernel
      <3>1. w \notin vs /\ Reached(w, j) > MadeBy(kind)
        BY <1>2, <1>4, <2>2
      <3>2. Object(kind, w, j) \in sys.kernel
        BY <1>1, <3>1 DEF KernelInv
      <3>3. QED
        BY <1>6, <1>7, <3>1, <3>2
    <2>3. QED
      BY <1>3, <2>1, <2>2 DEF KernelInv
  <1>11. DeviceInv'
    <2>1. ASSUME NEW w \in VMs, Reached(w, 0)' > 1 PROVE Device \in sys'.handles
      <3>1. 0 \in 0 .. NumProcessors /\ ~(0 > 1)
        BY LifeAssumption
      <3>2. w \notin vs /\ Reached(w, 0) > 1
        BY <1>2, <2>1, <3>1
      <3>3. fate'[w] = "live"
        BY <2>1, <3>1, <3>2 DEF Reached
      <3>4. QED
        BY <1>1, <3>2, <3>3 DEF DeviceInv
    <2>2. QED
      BY <2>1 DEF DeviceInv
  <1>12. GoneIsReleased'
    <2>1. ASSUME NEW w \in VMs, w \in Gone, w \notin vs PROVE IsReleased(w)'
      <3>1. fate'[w] = fate[w] /\ IsReleased(w)
        BY <1>1, <2>1 DEF GoneIsReleased
      <3>2. \A o : o.vm = w => o # Device
        BY LifeAssumption DEF Device, Object
      <3>3. \A o : o.vm = w => (o \in sys'.handles => o \in sys.handles)
                               /\ (o \in sys'.kernel <=> o \in sys.kernel)
        BY <2>1, <3>2
      <3>4. QED
        BY <1>1, <3>1, <3>3, StaysReleased
    <2>2. \A w \in Gone' : w \in VMs
      BY DEF Gone
    <2>3. QED
      BY <1>5, <2>1, <2>2 DEF GoneIsReleased
  <1>13. QED
    BY <1>8, <1>9, <1>10, <1>11, <1>12 DEF LifeInv

\* Only KVM has pages.
LEMMA PinnedByPages ==
    ASSUME LifeInv, NEW t, t.kernel \subseteq sys.kernel, NEW o, Pinned(t, o)
    PROVE  backend = "kvm"
PROOF
  <1>1. PICK p \in t.kernel : p.kind = "page"
    BY DEF Pinned
  <1>2. p \in sys.kernel /\ p # Device
    BY <1>1 DEF Device, Object
  <1>3. PICK j, kind : j \in 0 .. NumProcessors /\ kind \in AllKinds(j) /\ p.kind = kind
    BY <1>2 DEF LifeInv, KernelInv, Object
  <1>4. "page" \in AllKinds(j)
    BY <1>1, <1>3
  <1>5. QED
    BY <1>4 DEF AllKinds, Kinds, VPKinds

\* Live machines are destroyed, with their function table or without it.
LEMMA LiveDestroyed ==
    ASSUME LifeInv, NEW vs \in SUBSET VMs, \A v \in vs : fate[v] = "live",
           NEW s, s.kernel \subseteq sys.kernel, s.handles \subseteq sys.handles,
           \A o : o # Device => (o \in sys.kernel => o \in s.kernel)
                                /\ (o \in sys.handles => o \in s.handles),
           NEW t, t = DestroyVM(s, vs, NumProcessors)
    PROVE  /\ Released(s, t, vs, AnyKind)
           /\ \A o \in t.handles : o.vm \notin vs
           /\ \A o \in t.kernel : o.vm \in vs => backend = "kvm" /\ Pinned(t, o)
           /\ s = sys => t.misuse = s.misuse
PROOF
  <1>1. LifeTypes /\ HandlesInv /\ KernelInv /\ DeviceInv /\ backend \in Backends
    BY DEF LifeInv, LifeTypes
  <1>2. \A v \in vs, j \in 0 .. NumProcessors : \A kind \in Kinds(j) :
           Object(kind, v, j) \in sys.handles /\ Object(kind, v, j) \in sys.kernel
    <2>1. \A v \in vs, j \in 0 .. NumProcessors : Reached(v, j) = 8
      BY DEF Reached
    <2>2. \A kind : 8 > OpenedBy(kind) /\ 8 > MadeBy(kind)
      BY CallsCounted
    <2>3. QED
      BY <1>1, <2>1, <2>2 DEF HandlesInv, KernelInv
  <1>3. \A kind, v, j : v \in vs => Object(kind, v, j) # Device
    BY LifeAssumption DEF Device, Object
  <1>4. \A v \in vs : Object("vm", v, 0) \in s.handles
    <2>1. "vm" \in Kinds(0) /\ 0 \in 0 .. NumProcessors
      BY LifeAssumption DEF Kinds
    <2>2. QED
      BY <1>2, <1>3, <2>1
  <1>5. /\ Released(s, t, vs, AnyKind)
        /\ t.handles = s.handles
                          \ (Objects(VPKinds, vs, 1 .. NumProcessors) \cup Objects({"vm"}, vs, {0}))
        /\ Deletable(s, vs, 1 .. NumProcessors)
              /\ (\A p \in s.handles : p.kind = "vcpu" /\ p.vm \in vs
                                          => p \in Objects(VPKinds, vs, 1 .. NumProcessors))
              => t.misuse = s.misuse
    BY <1>4, DestroyVMReleases
  <1>6. \A o \in s.handles : o.vm \in vs =>
           \/ o \in Objects(VPKinds, vs, 1 .. NumProcessors)
           \/ o \in Objects({"vm"}, vs, {0}) /\ o.kind = "vm"
    <2>1. SUFFICES ASSUME NEW o \in s.handles, o.vm \in vs
                   PROVE  \/ o \in Objects(VPKinds, vs, 1 .. NumProcessors)
                          \/ o \in Objects({"vm"}, vs, {0}) /\ o.kind = "vm"
      OBVIOUS
    <2>2. o # Device
      BY <2>1, LifeAssumption DEF Device, Object
    <2>3. PICK v, j, kind : v \in VMs /\ j \in 0 .. NumProcessors /\ kind \in Kinds(j) /\ o = Object(kind, v, j)
      BY <1>1, <2>1, <2>2 DEF HandlesInv
    <2>4. o.kind = kind /\ o.vm = v /\ o.vp = j /\ o = Object(o.kind, o.vm, o.vp)
      BY <2>3 DEF Object
    <2>5. j = 0 \/ j \in 1 .. NumProcessors
      BY <2>3, LifeAssumption
    <2>6. CASE j = 0
      <3>1. kind = "vm" /\ o.kind \in {"vm"} /\ o.vp \in {0}
        BY <2>3, <2>4, <2>6 DEF Kinds
      <3>2. o \in Objects({"vm"}, vs, {0})
        BY <2>1, <2>4, <3>1, ObjectsAre
      <3>3. QED
        BY <2>4, <3>1, <3>2
    <2>7. CASE j \in 1 .. NumProcessors
      <3>1. j # 0
        BY <2>7
      <3>2. o.kind \in VPKinds /\ o.vp \in 1 .. NumProcessors
        BY <2>3, <2>4, <2>7, <3>1 DEF Kinds
      <3>3. QED
        BY <2>1, <2>4, <3>2, ObjectsAre, Zenon
    <2>8. QED
      BY <2>5, <2>6, <2>7
  <1>7. \A o \in t.handles : o.vm \notin vs
    BY <1>5, <1>6
  <1>8. ASSUME NEW o \in t.kernel, o.vm \in vs PROVE backend = "kvm" /\ Pinned(t, o)
    <2>1. t.kernel \subseteq sys.kernel
      BY <1>5 DEF Released
    <2>2. o # Device
      BY <1>8, LifeAssumption DEF Device, Object
    <2>3. PICK v, j, kind : v \in VMs /\ j \in 0 .. NumProcessors /\ kind \in AllKinds(j) /\ o = Object(kind, v, j)
      BY <1>8, <2>1, <2>2 DEF LifeInv, KernelInv
    <2>4. o.kind = kind /\ v \in vs
      BY <1>8, <2>3 DEF Object
    <2>5. CASE kind = "page"
      <3>1. Pinned(t, o)
        BY <1>8, <2>4, <2>5 DEF Pinned
      <3>2. QED
        BY <2>1, <3>1, PinnedByPages
    <2>6. CASE kind # "page"
      <3>1. kind \in Kinds(j) /\ kind \in AnyKind
        BY <2>3, <2>6 DEF AllKinds, Kinds, VPKinds, AnyKind
      <3>2. o \in s.handles
        BY <1>2, <2>2, <2>3, <2>4, <3>1
      <3>3. Pinned(t, o)
        BY <1>5, <1>7, <1>8, <2>4, <3>1, <3>2 DEF Released
      <3>4. QED
        BY <2>1, <3>3, PinnedByPages
    <2>7. QED
      BY <2>5, <2>6
  <1>9. ASSUME s = sys PROVE t.misuse = s.misuse
    <2>1. vs = {} \/ Device \in s.handles
      <3>1. \A v \in vs : Reached(v, 0) = 8
        BY DEF Reached
      <3>2. 8 > 1
        OBVIOUS
      <3>3. QED
        BY <1>1, <1>9, <3>1, <3>2 DEF DeviceInv
    <2>2. \A v \in vs, i \in 1 .. NumProcessors : Object("vcpu", v, i) \in s.kernel
      <3>1. \A i \in 1 .. NumProcessors : i \in 0 .. NumProcessors /\ i # 0
        BY LifeAssumption
      <3>2. \A i \in 1 .. NumProcessors : "vcpu" \in Kinds(i)
        BY <3>1 DEF Kinds, VPKinds
      <3>3. QED
        BY <1>2, <1>9, <3>1, <3>2
    <2>3. Deletable(s, vs, 1 .. NumProcessors)
      BY <1>4, <2>1, <2>2 DEF Deletable
    <2>4. QED
      BY <1>5, <1>6, <2>3
  <1>10. QED
    BY <1>5, <1>7, <1>8, <1>9

\* The state after a destructor is a state.
LEMMA DestroyVMIsState ==
    ASSUME NEW s, NEW vs, NEW n, NEW t, t = DestroyVM(s, vs, n)
    PROVE  t = [kernel |-> t.kernel, handles |-> t.handles, misuse |-> t.misuse]
PROOF BY DEF DestroyVM, CloseAll, Close

\* No handle and only pinned objects are left, none on HAXM and WHPX.
LEMMA NothingLeft ==
    ASSUME UNCHANGED backend, backend \in Backends, NEW v, \A o \in sys'.handles : o.vm # v,
           \A o \in sys'.kernel : o.vm = v => backend = "kvm" /\ Pinned(sys', o)
    PROVE  IsReleased(v)'
PROOF
  <1>1. backend \in {"kvm", "haxm", "whpx"}
    BY LifeAssumption
  <1>2. \A o \in ObjectsOf(v)' : backend = "kvm" /\ Pinned(sys', o)
    BY DEF ObjectsOf
  <1>3. QED
    BY <1>1, <1>2 DEF IsReleased

\* A machine is freed.
LEMMA FreeVMStep ==
    ASSUME LifeInv, NEW v \in VMs, FreeVM(v)
    PROVE  LifeInv'
PROOF
  <1>1. /\ UNCHANGED <<backend, initStatus, platform, at>> /\ at = Idle /\ fate[v] = "live"
        /\ sys' = DestroyVM(sys, {v}, NumProcessors)
        /\ fate' = [fate EXCEPT ![v] = "freed"]
    BY DEF FreeVM
  <1>2. LifeTypes /\ DeviceInv /\ CallsAreValid /\ backend \in Backends
    BY DEF LifeInv, LifeTypes
  <1>3. {v} \in SUBSET VMs /\ \A w \in {v} : fate[w] = "live"
    BY <1>1
  <1>4. /\ Released(sys, sys', {v}, AnyKind)
        /\ \A o \in sys'.handles : o.vm \notin {v}
        /\ \A o \in sys'.kernel : o.vm \in {v} => backend = "kvm" /\ Pinned(sys', o)
        /\ sys'.misuse = sys.misuse
    BY <1>1, <1>3, LiveDestroyed
  <1>5. sys' = [kernel |-> sys'.kernel, handles |-> sys'.handles, misuse |-> sys'.misuse]
    BY <1>1, DestroyVMIsState
  <1>6. /\ sys'.kernel \subseteq sys.kernel /\ sys'.handles \subseteq sys.handles
        /\ \A o : o.vm \notin {v} =>
              (o \in sys.kernel => o \in sys'.kernel) /\ (o \in sys.handles => o \in sys'.handles)
    BY <1>4 DEF Released
  <1>7. Device.vm \notin {v}
    BY LifeAssumption DEF Device, Object
  <1>8. Device \in sys.handles <=> Device \in sys.kernel
    BY <1>2 DEF DeviceInv
  <1>9. /\ fate' = [w \in VMs |-> fate'[w]] /\ fate'[v] = "freed"
        /\ \A w \in VMs : w # v => fate'[w] = fate[w]
        /\ \A w \in VMs : fate[w] # "creating"
    BY <1>1, <1>2 DEF LifeTypes
  <1>10. \A w \in Gone : w \in Gone' /\ fate'[w] = fate[w]
    BY <1>1, <1>9 DEF Gone
  <1>11. CallsAreValid'
    BY <1>1, <1>2, <1>4, <1>10, StaysValid
  <1>12. IsReleased(v)'
    BY <1>1, <1>2, <1>4, NothingLeft
  <1>13. QED
    BY <1>1, <1>3, <1>4, <1>5, <1>6, <1>7, <1>8, <1>9, <1>11, <1>12, EndStep

\* The platform is destroyed with the machines it has.
LEMMA DestroyPlatformStep ==
    ASSUME LifeInv, DestroyPlatform
    PROVE  LifeInv'
PROOF
  <1> DEFINE vs == {v \in VMs : fate[v] = "live"}
             Without(s) == [kernel |-> s.kernel \ {Device}, handles |-> s.handles \ {Device},
                            misuse |-> s.misuse]
             s == IF backend = "whpx" /\ initStatus # "OK" THEN Without(sys) ELSE sys
             t == DestroyVM(s, vs, NumProcessors)
  <1>1. /\ UNCHANGED <<backend, initStatus, at>> /\ at = Idle /\ platform' = "down"
        /\ fate' = [v \in VMs |-> IF fate[v] = "live" THEN "freed" ELSE fate[v]]
        /\ sys' = DestroyedPlatform
    BY DEF DestroyPlatform
  <1>2. LifeTypes /\ DeviceInv /\ CallsAreValid /\ backend \in Backends
    BY DEF LifeInv, LifeTypes
  <1>3. vs \in SUBSET VMs /\ (\A v \in vs : fate[v] = "live") /\ \A v \in VMs : fate[v] = "live" => v \in vs
    OBVIOUS
  <1>4. /\ s.kernel \subseteq sys.kernel /\ s.handles \subseteq sys.handles
        /\ \A o : o # Device => (o \in sys.kernel => o \in s.kernel)
                                /\ (o \in sys.handles => o \in s.handles)
        /\ s # sys => backend = "whpx" /\ initStatus # "OK"
                      /\ Device \notin s.handles /\ Device \notin s.kernel
    OBVIOUS
  <1>5. /\ sys'.kernel = t.kernel \ {Device} /\ sys'.handles = t.handles \ {Device}
        /\ sys'.misuse = t.misuse
        /\ sys' = [kernel |-> sys'.kernel, handles |-> sys'.handles, misuse |-> sys'.misuse]
    <2>1. t.kernel \subseteq s.kernel /\ t.handles \subseteq s.handles
      BY DestroyVMReleases DEF Released
    <2>2. t = [kernel |-> t.kernel, handles |-> t.handles, misuse |-> t.misuse]
      BY DestroyVMIsState
    <2>3. CASE backend = "whpx" /\ initStatus # "OK"
      <3>1. sys' = t
        BY <1>1, <2>3 DEF DestroyedPlatform, DestroyVMs
      <3>2. Device \notin s.handles /\ Device \notin s.kernel
        BY <2>3
      <3> HIDE DEF t, s
      <3>3. QED
        BY <2>1, <2>2, <3>1, <3>2
    <2>4. CASE ~(backend = "whpx" /\ initStatus # "OK")
      <3>1. sys' = Without(t)
        BY <1>1, <2>4 DEF DestroyedPlatform, DestroyVMs
      <3> HIDE DEF t
      <3>2. QED
        BY <3>1
    <2>5. QED
      BY <2>3, <2>4
  <1> HIDE DEF s, vs
  <1>6. /\ Released(s, t, vs, AnyKind)
        /\ \A o \in t.handles : o.vm \notin vs
        /\ \A o \in t.kernel : o.vm \in vs => backend = "kvm" /\ Pinned(t, o)
        /\ s = sys => t.misuse = s.misuse
    BY <1>3, <1>4, LiveDestroyed
  <1> HIDE DEF t
  <1>7. /\ sys'.kernel \subseteq sys.kernel /\ sys'.handles \subseteq sys.handles
        /\ \A o : o.vm \notin vs /\ o # Device =>
              (o \in sys.kernel => o \in sys'.kernel) /\ (o \in sys.handles => o \in sys'.handles)
        /\ \A o \in sys'.handles : o.vm \notin vs
    BY <1>4, <1>5, <1>6 DEF Released
  <1>8. Device \notin sys'.handles /\ Device \notin sys'.kernel
    BY <1>5
  <1>9. /\ fate' = [w \in VMs |-> fate'[w]] /\ \A w \in VMs : fate'[w] # "live"
        /\ \A w \in vs : fate'[w] = "freed"
        /\ \A w \in VMs : w \notin vs => fate'[w] = fate[w]
        /\ \A w \in VMs : fate[w] # "creating"
    BY <1>1, <1>2, <1>3 DEF LifeTypes
  <1>10. \A w \in Gone : w \in Gone' /\ fate'[w] = fate[w]
    BY <1>1, <1>9 DEF Gone
  <1>11. CallsAreValid'
    <2>1. CASE s = sys
      BY <1>1, <1>2, <1>5, <1>6, <1>10, <2>1, StaysValid
    <2>2. CASE s # sys
      BY <1>1, <1>4, <2>2 DEF CallsAreValid
    <2>3. QED
      BY <2>1, <2>2
  <1>12. ASSUME NEW w \in vs PROVE IsReleased(w)'
    <2>1. \A o : Pinned(t, o) => Pinned(sys', o)
      BY <1>5 DEF Pinned, Device, Object
    <2>2. \A o \in sys'.kernel : o.vm = w => backend = "kvm" /\ Pinned(sys', o)
      BY <1>5, <1>6, <2>1
    <2>3. \A o \in sys'.handles : o.vm # w
      BY <1>7
    <2>4. QED
      BY <1>1, <1>2, <2>2, <2>3, NothingLeft
  <1>13. \A w \in vs : fate'[w] \notin {"unused", "creating", "live"}
    BY <1>9
  <1>14. QED
    BY <1>1, <1>3, <1>5, <1>7, <1>8, <1>9, <1>11, <1>12, <1>13, EndStep

\* The handles of a machine that is being created belong to what was begun.
LEMMA HandlesWhileCreating ==
    ASSUME LifeInv, at # Idle, NEW o \in sys.handles, o.vm = at.vm
    PROVE  \/ o \in Objects({"vm"}, {at.vm}, {0}) /\ o.kind = "vm"
           \/ o \in Objects(VPKinds, {at.vm}, 1 .. at.vp - 1)
           \/ at.vp # 0 /\ o \in Objects(VPKinds, {at.vm}, {at.vp})
PROOF
  <1>1. LifeTypes /\ HandlesInv
    BY DEF LifeInv
  <1>2. at.vm \in VMs /\ at.vp \in 0 .. NumProcessors /\ fate[at.vm] = "creating"
    BY <1>1 DEF LifeTypes
  <1>3. o # Device
    BY <1>2, LifeAssumption DEF Device, Object
  <1>4. PICK v, j, kind : /\ v \in VMs /\ j \in 0 .. NumProcessors /\ kind \in Kinds(j)
                          /\ o = Object(kind, v, j) /\ Reached(v, j) > OpenedBy(kind)
    BY <1>1, <1>3 DEF HandlesInv
  <1>5. o.kind = kind /\ o.vm = v /\ o.vp = j /\ o = Object(o.kind, o.vm, o.vp) /\ v = at.vm
    BY <1>4 DEF Object
  <1>6. ~(at.vp < j)
    BY <1>2, <1>4, <1>5, CallsCounted DEF Reached
  <1>7. j = 0 \/ j \in 1 .. at.vp - 1 \/ (at.vp # 0 /\ j \in {at.vp} /\ j # 0)
    BY <1>2, <1>4, <1>6, LifeAssumption
  <1>8. CASE j = 0
    <2>1. o.kind \in {"vm"} /\ o.vm \in {at.vm} /\ o.vp \in {0}
      BY <1>4, <1>5, <1>8 DEF Kinds
    <2>2. QED
      BY <1>5, <2>1, ObjectsAre
  <1>9. CASE j \in 1 .. at.vp - 1
    <2>1. j # 0
      BY <1>9
    <2>2. o.kind \in VPKinds /\ o.vm \in {at.vm} /\ o.vp \in 1 .. at.vp - 1
      BY <1>4, <1>5, <1>9, <2>1 DEF Kinds
    <2>3. QED
      BY <1>5, <2>2, ObjectsAre, Zenon
  <1>10. CASE at.vp # 0 /\ j \in {at.vp} /\ j # 0
    <2>1. o.kind \in VPKinds /\ o.vm \in {at.vm} /\ o.vp \in {at.vp}
      BY <1>4, <1>5, <1>10 DEF Kinds
    <2>2. o \in Objects(VPKinds, {at.vm}, {at.vp})
      BY <1>5, <2>1, ObjectsAre, Zenon
    <2>3. QED
      BY <1>10, <2>2
  <1>11. QED
    BY <1>7, <1>8, <1>9, <1>10
\* A call of the machine's own Initialize failed.
LEMMA UnwoundVM ==
    ASSUME LifeInv, at # Idle, at.vp = 0, NEW t, t = Unwound, NEW v, v = at.vm
    PROVE  /\ Released(sys, t, {v}, {"emulator"})
           /\ \A o \in t.handles : o.vm # v
           /\ ThisCall.forgets = {} => Released(sys, t, {v}, AnyKind)
           /\ t.misuse = sys.misuse
           /\ t = [kernel |-> t.kernel, handles |-> t.handles, misuse |-> t.misuse]
PROOF
  <1> DEFINE vs == {v}
             none == 1 .. 0
             closes == ThisCall.closes
             forgets == ThisCall.forgets
             a == CloseAll(sys, closes, vs, {0})
             b == ForgetAll(a, forgets, v)
  <1>1. t = DestroyVM(b, vs, 0) /\ none = {}
    BY DEF Unwound
  <1>2. at.call \in 1 .. Len(Calls) /\ backend \in Backends
    BY DEF LifeInv, LifeTypes
  <1>3. /\ closes \in SUBSET AnyKind /\ forgets \in SUBSET {"vm"}
        /\ {"emulator"} \in SUBSET AnyKind /\ {"emulator"} \in SUBSET {"vm", "emulator"}
        /\ {"emulator"} \in SUBSET {"vcpu", "emulator"}
    BY <1>2, CallTakesBack DEF Kinds, AnyKind
  <1>4. \A o \in sys.handles : o.vm \in vs => o \in Objects({"vm"}, vs, {0}) /\ o.kind = "vm"
    <2>1. Objects(VPKinds, {v}, 1 .. at.vp - 1) = {}
      BY DEF Objects
    <2>2. QED
      BY <2>1, HandlesWhileCreating
  <1> HIDE DEF closes, forgets
  <1>5. Released(sys, a, vs, AnyKind)
    BY <1>3, CloseAllReleases
  <1>6. (\A p \in sys.handles : p.kind = "vcpu" => p.vm \notin vs) => a.misuse = sys.misuse
    BY <1>3, CloseAllIsValid
  <1> HIDE DEF a
  <1>7. b.misuse = a.misuse /\ Released(a, b, vs, {"vcpu", "emulator"})
    BY <1>3, ForgetAllReleases
  <1>8. forgets = {} => Released(a, b, vs, AnyKind)
    BY <1>3, ForgetAllReleases
  <1> HIDE DEF b, vs
  <1>9. /\ Released(b, t, vs, {"vm", "emulator"})
        /\ t.handles = b.handles \ (Objects(VPKinds, vs, none) \cup Objects({"vm"}, vs, {0}))
        /\ none = {} => Released(b, t, vs, AnyKind)
        /\ Deletable(b, vs, none)
              /\ (\A p \in b.handles : p.kind = "vcpu" /\ p.vm \in vs => p \in Objects(VPKinds, vs, none))
              => t.misuse = b.misuse
    BY <1>1, DestroyVMReleases
  <1> HIDE DEF none
  <1>10. Released(sys, t, vs, {"emulator"})
    <2>1. Released(sys, a, vs, {"emulator"})
      BY <1>3, <1>5, ReleasedFewer
    <2>2. Released(a, b, vs, {"emulator"})
      BY <1>3, <1>7, ReleasedFewer
    <2>3. Released(b, t, vs, {"emulator"})
      BY <1>3, <1>9, ReleasedFewer
    <2>4. QED
      BY <2>1, <2>2, <2>3, ReleasedTrans
  <1>11. ASSUME forgets = {} PROVE Released(sys, t, vs, AnyKind)
    BY <1>1, <1>5, <1>8, <1>9, <1>11, ReleasedTrans
  <1>12. b.handles \subseteq sys.handles
    BY <1>5, <1>7 DEF Released
  <1>13. \A o \in t.handles : o.vm \notin vs
    BY <1>4, <1>9, <1>12
  <1>14. t.misuse = sys.misuse
    <2>1. \A p \in sys.handles : p.kind = "vcpu" => p.vm \notin vs
      BY <1>4
    <2>2. Deletable(b, vs, none)
      BY <1>1 DEF Deletable
    <2>3. QED
      BY <1>6, <1>7, <1>9, <1>12, <2>1, <2>2
  <1>15. t = [kernel |-> t.kernel, handles |-> t.handles, misuse |-> t.misuse]
    BY <1>1, DestroyVMIsState
  <1>16. QED
    BY <1>10, <1>11, <1>13, <1>14, <1>15 DEF vs, forgets
\* A call of a processor's Initialize failed.
LEMMA UnwoundVP ==
    ASSUME LifeInv, at # Idle, at.vp # 0, NEW t, t = Unwound, NEW v, NEW i, v = at.vm, i = at.vp
    PROVE  /\ Released(sys, t, {v}, {"emulator"})
           /\ \A o \in t.handles : o.vm # v
           /\ backend # "whpx" => Released(sys, t, {v}, AnyKind) /\ Orphaned(sys, t)
           /\ backend = "kvm" => t.misuse = sys.misuse
           /\ t = [kernel |-> t.kernel, handles |-> t.handles, misuse |-> t.misuse]
PROOF
  <1> DEFINE vs == {v}
             is == {i}
             others == 1 .. i - 1
             closes == ThisCall.closes
             forgets == ThisCall.forgets
             closes2 == AfterFailedVP.closes
             forgets2 == AfterFailedVP.forgets
             a == CloseAll(sys, closes, vs, is)
             b == ForgetAll(a, forgets, v)
             c == CloseAll(b, closes2, vs, {0})
             d == ForgetAll(c, forgets2, v)
             e == DestroyVP(d, vs, is)
  <1>1. t = DestroyVM(e, vs, i - 1)
    BY DEF Unwound
  <1>2. at.call \in 1 .. Len(Calls) /\ backend \in Backends /\ backend \in {"kvm", "haxm", "whpx"}
    BY LifeAssumption DEF LifeInv, LifeTypes
  <1>3. /\ closes \in SUBSET AnyKind /\ forgets \in SUBSET {"vm"} /\ "vm" \notin closes
        /\ backend # "whpx" => forgets = {}
    BY <1>2, CallTakesBack DEF Kinds, VPKinds, AnyKind
  <1>4. /\ closes2 \in SUBSET AnyKind /\ forgets2 \in SUBSET {"vm"}
        /\ backend # "whpx" => forgets2 = {}
        /\ backend = "kvm" => closes2 = {}
    BY <1>2 DEF AfterFailedVP, AnyKind
  <1>5. /\ {"emulator"} \in SUBSET AnyKind /\ {"emulator"} \in SUBSET {"vm", "emulator"}
        /\ {"emulator"} \in SUBSET {"vcpu", "emulator"}
    BY DEF AnyKind
  <1>6. \A o \in sys.handles : o.vm \in vs =>
            \/ o \in Objects({"vm"}, vs, {0}) /\ o.kind = "vm"
            \/ o \in Objects(VPKinds, vs, others) \/ o \in Objects(VPKinds, vs, is)
    BY HandlesWhileCreating
  <1> HIDE DEF closes, forgets, closes2, forgets2
  <1>7. Released(sys, a, vs, AnyKind) /\ Orphaned(sys, a) /\ a.misuse = sys.misuse
    <2>1. a = CloseAll(sys, closes, vs, is)
      OBVIOUS
    <2> HIDE DEF vs, is, a
    <2>2. QED
      BY <1>3, <2>1, CloseAllReleases
  <1> HIDE DEF a
  <1>8. b.misuse = a.misuse /\ Released(a, b, vs, {"vcpu", "emulator"})
    <2>1. forgets \in SUBSET {"vm"}
      BY <1>3
    <2>2. b.misuse = a.misuse
      BY DEF ForgetAll, Forget
    <2>3. Released(a, b, vs, {"vcpu", "emulator"})
      BY <2>1, ForgetAllReleases
    <2>4. QED
      BY <2>2, <2>3
  <1>9. forgets = {} => Released(a, b, vs, AnyKind) /\ Orphaned(a, b)
    BY <1>3, ForgetAllReleases
  <1> HIDE DEF b
  <1>10. /\ Released(b, c, vs, AnyKind) /\ Orphaned(b, c)
         /\ "vm" \notin closes2 => c.misuse = b.misuse
    <2>1. c = CloseAll(b, closes2, vs, {0})
      OBVIOUS
    <2> HIDE DEF vs, is, c
    <2>2. QED
      BY <1>4, <2>1, CloseAllReleases
  <1> HIDE DEF c
  <1>11. d.misuse = c.misuse /\ Released(c, d, vs, {"vcpu", "emulator"})
    BY <1>4, ForgetAllReleases
  <1>12. forgets2 = {} => Released(c, d, vs, AnyKind) /\ Orphaned(c, d)
    BY <1>4, ForgetAllReleases
  <1> HIDE DEF d, vs, is
  <1>13. /\ Released(d, e, vs, {"vm", "emulator"}) /\ Orphaned(d, e)
         /\ e.handles = d.handles \ Objects(VPKinds, vs, is)
         /\ backend # "whpx" => Released(d, e, vs, AnyKind)
         /\ Deletable(d, vs, is) => e.misuse = d.misuse
    BY DestroyVPReleases
  <1> HIDE DEF e
  <1>14. /\ Released(e, t, vs, {"vm", "emulator"}) /\ Orphaned(e, t)
         /\ t.handles = e.handles \ (Objects(VPKinds, vs, others) \cup Objects({"vm"}, vs, {0}))
         /\ backend # "whpx" => Released(e, t, vs, AnyKind)
         /\ Deletable(e, vs, others)
               /\ (\A p \in e.handles :
                     p.kind = "vcpu" /\ p.vm \in vs => p \in Objects(VPKinds, vs, others))
               => t.misuse = e.misuse
    BY <1>1, DestroyVMReleases
  <1> HIDE DEF others
  <1>15. Released(sys, d, vs, {"emulator"})
    <2>1. Released(sys, a, vs, {"emulator"})
      BY <1>5, <1>7, ReleasedFewer
    <2>2. Released(a, b, vs, {"emulator"})
      BY <1>5, <1>8, ReleasedFewer
    <2>3. Released(b, c, vs, {"emulator"})
      BY <1>5, <1>10, ReleasedFewer
    <2>4. Released(c, d, vs, {"emulator"})
      BY <1>5, <1>11, ReleasedFewer
    <2>5. Released(sys, b, vs, {"emulator"})
      BY <2>1, <2>2, ReleasedTrans
    <2>6. Released(sys, c, vs, {"emulator"})
      BY <2>3, <2>5, ReleasedTrans
    <2>7. QED
      BY <2>4, <2>6, ReleasedTrans
  <1>16. Released(sys, t, vs, {"emulator"})
    <2>1. Released(d, e, vs, {"emulator"})
      BY <1>5, <1>13, ReleasedFewer
    <2>2. Released(e, t, vs, {"emulator"})
      BY <1>5, <1>14, ReleasedFewer
    <2>3. Released(sys, e, vs, {"emulator"})
      BY <1>15, <2>1, ReleasedTrans
    <2>4. QED
      BY <2>2, <2>3, ReleasedTrans
  <1>17. ASSUME backend # "whpx" PROVE Released(sys, t, vs, AnyKind) /\ Orphaned(sys, t)
    <2>1. Released(sys, b, vs, AnyKind) /\ Orphaned(sys, b)
      BY <1>3, <1>7, <1>9, <1>17, ReleasedTrans
    <2>2. Released(sys, c, vs, AnyKind) /\ Orphaned(sys, c)
      BY <1>10, <2>1, ReleasedTrans
    <2>3. Released(sys, d, vs, AnyKind) /\ Orphaned(sys, d)
      BY <1>4, <1>12, <1>17, <2>2, ReleasedTrans
    <2>4. Released(sys, e, vs, AnyKind) /\ Orphaned(sys, e)
      BY <1>13, <1>17, <2>3, ReleasedTrans
    <2>5. QED
      BY <1>14, <1>17, <2>4, ReleasedTrans
  <1>18. d.handles \subseteq sys.handles
    BY <1>15 DEF Released
  <1>19. \A o \in t.handles : o.vm \notin vs
    BY <1>6, <1>13, <1>14, <1>18
  <1>20. ASSUME backend = "kvm" PROVE t.misuse = sys.misuse
    <2>1. "vm" \notin closes2
      BY <1>4, <1>20
    <2>2. d.misuse = sys.misuse
      BY <1>7, <1>8, <1>10, <1>11, <2>1
    <2>3. Deletable(d, vs, is) /\ Deletable(e, vs, others)
      BY <1>20 DEF Deletable
    <2>4. \A p \in e.handles : p.kind = "vcpu" /\ p.vm \in vs => p \in Objects(VPKinds, vs, others)
      BY <1>6, <1>13, <1>18
    <2>5. QED
      BY <1>13, <1>14, <2>2, <2>3, <2>4
  <1>21. t = [kernel |-> t.kernel, handles |-> t.handles, misuse |-> t.misuse]
    BY <1>1, DestroyVMIsState
  <1>22. QED
    BY <1>16, <1>17, <1>19, <1>20, <1>21 DEF vs
\* The objects of a machine that is being created have handles, but for kvm_run pages and
\* what HAXM is about to open.
LEMMA ObjectsWhileCreating ==
    ASSUME LifeInv, at # Idle, NEW o \in sys.kernel, o.vm = at.vm
    PROVE  \/ o.kind = "page"
           \/ o \in sys.handles
           \/ backend = "haxm" /\ at.call = 2 /\ o.vp = at.vp /\ o.kind \in Kinds(at.vp)
PROOF
  <1>1. LifeTypes /\ HandlesInv /\ KernelInv
    BY DEF LifeInv
  <1>2. at.vm \in VMs /\ at.vp \in 0 .. NumProcessors /\ fate[at.vm] = "creating"
    BY <1>1 DEF LifeTypes
  <1>3. o # Device
    BY <1>2, LifeAssumption DEF Device, Object
  <1>4. PICK v, j, kind : /\ v \in VMs /\ j \in 0 .. NumProcessors /\ kind \in AllKinds(j)
                          /\ o = Object(kind, v, j) /\ (v \in Gone \/ Reached(v, j) > MadeBy(kind))
    BY <1>1, <1>3 DEF KernelInv
  <1>5. o.kind = kind /\ o.vp = j /\ v = at.vm
    BY <1>4 DEF Object
  <1>6. Reached(v, j) > MadeBy(kind)
    BY <1>2, <1>4, <1>5 DEF Gone
  <1>7. CASE kind = "page"
    BY <1>5, <1>7
  <1>8. CASE kind # "page" /\ Reached(v, j) > OpenedBy(kind)
    <2>1. kind \in Kinds(j)
      BY <1>4, <1>8 DEF AllKinds
    <2>2. QED
      BY <1>1, <1>4, <1>8, <2>1 DEF HandlesInv
  <1>9. CASE kind # "page" /\ ~(Reached(v, j) > OpenedBy(kind))
    <2>1. kind \in Kinds(j)
      BY <1>4, <1>9 DEF AllKinds
    <2>2. backend = "haxm"
      BY <1>6, <1>9 DEF OpenedBy, MadeBy
    <2>3. Reached(v, j) = 2
      <3>1. Reached(v, j) \in Nat /\ MadeBy(kind) \in 1 .. 3 /\ OpenedBy(kind) \in 1 .. 2
        BY <1>1, <1>4, CallsCounted
      <3>2. QED
        BY <1>6, <1>9, <3>1
    <2>4. j = at.vp /\ at.call = 2
      BY <1>2, <1>5, <2>3 DEF Reached
    <2>5. QED
      BY <1>5, <2>1, <2>2, <2>4
  <1>10. QED
    BY <1>7, <1>8, <1>9

\* A failed Initialize leaves no object of the machine but those that are known to leak.
LEMMA FailedIsReleased ==
    ASSUME LifeInv, CallFails, NEW v, v = at.vm
    PROVE  IsReleased(v)'
PROOF
  <1>1. /\ at # Idle /\ sys' = Unwound /\ fate' = [fate EXCEPT ![v] = ThisCall.name]
        /\ UNCHANGED backend
    BY DEF CallFails
  <1>2. /\ LifeTypes /\ HandlesInv /\ v \in VMs /\ at.call \in 1 .. Len(Calls)
        /\ backend \in Backends /\ backend \in {"kvm", "haxm", "whpx"}
        /\ at.vp \in 0 .. NumProcessors /\ fate[v] = "creating"
    BY <1>1, LifeAssumption DEF LifeInv, LifeTypes
  <1>3. fate'[v] = ThisCall.name
    BY <1>1, <1>2 DEF LifeTypes
  <1>4. at.vp = 0 => /\ Released(sys, sys', {v}, {"emulator"})
                     /\ \A o \in sys'.handles : o.vm # v
                     /\ ThisCall.forgets = {} => Released(sys, sys', {v}, AnyKind)
    BY <1>1, UnwoundVM
  <1>5. at.vp # 0 => /\ Released(sys, sys', {v}, {"emulator"})
                     /\ \A o \in sys'.handles : o.vm # v
                     /\ backend # "whpx" => Released(sys, sys', {v}, AnyKind) /\ Orphaned(sys, sys')
    BY <1>1, UnwoundVP
  <1>6. /\ Released(sys, sys', {v}, {"emulator"}) /\ sys'.kernel \subseteq sys.kernel
        /\ \A o \in sys'.handles : o.vm # v
    BY <1>4, <1>5 DEF Released
  <1>7. \A o \in sys'.kernel : o.vm = v =>
           \/ o.kind = "page"
           \/ o \in sys.handles
           \/ backend = "haxm" /\ at.call = 2 /\ o.vp = at.vp /\ o.kind \in Kinds(at.vp)
    BY <1>1, <1>6, ObjectsWhileCreating
  <1>8. \A o \in sys'.kernel : o.vm = v /\ o.kind = "page" => Pinned(sys', o)
    BY DEF Pinned
  <1>9. \A o : Pinned(sys', o) => backend = "kvm"
    BY <1>6, PinnedByPages
  <1>10. ASSUME Released(sys, sys', {v}, AnyKind), NEW o \in sys'.kernel, o.vm = v,
                backend = "haxm" => ~(at.call = 2 /\ o.vp = at.vp /\ o.kind \in Kinds(at.vp))
         PROVE  backend = "kvm" /\ Pinned(sys', o)
    <2>1. CASE o.kind = "page"
      BY <1>8, <1>9, <1>10, <2>1
    <2>2. CASE o \in sys.handles
      <3>1. o.kind \in AnyKind
        <4>1. o # Device
          BY <1>2, <1>10, LifeAssumption DEF Device, Object
        <4>2. PICK j, kind : kind \in Kinds(j) /\ o.kind = kind
          BY <1>2, <2>2, <4>1 DEF HandlesInv, Object
        <4>3. QED
          BY <4>2 DEF Kinds, VPKinds, AnyKind
      <3>2. QED
        BY <1>6, <1>9, <1>10, <2>2, <3>1 DEF Released
    <2>3. QED
      BY <1>7, <1>10, <2>1, <2>2
  <1>11. CASE backend = "kvm"
    <2>1. Released(sys, sys', {v}, AnyKind)
      BY <1>2, <1>4, <1>5, <1>11, CallTakesBack
    <2>2. QED
      BY <1>1, <1>2, <1>6, <1>10, <1>11, <2>1, NothingLeft
  <1>12. CASE backend = "haxm"
    <2>1. Released(sys, sys', {v}, AnyKind)
      BY <1>2, <1>4, <1>5, <1>12, CallTakesBack
    <2>2. CASE at.vp = 0 /\ at.call = 2
      <3>1. fate'[v] = "open_vm"
        BY <1>2, <1>3, <1>12, <2>2, CallTakesBack
      <3>2. QED
        BY <1>1, <1>6, <1>12, <3>1 DEF IsReleased
    <2>3. CASE at.vp # 0 /\ at.call = 2
      <3>1. Object("vm", v, 0) \in sys.handles
        <4>1. Reached(v, 0) = 8 /\ 0 \in 0 .. NumProcessors /\ "vm" \in Kinds(0) /\ OpenedBy("vm") = 2
          BY <1>2, <1>12, <2>3, LifeAssumption DEF Reached, Kinds, OpenedBy
        <4>2. 8 > 2
          OBVIOUS
        <4>3. QED
          BY <1>2, <4>1, <4>2 DEF HandlesInv
      <3>2. Object("vm", v, 0).kind = "vm" /\ Object("vm", v, 0).vm = v
        BY DEF Object
      <3>3. \A o \in sys'.kernel : o.vm = v /\ o.kind = "vcpu" => o \in sys.handles
        BY <1>5, <1>6, <1>9, <1>12, <2>3, <3>1, <3>2 DEF Orphaned
      <3>4. Kinds(at.vp) = {"vcpu"}
        BY <1>12, <2>3 DEF Kinds, VPKinds
      <3>5. ASSUME NEW o \in sys'.kernel, o.vm = v PROVE backend = "kvm" /\ Pinned(sys', o)
        <4>1. CASE o \in sys.handles /\ o.kind = "vcpu"
          BY <1>6, <1>9, <2>1, <3>5, <4>1 DEF Released, AnyKind
        <4>2. CASE o.kind # "vcpu"
          BY <1>10, <2>1, <3>4, <3>5, <4>2
        <4>3. QED
          BY <3>3, <3>5, <4>1, <4>2
      <3>6. QED
        BY <1>1, <1>2, <1>6, <3>5, NothingLeft
    <2>4. CASE at.call # 2
      BY <1>1, <1>2, <1>6, <1>10, <2>1, <2>4, NothingLeft
    <2>5. QED
      BY <2>2, <2>3, <2>4
  <1>13. CASE backend = "whpx"
    <2>1. CASE at.vp = 0 /\ ThisCall.forgets = {}
      <3>1. Released(sys, sys', {v}, AnyKind)
        BY <1>4, <2>1
      <3>2. QED
        BY <1>1, <1>2, <1>6, <1>10, <1>13, <3>1, NothingLeft
    <2>2. CASE at.vp # 0 \/ ThisCall.forgets # {}
      <3>1. fate'[v] \in Forgetting
        BY <1>2, <1>3, <1>13, <2>2, CallTakesBack
      <3>2. \A o \in sys'.kernel : o.vm = v => o.kind # "emulator"
        BY <1>6, <1>7, <1>9, <1>13 DEF Released
      <3>3. \A o \in ObjectsOf(v)' : o.kind # "emulator"
        BY <3>2 DEF ObjectsOf
      <3>4. Forgetting' = Forgetting
        BY DEF Forgetting
      <3>5. QED
        BY <1>1, <1>6, <1>13, <3>1, <3>3, <3>4 DEF IsReleased
    <2>3. QED
      BY <2>1, <2>2
  <1>14. QED
    BY <1>2, <1>11, <1>12, <1>13

\* A call of Initialize failed.
LEMMA CallFailsStep ==
    ASSUME LifeInv, CallFails
    PROVE  LifeInv'
PROOF
  <1>0. PICK v : v = at.vm
    OBVIOUS
  <1>1. /\ at # Idle /\ sys' = Unwound /\ fate' = [fate EXCEPT ![v] = ThisCall.name] /\ at' = Idle
        /\ UNCHANGED <<backend, initStatus, platform>>
    BY <1>0 DEF CallFails
  <1>2. /\ LifeTypes /\ DeviceInv /\ CallsAreValid /\ v \in VMs /\ at.call \in 1 .. Len(Calls)
        /\ backend \in Backends /\ backend \in {"kvm", "haxm", "whpx"}
        /\ fate = [w \in VMs |-> fate[w]]
        /\ \A w \in VMs : fate[w] = "creating" <=> w = v
    BY <1>0, <1>1, LifeAssumption DEF LifeInv, LifeTypes
  <1>3. IsReleased(v)'
    BY <1>0, FailedIsReleased
  <1>4. /\ Released(sys, sys', {v}, {"emulator"}) /\ \A o \in sys'.handles : o.vm # v
        /\ sys' = [kernel |-> sys'.kernel, handles |-> sys'.handles, misuse |-> sys'.misuse]
        /\ at.vp = 0 \/ backend = "kvm" => sys'.misuse = sys.misuse
    <2>1. CASE at.vp = 0
      BY <1>0, <1>1, <2>1, UnwoundVM
    <2>2. CASE at.vp # 0
      BY <1>0, <1>1, <2>2, UnwoundVP
    <2>3. QED
      BY <2>1, <2>2
  <1>5. /\ fate'[v] = ThisCall.name /\ ThisCall.name \notin {"unused", "creating", "live"}
        /\ fate' = [w \in VMs |-> fate'[w]]
        /\ \A w \in VMs : w # v => fate'[w] = fate[w] /\ fate[w] # "creating"
    BY <1>1, <1>2, CallTakesBack
  <1>6. /\ v \in Gone' /\ v \notin Gone
        /\ \A w \in Gone : w \in Gone' /\ fate'[w] = fate[w]
    BY <1>2, <1>5 DEF Gone
  <1>7. CallsAreValid'
    <2>1. CASE at.vp = 0 \/ backend = "kvm"
      BY <1>1, <1>2, <1>4, <1>6, <2>1, StaysValid
    <2>2. CASE at.vp # 0 /\ backend = "haxm"
      <3>1. fate'[v] \in Names(HaxmVPCalls)
        BY <1>2, <1>5, <2>2, CallTakesBack
      <3>2. QED
        BY <1>1, <1>6, <2>2, <3>1 DEF CallsAreValid
    <2>3. CASE at.vp # 0 /\ backend = "whpx"
      <3>1. fate'[v] \in Names(WhpxVPCalls)
        BY <1>2, <1>5, <2>3, CallTakesBack
      <3>2. QED
        BY <1>1, <1>6, <2>3, <3>1 DEF CallsAreValid
    <2>4. QED
      BY <1>2, <2>1, <2>2, <2>3
  <1>8. /\ sys'.kernel \subseteq sys.kernel /\ sys'.handles \subseteq sys.handles
        /\ \A o : o.vm \notin {v} =>
              (o \in sys.kernel => o \in sys'.kernel) /\ (o \in sys.handles => o \in sys'.handles)
    BY <1>4 DEF Released
  <1>9. Device.vm \notin {v}
    BY <1>2, LifeAssumption DEF Device, Object
  <1>10. Device \in sys.handles <=> Device \in sys.kernel
    BY <1>2 DEF DeviceInv
  <1>11. {v} \in SUBSET VMs
    BY <1>2
  <1>12. QED
    BY <1>1, <1>3, <1>4, <1>5, <1>7, <1>8, <1>9, <1>10, <1>11, EndStep

-----------------------------------------------------------------------------
(* The theorems about the life of the machines *)

\* It is so before the platform is constructed.
LEMMA LifeInvInit == LifeInit => LifeInv
PROOF
  <1>1. SUFFICES ASSUME LifeInit PROVE LifeInv
    OBVIOUS
  <1>2. /\ backend \in Backends /\ at = Idle /\ fate = [v \in VMs |-> "unused"]
        /\ sys = [kernel |-> {}, handles |-> {}, misuse |-> {}]
    BY <1>1 DEF LifeInit
  <1>3. LifeTypes
    BY <1>2 DEF LifeTypes
  <1>4. \A v \in VMs, i \in 0 .. NumProcessors : Reached(v, i) = 0
    BY <1>2 DEF Reached
  <1>5. \A kind : ~(0 > MadeBy(kind)) /\ ~(0 > OpenedBy(kind))
    BY CallsCounted
  <1>6. sys.kernel = {} /\ sys.handles = {} /\ sys.misuse = {}
    BY <1>2
  <1>7. HandlesInv /\ KernelInv
    BY <1>4, <1>5, <1>6 DEF HandlesInv, KernelInv
  <1>8. 0 \in 0 .. NumProcessors /\ ~(0 > 1)
    BY LifeAssumption
  <1>9. DeviceInv
    BY <1>4, <1>6, <1>8 DEF DeviceInv
  <1>10. GoneIsReleased /\ CallsAreValid
    BY <1>2, <1>6 DEF GoneIsReleased, Gone, CallsAreValid
  <1>11. QED
    BY <1>3, <1>7, <1>9, <1>10 DEF LifeInv

\* Every step keeps it so.
LEMMA LifeInvStep == LifeInv /\ [Next]_<<lifeVars, memVars>> => LifeInv'
PROOF
  <1>1. SUFFICES ASSUME LifeInv, [Next]_<<lifeVars, memVars>> PROVE LifeInv'
    OBVIOUS
  <1>2. CASE LifeStep
    <2>1. CASE ConstructPlatform
      BY <1>1, <2>1, ConstructPlatformStep
    <2>2. CASE DestroyPlatform
      BY <1>1, <2>2, DestroyPlatformStep
    <2>3. CASE CallSucceeds \/ MmapFails
      BY <1>1, <2>3, InitializeGoesOn
    <2>4. CASE CallFails
      BY <1>1, <2>4, CallFailsStep
    <2>5. ASSUME NEW v \in VMs, CreateVM(v) PROVE LifeInv'
      BY <1>1, <2>5, CreateVMStep
    <2>6. ASSUME NEW v \in VMs, FreeVM(v) PROVE LifeInv'
      BY <1>1, <2>6, FreeVMStep
    <2>7. QED
      BY <1>2, <2>1, <2>2, <2>3, <2>4, <2>5, <2>6 DEF LifeStep
  <1>3. CASE UNCHANGED lifeVars
    <2>1. /\ backend' = backend /\ initStatus' = initStatus /\ platform' = platform
          /\ sys' = sys /\ fate' = fate /\ at' = at
      BY <1>3 DEF lifeVars
    <2>2. /\ LifeTypes' = LifeTypes /\ HandlesInv' = HandlesInv /\ KernelInv' = KernelInv
          /\ DeviceInv' = DeviceInv
      <3>1. /\ \A v, i : Reached(v, i)' = Reached(v, i)
            /\ \A i : Kinds(i)' = Kinds(i) /\ AllKinds(i)' = AllKinds(i)
            /\ \A kind : OpenedBy(kind)' = OpenedBy(kind)
            /\ Gone' = Gone /\ Calls' = Calls
        BY <2>1 DEF Reached, Kinds, AllKinds, VPKinds, OpenedBy, Gone, Calls, VMCalls, VPCalls
      <3>2. QED
        BY <2>1, <3>1 DEF LifeTypes, HandlesInv, KernelInv, DeviceInv
    <2>3. GoneIsReleased' = GoneIsReleased /\ CallsAreValid' = CallsAreValid
      BY <2>1 DEF GoneIsReleased, IsReleased, ObjectsOf, Gone, CallsAreValid
    <2>4. QED
      BY <1>1, <2>2, <2>3 DEF LifeInv
  <1>4. QED
    BY <1>1, <1>2, <1>3, LifeGoesOn

\* A live machine reached the end of every Initialize.
LEMMA LiveHasAll == LifeInv => LiveIsComplete
PROOF
  <1>1. SUFFICES ASSUME LifeInv, NEW v \in VMs, fate[v] = "live"
                 PROVE  /\ {Device, Object("vm", v, 0)} \subseteq (sys.handles \cap sys.kernel)
                        /\ \A i \in 1 .. NumProcessors :
                              /\ Object("vcpu", v, i) \in (sys.handles \cap sys.kernel)
                              /\ backend = "whpx" =>
                                    Object("emulator", v, i) \in (sys.handles \cap sys.kernel)
    BY DEF LiveIsComplete
  <1>2. HandlesInv /\ KernelInv /\ DeviceInv
    BY <1>1 DEF LifeInv
  <1>3. \A i : Reached(v, i) = 8
    BY <1>1 DEF Reached
  <1>4. \A kind : 8 > MadeBy(kind) /\ 8 > OpenedBy(kind)
    BY CallsCounted
  <1>5. \A i \in 0 .. NumProcessors : \A kind \in Kinds(i) :
           Object(kind, v, i) \in sys.handles /\ Object(kind, v, i) \in sys.kernel
    BY <1>2, <1>3, <1>4 DEF HandlesInv, KernelInv
  <1>6. Device \in sys.handles /\ Device \in sys.kernel
    <2>1. 8 > 1
      OBVIOUS
    <2>2. QED
      BY <1>2, <1>3, <2>1 DEF DeviceInv
  <1>7. /\ 0 \in 0 .. NumProcessors /\ "vm" \in Kinds(0)
        /\ \A i \in 1 .. NumProcessors : i \in 0 .. NumProcessors /\ i # 0
    BY LifeAssumption DEF Kinds
  <1>8. \A i \in 1 .. NumProcessors :
           "vcpu" \in Kinds(i) /\ (backend = "whpx" => "emulator" \in Kinds(i))
    BY <1>7 DEF Kinds, VPKinds
  <1>9. QED
    BY <1>5, <1>6, <1>7, <1>8

\* For any number of machines and processors, on every backend: once a machine is freed,
\* destroyed with the platform or given up at any call of its Initialize, no handle to any
\* of its objects is left, and no object but those the code is known to leak.
THEOREM GoneStaysReleased == Spec => []GoneIsReleased
PROOF
  <1>1. Init => LifeInv
    BY LifeInvInit DEF Init
  <1>2. LifeInv => GoneIsReleased
    BY DEF LifeInv
  <1>3. QED
    BY <1>1, <1>2, LifeInvStep, PTL DEF Spec

\* No call is made with a closed handle or through the deleted dispatch table, and no
\* machine is released before its processors, unless a processor could not be initialized
\* or WHPX's platform is destroyed while its status is not OK.
THEOREM CallsStayValid == Spec => []CallsAreValid
PROOF
  <1>1. Init => LifeInv
    BY LifeInvInit DEF Init
  <1>2. LifeInv => CallsAreValid
    BY DEF LifeInv
  <1>3. QED
    BY <1>1, <1>2, LifeInvStep, PTL DEF Spec

\* A machine in m_vms has its device, its own object and all its processors, with their
\* handles, whatever happened to other machines.
THEOREM LiveStaysComplete == Spec => []LiveIsComplete
PROOF
  <1>1. Init => LifeInv
    BY LifeInvInit DEF Init
  <1>2. QED
    BY <1>1, LiveHasAll, LifeInvStep, PTL DEF Spec

-----------------------------------------------------------------------------
(* The memory that is reported *)

\* The maps have an entry for every machine and page.
MapTypes ==
    /\ gpa = [v \in VMs |-> gpa[v]] /\ view = [v \in VMs |-> view[v]]
    /\ refused = [v \in VMs |-> refused[v]]
    /\ \A v \in VMs, p \in Pages : DOMAIN gpa[v][p] = {"host", "write", "track"}

MapInv == MapTypes /\ MemoryIsAsReported

\* Memory that is mapped, and reported to be.
LEMMA MappedIsReported ==
    ASSUME MapInv, backend' = backend, refused' = refused, NEW v \in VMs, NEW base, NEW size,
           NEW host, NEW flags, Mapped(v, base, size, host, flags),
           Learns(v, TRUE, HostPages(host, base, size))
    PROVE  MapInv'
PROOF
  <1> DEFINE ext == Extent(base, size)
             behind == HostPages(host, base, size)
             new == [p \in ext |-> [host |-> behind[p], write |-> "write" \in flags,
                                    track |-> "track" \in flags]]
  <1>1. gpa' = [gpa EXCEPT ![v] = Changed(gpa[v], new)]
    BY DEF Mapped
  <1>2. view' = [view EXCEPT ![v] = Changed(view[v], behind)]
    BY DEF Learns
  <1>3. DOMAIN behind = ext /\ DOMAIN new = ext
    BY DEF HostPages
  <1>4. \A p \in ext : new[p].host = behind[p]
    OBVIOUS
  <1>5. \A p \in ext : DOMAIN new[p] = {"host", "write", "track"}
    OBVIOUS
  <1> HIDE DEF ext, behind, new
  <1>6. /\ gpa' = [w \in VMs |-> gpa'[w]]
        /\ \A w \in VMs, p \in Pages :
              gpa'[w][p] = IF w = v /\ p \in ext THEN new[p] ELSE gpa[w][p]
    BY <1>1, <1>3 DEF MapInv, MapTypes, Changed
  <1>7. /\ view' = [w \in VMs |-> view'[w]]
        /\ \A w \in VMs, p \in Pages :
              view'[w][p] = IF w = v /\ p \in ext THEN behind[p] ELSE view[w][p]
    BY <1>2, <1>3 DEF MapInv, MapTypes, Changed
  <1>8. MapTypes'
    BY <1>5, <1>6, <1>7 DEF MapInv, MapTypes
  <1>9. MemoryIsAsReported'
    BY <1>4, <1>6, <1>7 DEF MapInv, MemoryIsAsReported
  <1>10. QED
    BY <1>8, <1>9 DEF MapInv

\* Memory that is unmapped, and reported to be.
LEMMA UnmappedIsReported ==
    ASSUME MapInv, backend' = backend, refused' = refused, NEW v \in VMs, NEW base, NEW size,
           Unmapped(v, base, size), Learns(v, TRUE, NoPages(base, size))
    PROVE  MapInv'
PROOF
  <1> DEFINE ext == Extent(base, size)
             behind == NoPages(base, size)
             new == [p \in ext |-> None]
  <1>1. gpa' = [gpa EXCEPT ![v] = Changed(gpa[v], new)]
    BY DEF Unmapped
  <1>2. view' = [view EXCEPT ![v] = Changed(view[v], behind)]
    BY DEF Learns
  <1>3. DOMAIN behind = ext /\ DOMAIN new = ext
    BY DEF NoPages
  <1>3a. \A p \in ext : new[p] = None /\ behind[p] = NoHost
    BY DEF NoPages
  <1>4. None.host = NoHost /\ DOMAIN None = {"host", "write", "track"}
    BY DEF None
  <1> HIDE DEF ext, behind, new
  <1>5. /\ gpa' = [w \in VMs |-> gpa'[w]]
        /\ \A w \in VMs, p \in Pages :
              gpa'[w][p] = IF w = v /\ p \in ext THEN None ELSE gpa[w][p]
    <2>1. /\ gpa' = [w \in VMs |-> gpa'[w]]
          /\ \A w \in VMs, p \in Pages :
                gpa'[w][p] = IF w = v /\ p \in ext THEN new[p] ELSE gpa[w][p]
      BY <1>1, <1>3 DEF MapInv, MapTypes, Changed
    <2>2. QED
      BY <1>3a, <2>1
  <1>6. /\ view' = [w \in VMs |-> view'[w]]
        /\ \A w \in VMs, p \in Pages :
              view'[w][p] = IF w = v /\ p \in ext THEN NoHost ELSE view[w][p]
    <2>1. /\ view' = [w \in VMs |-> view'[w]]
          /\ \A w \in VMs, p \in Pages :
                view'[w][p] = IF w = v /\ p \in ext THEN behind[p] ELSE view[w][p]
      BY <1>2, <1>3 DEF MapInv, MapTypes, Changed
    <2>2. QED
      BY <1>3a, <2>1
  <1>7. MapTypes'
    BY <1>4, <1>5, <1>6 DEF MapInv, MapTypes
  <1>8. MemoryIsAsReported'
    <2> SUFFICES ASSUME NEW w \in VMs, NEW p \in Pages
                 PROVE  \/ gpa'[w][p].host = view'[w][p]
                        \/ backend = "haxm" /\ p \in refused[w] /\ gpa'[w][p] = None
      BY DEF MemoryIsAsReported
    <2>1. CASE w = v /\ p \in ext
      BY <1>4, <1>5, <1>6, <2>1
    <2>2. CASE ~(w = v /\ p \in ext)
      <3>1. gpa'[w][p] = gpa[w][p] /\ view'[w][p] = view[w][p]
        BY <1>5, <1>6, <2>2
      <3>2. QED
        BY <3>1 DEF MapInv, MemoryIsAsReported
    <2>3. QED
      BY <2>1, <2>2
  <1>9. QED
    BY <1>7, <1>8 DEF MapInv

\* HAXM's memory that is unmapped although the status is an error.
LEMMA UnmappedThoughRefused ==
    ASSUME MapInv, backend = "haxm", backend' = backend, NEW v \in VMs, NEW base, NEW size,
           Unmapped(v, base, size), view' = view,
           refused' = [refused EXCEPT ![v] = @ \cup Extent(base, size)]
    PROVE  MapInv'
PROOF
  <1> DEFINE ext == Extent(base, size)
             new == [p \in ext |-> None]
  <1>1. gpa' = [gpa EXCEPT ![v] = Changed(gpa[v], new)]
    BY DEF Unmapped
  <1>2. DOMAIN new = ext /\ \A p \in ext : new[p] = None
    OBVIOUS
  <1>3. DOMAIN None = {"host", "write", "track"}
    BY DEF None
  <1>4. /\ refused' = [w \in VMs |-> refused'[w]]
        /\ \A w \in VMs : refused[w] \subseteq refused'[w]
        /\ ext \subseteq refused'[v]
    BY DEF MapInv, MapTypes
  <1> HIDE DEF ext, new
  <1>5. /\ gpa' = [w \in VMs |-> gpa'[w]]
        /\ \A w \in VMs, p \in Pages :
              gpa'[w][p] = IF w = v /\ p \in ext THEN None ELSE gpa[w][p]
    BY <1>1, <1>2 DEF MapInv, MapTypes, Changed
  <1>6. MapTypes'
    BY <1>3, <1>4, <1>5 DEF MapInv, MapTypes
  <1>7. MemoryIsAsReported'
    BY <1>4, <1>5 DEF MapInv, MemoryIsAsReported
  <1>8. QED
    BY <1>6, <1>7 DEF MapInv

\* A call that failed and changed nothing.
LEMMA NothingMapped ==
    ASSUME MapInv, backend' = backend, gpa' = gpa, view' = view,
           \/ refused' = refused
           \/ \E v \in VMs : \E ext : refused' = [refused EXCEPT ![v] = @ \cup ext]
    PROVE  MapInv'
PROOF
  <1>1. refused' = [w \in VMs |-> refused'[w]] /\ \A w \in VMs : refused[w] \subseteq refused'[w]
    BY DEF MapInv, MapTypes
  <1>2. QED
    BY <1>1 DEF MapInv, MapTypes, MemoryIsAsReported

\* Protecting memory leaves the host memory behind it.
LEMMA ProtectedIsReported ==
    ASSUME MapInv, backend' = backend, view' = view, refused' = refused, NEW v \in VMs,
           NEW base, NEW size, NEW flags, Protected(v, base, size, flags),
           \A p \in Extent(base, size) : gpa[v][p] # None, Extent(base, size) \subseteq Pages
    PROVE  MapInv'
PROOF
  <1> DEFINE ext == Extent(base, size)
             new == [p \in ext |-> [gpa[v][p] EXCEPT !.write = "write" \in flags]]
  <1>1. gpa' = [gpa EXCEPT ![v] = Changed(gpa[v], new)]
    BY DEF Protected
  <1>2. \A p \in ext : DOMAIN gpa[v][p] = {"host", "write", "track"}
    BY DEF MapInv, MapTypes
  <1>3. DOMAIN new = ext
    OBVIOUS
  <1>4. \A p \in ext : DOMAIN new[p] = {"host", "write", "track"} /\ new[p].host = gpa[v][p].host
    BY <1>2
  <1>5. \A p \in ext : gpa[v][p] # None
    OBVIOUS
  <1> HIDE DEF new, ext
  <1>6. /\ gpa' = [w \in VMs |-> gpa'[w]]
        /\ \A w \in VMs, p \in Pages :
              gpa'[w][p] = IF w = v /\ p \in ext THEN new[p] ELSE gpa[w][p]
    BY <1>1, <1>3 DEF MapInv, MapTypes, Changed
  <1>7. MapTypes'
    BY <1>4, <1>6 DEF MapInv, MapTypes
  <1>8. MemoryIsAsReported'
    BY <1>4, <1>5, <1>6 DEF MapInv, MemoryIsAsReported
  <1>9. QED
    BY <1>7, <1>8 DEF MapInv

\* Every step keeps the map as it is reported.
LEMMA MapStep == MapInv /\ [Next]_<<lifeVars, memVars>> => MapInv'
PROOF
  <1> SUFFICES ASSUME MapInv, [Next]_<<lifeVars, memVars>> PROVE MapInv'
    OBVIOUS
  <1>1. backend' = backend
    BY BackendStays
  <1>2. CASE LifeStep
    <2>1. /\ gpa' = Forgotten(gpa, [p \in Pages |-> None])
          /\ view' = Forgotten(view, [p \in Pages |-> NoHost])
          /\ refused' = Forgotten(refused, {})
      BY <1>2 DEF LifeStep
    <2>2. None.host = NoHost /\ DOMAIN None = {"host", "write", "track"}
      BY DEF None
    <2>3. \A w \in VMs :
            \/ gpa'[w] = gpa[w] /\ view'[w] = view[w] /\ refused'[w] = refused[w]
            \/ /\ gpa'[w] = [p \in Pages |-> None] /\ view'[w] = [p \in Pages |-> NoHost]
               /\ refused'[w] = {}
      BY <2>1 DEF Forgotten
    <2>4. /\ gpa' = [w \in VMs |-> gpa'[w]] /\ view' = [w \in VMs |-> view'[w]]
          /\ refused' = [w \in VMs |-> refused'[w]]
      BY <2>1 DEF Forgotten
    <2>5. MapTypes'
      BY <2>2, <2>3, <2>4 DEF MapInv, MapTypes
    <2>6. MemoryIsAsReported'
      BY <1>1, <2>2, <2>3 DEF MapInv, MemoryIsAsReported
    <2>7. QED
      BY <2>5, <2>6 DEF MapInv
  <1>3. CASE MemoryNext
    <2>1. PICK v \in VMs, r \in Ranges :
              \/ \E host \in Hosts, flags \in FlagSets : KvmMap(v, r[1], r[2], host, flags)
              \/ \E host \in Hosts, flags \in FlagSets : HaxmMap(v, r[1], r[2], host, flags)
              \/ \E host \in Hosts, flags \in FlagSets : WhpxMap(v, r[1], r[2], host, flags)
              \/ HaxmUnmap(v, r[1], r[2])
              \/ WhpxUnmap(v, r[1], r[2])
              \/ \E flags \in FlagSets : KvmSetFlags(v, r[1], r[2], flags)
              \/ \E flags \in FlagSets : HaxmSetFlags(v, r[1], r[2], flags)
              \/ \E n \in DirtyBitmaps(r[2]) : KvmDirtyPages(v, r[1], r[2], n)
              \/ \E n \in DirtyBitmaps(r[2]) : WhpxDirtyPages(v, r[1], r[2], n)
      BY <1>3, MemoryCalls
    <2> DEFINE base == r[1]
               size == r[2]
    <2>2. ASSUME NEW host \in Hosts, NEW flags \in FlagSets, KvmMap(v, base, size, host, flags)
          PROVE  MapInv'
      <3>1. /\ refused' = refused
            /\ \E ok \in BOOLEAN :
                  /\ IF ok THEN Mapped(v, base, size, host, flags) ELSE gpa' = gpa
                  /\ Learns(v, ok, HostPages(host, base, size))
        BY <2>2, Zenon DEF KvmMap
      <3>2. \/ Mapped(v, base, size, host, flags) /\ Learns(v, TRUE, HostPages(host, base, size))
            \/ gpa' = gpa /\ view' = view
        BY <3>1 DEF Learns
      <3>3. QED
        BY <1>1, <3>1, <3>2, MappedIsReported, NothingMapped
    <2>3. ASSUME NEW host \in Hosts, NEW flags \in FlagSets, HaxmMap(v, base, size, host, flags)
          PROVE  MapInv'
      <3>1. /\ refused' = refused
            /\ \E ok, known \in BOOLEAN :
                  /\ IF known /\ ok THEN Mapped(v, base, size, host, flags \ {"track"}) ELSE gpa' = gpa
                  /\ Learns(v, known /\ ok, HostPages(host, base, size))
        BY <2>3, Zenon DEF HaxmMap, HaxmMapOK
      <3>2. \/ /\ Mapped(v, base, size, host, flags \ {"track"})
               /\ Learns(v, TRUE, HostPages(host, base, size))
            \/ gpa' = gpa /\ view' = view
        BY <3>1 DEF Learns
      <3>3. QED
        BY <1>1, <3>1, <3>2, MappedIsReported, NothingMapped
    <2>4. ASSUME NEW host \in Hosts, NEW flags \in FlagSets, WhpxMap(v, base, size, host, flags)
          PROVE  MapInv'
      <3>1. /\ refused' = refused
            /\ \E ok \in BOOLEAN :
                  /\ IF ok THEN Mapped(v, base, size, host, ToWHVFlags(flags)) ELSE gpa' = gpa
                  /\ Learns(v, ok, HostPages(host, base, size))
        BY <2>4, Zenon DEF WhpxMap
      <3>2. \/ /\ Mapped(v, base, size, host, ToWHVFlags(flags))
               /\ Learns(v, TRUE, HostPages(host, base, size))
            \/ gpa' = gpa /\ view' = view
        BY <3>1 DEF Learns
      <3>3. QED
        BY <1>1, <3>1, <3>2, MappedIsReported, NothingMapped
    <2>5. ASSUME HaxmUnmap(v, base, size) PROVE MapInv'
      <3> DEFINE more == [refused EXCEPT ![v] = @ \cup Extent(base, size)]
      <3>1. /\ backend = "haxm"
            /\ \E first, second \in BOOLEAN :
                  /\ IF first \/ second THEN Unmapped(v, base, size) ELSE gpa' = gpa
                  /\ Learns(v, second, NoPages(base, size))
                  /\ refused' = IF second THEN refused ELSE more
        BY <2>5, Zenon DEF HaxmUnmap
      <3>2. \/ Unmapped(v, base, size) /\ Learns(v, TRUE, NoPages(base, size)) /\ refused' = refused
            \/ Unmapped(v, base, size) /\ view' = view /\ refused' = more
            \/ gpa' = gpa /\ view' = view /\ refused' = more
        BY <3>1 DEF Learns
      <3>3. QED
        BY <1>1, <3>1, <3>2, UnmappedIsReported, UnmappedThoughRefused, NothingMapped
    <2>6. ASSUME WhpxUnmap(v, base, size) PROVE MapInv'
      <3> DEFINE more == [refused EXCEPT ![v] = @ \cup Extent(base, size)]
      <3>1. \E ok \in BOOLEAN :
                  /\ IF ok THEN Unmapped(v, base, size) ELSE gpa' = gpa
                  /\ Learns(v, ok, NoPages(base, size))
                  /\ refused' = IF ok THEN refused ELSE more
        BY <2>6, Zenon DEF WhpxUnmap
      <3>2. \/ Unmapped(v, base, size) /\ Learns(v, TRUE, NoPages(base, size)) /\ refused' = refused
            \/ gpa' = gpa /\ view' = view /\ refused' = more
        BY <3>1 DEF Learns
      <3>3. QED
        BY <1>1, <3>1, <3>2, UnmappedIsReported, NothingMapped
    <2>7. ASSUME NEW flags \in FlagSets, HaxmSetFlags(v, base, size, flags) PROVE MapInv'
      <3>1. /\ Protected(v, base, size, flags) /\ view' = view /\ refused' = refused
            /\ \A p \in Extent(base, size) : gpa[v][p] # None
        BY <2>7 DEF HaxmSetFlags
      <3>2. Extent(base, size) \subseteq Pages
        BY DEF Ranges
      <3>3. QED
        BY <1>1, <3>1, <3>2, ProtectedIsReported
    <2>8. ASSUME NEW flags \in FlagSets, KvmSetFlags(v, base, size, flags) PROVE MapInv'
      <3>1. gpa' = gpa /\ view' = view /\ refused' = refused
        BY <2>8, Zenon DEF KvmSetFlags
      <3>2. QED
        BY <1>1, <3>1, NothingMapped
    <2>9. ASSUME NEW n, KvmDirtyPages(v, base, size, n) \/ WhpxDirtyPages(v, base, size, n)
          PROVE  MapInv'
      <3>1. gpa' = gpa /\ view' = view /\ refused' = refused
        BY <2>9 DEF KvmDirtyPages, WhpxDirtyPages
      <3>2. QED
        BY <1>1, <3>1, NothingMapped
    <2> HIDE DEF base, size
    <2>10. QED
      BY <2>1, <2>2, <2>3, <2>4, <2>5, <2>6, <2>7, <2>8, <2>9, Zenon DEF base, size
  <1>4. CASE \E v \in VMs, p \in Pages : GuestWrite(v, p)
    BY <1>1, <1>4, NothingMapped DEF GuestWrite
  <1>5. CASE UNCHANGED <<lifeVars, memVars>>
    BY <1>1, <1>5, NothingMapped DEF memVars
  <1>6. QED
    BY <1>2, <1>3, <1>4, <1>5 DEF Next

\* Through any sequence of maps, unmaps and failures, of any machines, the guest has the
\* memory that the statuses tell the base class; on HAXM a refused unmap may have been made.
THEOREM MemoryReported == Spec => []MemoryIsAsReported
PROOF
  <1>1. Init => MapInv
    <2> SUFFICES ASSUME Init PROVE MapInv
      OBVIOUS
    <2>1. /\ gpa = [v \in VMs |-> [p \in Pages |-> None]]
          /\ view = [v \in VMs |-> [p \in Pages |-> NoHost]] /\ refused = [v \in VMs |-> {}]
      BY DEF Init, Empty
    <2>2. None.host = NoHost /\ DOMAIN None = {"host", "write", "track"}
      BY DEF None
    <2>3. QED
      BY <2>1, <2>2 DEF MapInv, MapTypes, MemoryIsAsReported
  <1>2. MapInv => MemoryIsAsReported
    BY DEF MapInv
  <1>3. QED
    BY <1>1, <1>2, MapStep, PTL DEF Spec

-----------------------------------------------------------------------------
(* The slots of KVM *)

\* A slot, with the flags of some call.
SlotRecord == [slot : Nat, base : Nat, size : Nat, flags : {KvmFlags(f) : f \in FlagSets}]

\* SlotsAreTheKernels for one machine: its record, the kernel's slots and the numbers of
\* those whose flags were changed.
Agree(record, kernel, changed) ==
    /\ \A n \in 1 .. Len(record) : \E s \in kernel :
          /\ s = [record[n] EXCEPT !.flags = s.flags]
          /\ s.flags = record[n].flags \/ s.slot \in changed
    /\ Cardinality(kernel) = Len(record)
    /\ \A s, t \in kernel : s.slot = t.slot => s = t

\* What keeps the numbers apart: every slot in the kernel has one below m_memSlot.
Numbered(record, kernel, next) ==
    /\ record \in Seq(SlotRecord) /\ next \in Nat
    /\ IsFiniteSet(kernel) /\ kernel \subseteq SlotRecord
    /\ \A s \in kernel : s.slot < next

SlotTypes ==
    /\ slots = [v \in VMs |-> slots[v]] /\ kernelSlots = [v \in VMs |-> kernelSlots[v]]
    /\ memSlot = [v \in VMs |-> memSlot[v]] /\ reflagged = [v \in VMs |-> reflagged[v]]

SlotInv ==
    /\ SlotTypes
    /\ \A v \in VMs : /\ Numbered(slots[v], kernelSlots[v], memSlot[v])
                      /\ Agree(slots[v], kernelSlots[v], reflagged[v])

\* A slot that the kernel accepts, with the next number.
LEMMA SlotAdded ==
    ASSUME NEW record, NEW kernel, NEW changed, NEW next, Numbered(record, kernel, next),
           Agree(record, kernel, changed), NEW slot \in SlotRecord, slot.slot = next
    PROVE  /\ Numbered(Append(record, slot), kernel \cup {slot}, next + 1)
           /\ Agree(Append(record, slot), kernel \cup {slot}, changed)
PROOF
  <1> DEFINE more == Append(record, slot)
             all == kernel \cup {slot}
             n == Len(record)
  <1>1. record \in Seq(SlotRecord) /\ next \in Nat /\ n \in Nat
    BY DEF Numbered
  <1>2. /\ more \in Seq(SlotRecord) /\ Len(more) = n + 1 /\ more[n + 1] = slot
        /\ \A i \in 1 .. n : more[i] = record[i]
    BY <1>1
  <1>3. \A s \in kernel : s \in SlotRecord /\ s.slot \in Nat /\ s.slot < next
    BY DEF Numbered, SlotRecord
  <1>4. slot \notin kernel
    BY <1>1, <1>3
  <1>5. IsFiniteSet(all) /\ Cardinality(all) = Cardinality(kernel) + 1
    BY <1>4, FS_AddElement DEF Numbered
  <1>6. Numbered(more, all, next + 1)
    BY <1>1, <1>2, <1>3, <1>5 DEF Numbered
  <1>7. Cardinality(all) = Len(more)
    BY <1>2, <1>5 DEF Agree
  <1>8. \A s, t \in all : s.slot = t.slot => s = t
    BY <1>1, <1>3 DEF Agree
  <1>9. ASSUME NEW i \in 1 .. n + 1
        PROVE  \E s \in all : /\ s = [more[i] EXCEPT !.flags = s.flags]
                              /\ s.flags = more[i].flags \/ s.slot \in changed
    <2>1. CASE i = n + 1
      <3>1. more[i] = slot /\ slot \in all
        BY <1>2, <2>1
      <3>2. slot = [slot EXCEPT !.flags = slot.flags]
        BY DEF SlotRecord
      <3>3. QED
        BY <3>1, <3>2
    <2>2. CASE i \in 1 .. n
      BY <1>2, <2>2 DEF Agree
    <2>3. QED
      BY <1>1, <2>1, <2>2
  <1> HIDE DEF more, all
  <1>10. Agree(more, all, changed)
    BY <1>2, <1>7, <1>8, <1>9 DEF Agree
  <1>11. QED
    BY <1>6, <1>10 DEF more, all

\* Flags of a slot that the application changes, in the record only.
LEMMA SlotReflagged ==
    ASSUME NEW record, NEW kernel, NEW changed, NEW next, Numbered(record, kernel, next),
           Agree(record, kernel, changed), NEW n \in 1 .. Len(record), NEW f \in FlagSets,
           NEW new, new = [record EXCEPT ![n] = [record[n] EXCEPT !.flags = KvmFlags(f)]]
    PROVE  /\ Numbered(new, kernel, next)
           /\ Agree(new, kernel, changed \cup {record[n].slot})
PROOF
  <1> DEFINE slot == [record[n] EXCEPT !.flags = KvmFlags(f)]
             more == changed \cup {record[n].slot}
  <1>1. record \in Seq(SlotRecord) /\ \A i \in 1 .. Len(record) : record[i] \in SlotRecord
    BY DEF Numbered
  <1>2. slot \in SlotRecord /\ slot.slot = record[n].slot /\ slot.base = record[n].base
        /\ slot.size = record[n].size
    BY <1>1 DEF SlotRecord
  <1>3. new = [record EXCEPT ![n] = slot]
    OBVIOUS
  <1> HIDE DEF slot
  <1>4. /\ new \in Seq(SlotRecord) /\ Len(new) = Len(record) /\ new[n] = slot
        /\ \A i \in 1 .. Len(record) : i # n => new[i] = record[i]
    BY <1>1, <1>2, <1>3
  <1>5. Numbered(new, kernel, next)
    BY <1>4 DEF Numbered
  <1>6. ASSUME NEW i \in 1 .. Len(record)
        PROVE  \E s \in kernel : /\ s = [new[i] EXCEPT !.flags = s.flags]
                                 /\ s.flags = new[i].flags \/ s.slot \in more
    <2>1. PICK s \in kernel : /\ s = [record[i] EXCEPT !.flags = s.flags]
                              /\ s.flags = record[i].flags \/ s.slot \in changed
      BY DEF Agree
    <2>2. CASE i = n
      <3>1. s \in SlotRecord /\ record[n] \in SlotRecord
        BY <1>1 DEF Numbered
      <3>2. s.slot = record[n].slot /\ s.base = record[n].base /\ s.size = record[n].size
        BY <2>1, <2>2, <3>1 DEF SlotRecord
      <3>3. s = [slot EXCEPT !.flags = s.flags]
        BY <1>2, <3>1, <3>2 DEF SlotRecord
      <3>4. QED
        BY <1>4, <2>2, <3>2, <3>3
    <2>3. CASE i # n
      BY <1>4, <2>1, <2>3
    <2>4. QED
      BY <2>2, <2>3
  <1> HIDE DEF more
  <1>7. Agree(new, kernel, more)
    BY <1>4, <1>6 DEF Agree
  <1>8. QED
    BY <1>5, <1>7 DEF more

\* FindRegion returns the place of a region, or 0.
LEMMA FindRegionFinds ==
    ASSUME NEW v \in VMs, slots[v] \in Seq(SlotRecord), NEW base, NEW size,
           FindRegion(v, base, size) # 0
    PROVE  FindRegion(v, base, size) \in 1 .. Len(slots[v])
PROOF
  <1> DEFINE found == {n \in DOMAIN slots[v] : slots[v][n].base = base /\ slots[v][n].size = size}
  <1>1. found # {} /\ FindRegion(v, base, size) = Min(found)
    BY DEF FindRegion
  <1>2. found \subseteq 1 .. Len(slots[v]) /\ found \subseteq Nat
    OBVIOUS
  <1> HIDE DEF found
  <1>3. \E x \in found : \A y \in found : x <= y
    BY <1>1, <1>2, LeastNumber
  <1>4. Min(found) \in found
    BY <1>3 DEF Min
  <1>5. QED
    BY <1>1, <1>2, <1>4

\* The slots of the machines other than the one of a call stay.
LEMMA SlotsKept ==
    ASSUME SlotInv, UNCHANGED <<slots, memSlot, kernelSlots, reflagged>>
    PROVE  SlotInv'
PROOF BY DEF SlotInv, SlotTypes

\* A KVM machine's slots after a map, made or refused.
LEMMA KvmMapKeepsSlots ==
    ASSUME SlotInv, NEW v \in VMs, NEW base \in Nat, NEW size \in Nat, NEW host,
           NEW flags \in FlagSets, KvmMap(v, base, size, host, flags)
    PROVE  SlotInv'
PROOF
  <1> DEFINE slot == Slot(memSlot[v], base, size, KvmFlags(flags))
  <1>1. /\ memSlot' = [memSlot EXCEPT ![v] = @ + 1] /\ reflagged' = reflagged
        /\ \E ok \in BOOLEAN :
              /\ slots' = [slots EXCEPT ![v] = KvmSlots(v, ok, slot)]
              /\ kernelSlots' = IF ok THEN [kernelSlots EXCEPT ![v] = @ \cup {slot}]
                                ELSE kernelSlots
    BY Zenon DEF KvmMap
  <1>2. /\ Numbered(slots[v], kernelSlots[v], memSlot[v]) /\ memSlot[v] \in Nat
        /\ Agree(slots[v], kernelSlots[v], reflagged[v])
    BY DEF SlotInv, Numbered
  <1>3. slot \in SlotRecord /\ slot.slot = memSlot[v]
    BY <1>2 DEF Slot, SlotRecord
  <1> HIDE DEF slot
  <1>4. SlotTypes' /\ memSlot'[v] = memSlot[v] + 1
        /\ \A w \in VMs : w # v => /\ slots'[w] = slots[w] /\ kernelSlots'[w] = kernelSlots[w]
                                   /\ memSlot'[w] = memSlot[w]
    BY <1>1 DEF SlotInv, SlotTypes, KvmSlots
  <1>5. \/ slots'[v] = Append(slots[v], slot) /\ kernelSlots'[v] = kernelSlots[v] \cup {slot}
        \/ slots'[v] = slots[v] /\ kernelSlots'[v] = kernelSlots[v]
    BY <1>1 DEF SlotInv, SlotTypes, KvmSlots
  <1>6. /\ Numbered(slots'[v], kernelSlots'[v], memSlot'[v])
        /\ Agree(slots'[v], kernelSlots'[v], reflagged'[v])
    <2>1. CASE slots'[v] = Append(slots[v], slot) /\ kernelSlots'[v] = kernelSlots[v] \cup {slot}
      <3>1. /\ Numbered(Append(slots[v], slot), kernelSlots[v] \cup {slot}, memSlot[v] + 1)
            /\ Agree(Append(slots[v], slot), kernelSlots[v] \cup {slot}, reflagged[v])
        BY <1>2, <1>3, SlotAdded
      <3>2. QED
        BY <1>1, <1>4, <2>1, <3>1
    <2>2. CASE slots'[v] = slots[v] /\ kernelSlots'[v] = kernelSlots[v]
      <3>1. Numbered(slots[v], kernelSlots[v], memSlot[v] + 1)
        <4>1. \A s \in kernelSlots[v] : s.slot \in Nat /\ s.slot < memSlot[v] + 1
          BY <1>2 DEF Numbered, SlotRecord
        <4>2. QED
          BY <1>2, <4>1 DEF Numbered
      <3>2. QED
        BY <1>1, <1>2, <1>4, <2>2, <3>1
    <2>3. QED
      BY <1>5, <2>1, <2>2
  <1>7. \A w \in VMs : /\ Numbered(slots'[w], kernelSlots'[w], memSlot'[w])
                       /\ Agree(slots'[w], kernelSlots'[w], reflagged'[w])
    BY <1>1, <1>4, <1>6 DEF SlotInv
  <1>8. QED
    BY <1>4, <1>7 DEF SlotInv

\* A KVM machine's slots after a change of flags.
LEMMA KvmSetFlagsKeepsSlots ==
    ASSUME SlotInv, NEW v \in VMs, NEW base, NEW size, NEW flags \in FlagSets,
           KvmSetFlags(v, base, size, flags)
    PROVE  SlotInv'
PROOF
  <1> DEFINE n == FindRegion(v, base, size)
  <1>1. /\ n # 0 /\ memSlot' = memSlot /\ kernelSlots' = kernelSlots
        /\ slots' = [slots EXCEPT ![v][n].flags = KvmFlags(flags)]
        /\ reflagged' = [reflagged EXCEPT ![v] = @ \cup {slots[v][n].slot}]
    BY Zenon DEF KvmSetFlags
  <1>2. /\ Numbered(slots[v], kernelSlots[v], memSlot[v]) /\ slots[v] \in Seq(SlotRecord)
        /\ Agree(slots[v], kernelSlots[v], reflagged[v])
    BY DEF SlotInv, Numbered
  <1>3. n \in 1 .. Len(slots[v])
    BY <1>1, <1>2, FindRegionFinds
  <1> HIDE DEF n
  <1> DEFINE new == [slots[v] EXCEPT ![n] = [slots[v][n] EXCEPT !.flags = KvmFlags(flags)]]
  <1>4. slots' = [slots EXCEPT ![v] = new]
    BY <1>1
  <1>5. Numbered(new, kernelSlots[v], memSlot[v])
        /\ Agree(new, kernelSlots[v], reflagged[v] \cup {slots[v][n].slot})
    BY <1>2, <1>3, SlotReflagged
  <1> HIDE DEF new
  <1>6. /\ SlotTypes' /\ slots'[v] = new
        /\ reflagged'[v] = reflagged[v] \cup {slots[v][n].slot}
        /\ \A w \in VMs : w # v => slots'[w] = slots[w] /\ reflagged'[w] = reflagged[w]
    BY <1>1, <1>4 DEF SlotInv, SlotTypes
  <1>7. \A w \in VMs : /\ Numbered(slots'[w], kernelSlots'[w], memSlot'[w])
                       /\ Agree(slots'[w], kernelSlots'[w], reflagged'[w])
    BY <1>1, <1>5, <1>6 DEF SlotInv
  <1>8. QED
    BY <1>6, <1>7 DEF SlotInv

\* A machine without slots.
LEMMA NoSlots == Numbered(<< >>, {}, 0) /\ Agree(<< >>, {}, {})
PROOF
  <1>1. << >> \in Seq(SlotRecord) /\ Len(<< >>) = 0
    OBVIOUS
  <1>2. IsFiniteSet({}) /\ Cardinality({}) = 0
    BY FS_EmptySet
  <1>3. QED
    BY <1>1, <1>2 DEF Numbered, Agree

\* Every step keeps the slots.
LEMMA SlotStep == SlotInv /\ [Next]_<<lifeVars, memVars>> => SlotInv'
PROOF
  <1> SUFFICES ASSUME SlotInv, [Next]_<<lifeVars, memVars>> PROVE SlotInv'
    OBVIOUS
  <1>1. CASE LifeStep
    <2>1. /\ slots' = Forgotten(slots, << >>) /\ memSlot' = Forgotten(memSlot, 0)
          /\ kernelSlots' = Forgotten(kernelSlots, {}) /\ reflagged' = Forgotten(reflagged, {})
      BY <1>1 DEF LifeStep
    <2>2. SlotTypes'
      BY <2>1 DEF Forgotten, SlotTypes
    <2>3. \A w \in VMs :
             \/ /\ slots'[w] = slots[w] /\ kernelSlots'[w] = kernelSlots[w]
                /\ memSlot'[w] = memSlot[w] /\ reflagged'[w] = reflagged[w]
             \/ slots'[w] = << >> /\ kernelSlots'[w] = {} /\ memSlot'[w] = 0 /\ reflagged'[w] = {}
      BY <2>1 DEF Forgotten
    <2>4. QED
      BY <2>2, <2>3, NoSlots DEF SlotInv
  <1>2. CASE MemoryNext
    <2>1. PICK v \in VMs, r \in Ranges :
              \/ \E host \in Hosts, flags \in FlagSets : KvmMap(v, r[1], r[2], host, flags)
              \/ \E host \in Hosts, flags \in FlagSets : HaxmMap(v, r[1], r[2], host, flags)
              \/ \E host \in Hosts, flags \in FlagSets : WhpxMap(v, r[1], r[2], host, flags)
              \/ HaxmUnmap(v, r[1], r[2])
              \/ WhpxUnmap(v, r[1], r[2])
              \/ \E flags \in FlagSets : KvmSetFlags(v, r[1], r[2], flags)
              \/ \E flags \in FlagSets : HaxmSetFlags(v, r[1], r[2], flags)
              \/ \E n \in DirtyBitmaps(r[2]) : KvmDirtyPages(v, r[1], r[2], n)
              \/ \E n \in DirtyBitmaps(r[2]) : WhpxDirtyPages(v, r[1], r[2], n)
      BY <1>2, MemoryCalls
    <2>2. r[1] \in Nat /\ r[2] \in Nat
      <3>1. Pages \subseteq Nat
        BY MemoryAssumption
      <3>2. r[1] \in Pages /\ r[2] \in Nat
        BY DEF Ranges
      <3>3. QED
        BY <3>1, <3>2
    <2>3. ASSUME NEW host \in Hosts, NEW flags \in FlagSets, KvmMap(v, r[1], r[2], host, flags)
          PROVE  SlotInv'
      BY <2>2, <2>3, KvmMapKeepsSlots
    <2>4. ASSUME NEW flags \in FlagSets, KvmSetFlags(v, r[1], r[2], flags) PROVE SlotInv'
      BY <2>4, KvmSetFlagsKeepsSlots
    <2>5. ASSUME NEW host, NEW flags, HaxmMap(v, r[1], r[2], host, flags) PROVE SlotInv'
      BY <2>5, SlotsKept DEF HaxmMap
    <2>6. ASSUME NEW host, NEW flags, WhpxMap(v, r[1], r[2], host, flags) PROVE SlotInv'
      BY <2>6, SlotsKept DEF WhpxMap
    <2>7. ASSUME HaxmUnmap(v, r[1], r[2]) PROVE SlotInv'
      BY <2>7, SlotsKept DEF HaxmUnmap
    <2>8. ASSUME WhpxUnmap(v, r[1], r[2]) PROVE SlotInv'
      BY <2>8, SlotsKept DEF WhpxUnmap
    <2>9. ASSUME NEW flags, HaxmSetFlags(v, r[1], r[2], flags) PROVE SlotInv'
      BY <2>9, SlotsKept DEF HaxmSetFlags
    <2>10. ASSUME NEW n, KvmDirtyPages(v, r[1], r[2], n) PROVE SlotInv'
      BY <2>10, SlotsKept DEF KvmDirtyPages
    <2>11. ASSUME NEW n, WhpxDirtyPages(v, r[1], r[2], n) PROVE SlotInv'
      BY <2>11, SlotsKept DEF WhpxDirtyPages
    <2>12. QED
      BY <2>1, <2>3, <2>4, <2>5, <2>6, <2>7, <2>8, <2>9, <2>10, <2>11, Zenon
  <1>3. CASE \E v \in VMs, p \in Pages : GuestWrite(v, p)
    BY <1>3, SlotsKept DEF GuestWrite
  <1>4. CASE UNCHANGED <<lifeVars, memVars>>
    BY <1>4, SlotsKept DEF memVars
  <1>5. QED
    BY <1>1, <1>2, <1>3, <1>4 DEF Next

\* For any number of maps, refused ones too, KVM's record of the slots is the kernel's and
\* no number is used twice; only flags that the application changed may differ.
THEOREM SlotsOfTheKernel == Spec => []SlotsAreTheKernels
PROOF
  <1>1. Init => SlotInv
    <2> SUFFICES ASSUME Init PROVE SlotInv
      OBVIOUS
    <2>1. /\ slots = [v \in VMs |-> << >>] /\ memSlot = [v \in VMs |-> 0]
          /\ kernelSlots = [v \in VMs |-> {}] /\ reflagged = [v \in VMs |-> {}]
      BY DEF Init, Empty
    <2>2. QED
      BY <2>1, NoSlots DEF SlotInv, SlotTypes
  <1>2. SlotInv => SlotsAreTheKernels
    <2> SUFFICES ASSUME SlotInv, NEW v \in VMs
                 PROVE  /\ \A n \in DOMAIN slots[v] : \E s \in kernelSlots[v] :
                              /\ s = [slots[v][n] EXCEPT !.flags = s.flags]
                              /\ s.flags = slots[v][n].flags \/ s.slot \in reflagged[v]
                        /\ Cardinality(kernelSlots[v]) = Len(slots[v])
                        /\ \A s, t \in kernelSlots[v] : s.slot = t.slot => s = t
      BY DEF SlotsAreTheKernels
    <2>1. slots[v] \in Seq(SlotRecord) /\ Agree(slots[v], kernelSlots[v], reflagged[v])
      BY DEF SlotInv, Numbered
    <2>2. DOMAIN slots[v] = 1 .. Len(slots[v])
      BY <2>1
    <2>3. QED
      BY <2>1, <2>2 DEF Agree
  <1>3. QED
    BY <1>1, <1>2, SlotStep, PTL DEF Spec

-----------------------------------------------------------------------------
(* The bitmaps of dirty pages *)

\* A bitmap of whole words that has a byte for every eight pages holds the words that a
\* hypervisor writes, and so does the one that KVM's ClearDirtyPages makes.
LEMMA WordsFit ==
    ASSUME NEW size \in Nat, NEW n \in Nat
    PROVE  /\ n % 8 = 0 /\ n >= RequiredSize(size) => n >= WordsSize(size)
           /\ 8 * RequiredSize(size) >= WordsSize(size)
PROOF
  <1> DEFINE pages == BlockPages * size
  <1>1. pages \in Nat
    BY MemoryAssumption
  <1> HIDE DEF pages
  <1>2. n % 8 = 0 /\ n >= (pages + 7) \div 8 => n >= 8 * ((pages + 63) \div 64)
    BY <1>1
  <1>3. 8 * ((pages + 7) \div 8) >= 8 * ((pages + 63) \div 64)
    BY <1>1
  <1>4. QED
    BY <1>2, <1>3 DEF RequiredSize, WordsSize, pages

\* Every step keeps to the bitmaps.
LEMMA BitmapStep == BitmapsHold /\ [Next]_<<lifeVars, memVars>> => BitmapsHold'
PROOF
  <1> SUFFICES ASSUME BitmapsHold, [Next]_<<lifeVars, memVars>> PROVE BitmapsHold'
    OBVIOUS
  <1>0. backend' = backend
    BY BackendStays
  <1>1. CASE LifeStep
    BY <1>0, <1>1 DEF LifeStep, BitmapsHold
  <1>2. CASE MemoryNext
    <2>1. PICK v \in VMs, r \in Ranges :
              \/ \E host \in Hosts, flags \in FlagSets : KvmMap(v, r[1], r[2], host, flags)
              \/ \E host \in Hosts, flags \in FlagSets : HaxmMap(v, r[1], r[2], host, flags)
              \/ \E host \in Hosts, flags \in FlagSets : WhpxMap(v, r[1], r[2], host, flags)
              \/ HaxmUnmap(v, r[1], r[2])
              \/ WhpxUnmap(v, r[1], r[2])
              \/ \E flags \in FlagSets : KvmSetFlags(v, r[1], r[2], flags)
              \/ \E flags \in FlagSets : HaxmSetFlags(v, r[1], r[2], flags)
              \/ \E n \in DirtyBitmaps(r[2]) : KvmDirtyPages(v, r[1], r[2], n)
              \/ \E n \in DirtyBitmaps(r[2]) : WhpxDirtyPages(v, r[1], r[2], n)
      BY <1>2, MemoryCalls
    <2> DEFINE size == r[2]
    <2>2. size \in Nat /\ RequiredSize(size) \in Nat /\ WordsSize(size) \in Nat
      <3>1. size \in Nat
        BY DEF Ranges
      <3>2. BlockPages * size \in Nat
        BY <3>1, MemoryAssumption
      <3>3. QED
        BY <3>1, <3>2 DEF RequiredSize, WordsSize
    <2>3. BitmapSizes \subseteq Nat
      BY MemoryAssumption
    <2>4. ASSUME overrun' = overrun PROVE BitmapsHold'
      BY <1>0, <2>4 DEF BitmapsHold
    <2>5. ASSUME NEW n \in DirtyBitmaps(size), KvmDirtyPages(v, r[1], size, n) PROVE BitmapsHold'
      <3>1. backend = "kvm" /\ overrun' = overrun \cup Overrun(size, n)
        BY <2>5 DEF KvmDirtyPages
      <3>2. (n \in BitmapSizes /\ n >= RequiredSize(size)) \/ n = 8 * RequiredSize(size)
        BY <3>1 DEF DirtyBitmaps
      <3> HIDE DEF size
      <3>3. n \in Nat
        <4>1. n \in BitmapSizes \/ n = 8 * RequiredSize(size)
          BY <3>2
        <4>2. CASE n \in BitmapSizes
          BY <2>3, <4>2
        <4>3. CASE n = 8 * RequiredSize(size)
          BY <2>2, <4>3
        <4>4. QED
          BY <4>1, <4>2, <4>3
      <3>4. n < WordsSize(size) => n % 8 # 0
        BY <2>2, <3>2, <3>3, WordsFit
      <3>5. QED
        BY <1>0, <3>1, <3>4 DEF BitmapsHold, Overrun
    <2>6. ASSUME NEW n \in DirtyBitmaps(size), WhpxDirtyPages(v, r[1], size, n) PROVE BitmapsHold'
      <3>1. /\ backend = "whpx" /\ n % 8 = 0
            /\ overrun' = overrun \cup (Overrun(size, n) \ {0})
        BY <2>6 DEF WhpxDirtyPages, WholeWords
      <3>2. (n \in BitmapSizes /\ n >= RequiredSize(size)) \/ n = 0
        BY <3>1 DEF DirtyBitmaps
      <3> HIDE DEF size
      <3>3. n \in Nat
        <4>1. n \in BitmapSizes \/ n = 0
          BY <3>2
        <4>2. CASE n \in BitmapSizes
          BY <2>3, <4>2
        <4>3. CASE n = 0
          BY <4>3
        <4>4. QED
          BY <4>1, <4>2, <4>3
      <3>4. ~(n # 0 /\ n < WordsSize(size))
        BY <2>2, <3>1, <3>2, <3>3, WordsFit
      <3>5. QED
        BY <1>0, <3>1, <3>4 DEF BitmapsHold, Overrun
    <2>7. ASSUME NEW host, NEW flags,
                 \/ KvmMap(v, r[1], size, host, flags) \/ HaxmMap(v, r[1], size, host, flags)
                 \/ WhpxMap(v, r[1], size, host, flags)
          PROVE  overrun' = overrun
      BY <2>7, Zenon DEF KvmMap, HaxmMap, WhpxMap
    <2>8. ASSUME HaxmUnmap(v, r[1], size) \/ WhpxUnmap(v, r[1], size) PROVE overrun' = overrun
      BY <2>8, Zenon DEF HaxmUnmap, WhpxUnmap
    <2>9. ASSUME NEW flags, KvmSetFlags(v, r[1], size, flags) \/ HaxmSetFlags(v, r[1], size, flags)
          PROVE  overrun' = overrun
      BY <2>9, Zenon DEF KvmSetFlags, HaxmSetFlags
    <2>10. QED
      BY <2>1, <2>4, <2>5, <2>6, <2>7, <2>8, <2>9, Zenon
  <1>3. CASE \E v \in VMs, p \in Pages : GuestWrite(v, p)
    BY <1>0, <1>3 DEF GuestWrite, BitmapsHold
  <1>4. CASE UNCHANGED <<lifeVars, memVars>>
    BY <1>0, <1>4 DEF memVars, BitmapsHold
  <1>5. QED
    BY <1>1, <1>2, <1>3, <1>4 DEF Next

\* For a range and a bitmap of any size: a bitmap of whole words is never written beyond its
\* end, and on WHPX none is.
THEOREM BitmapsAlwaysHold == Spec => []BitmapsHold
PROOF
  <1>1. Init => BitmapsHold
    BY DEF Init, BitmapsHold
  <1>2. QED
    BY <1>1, BitmapStep, PTL DEF Spec

=============================================================================
