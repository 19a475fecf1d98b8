----------------------------- MODULE LifeCycle -----------------------------
(***************************************************************************)
(* The life of a Platform, its virtual machines and their processors, on   *)
(* KVM, HAXM and WHPX: which objects of the hypervisor come into being     *)
(* call by call, which of them the program has a handle to, and what is    *)
(* released, in which order, when a call fails part of the way, a machine  *)
(* is freed or the platform is destroyed.                                  *)
(*                                                                         *)
(* An Initialize method is a sequence of calls, each with what it creates  *)
(* and what the method takes back if it fails.  A call that the            *)
(* specifications of a machine leave out is one that succeeds: those calls *)
(* create nothing.                                                         *)
(***************************************************************************)
EXTENDS Integers, Sequences

CONSTANTS
    Backends,       \* of "kvm", "haxm", "whpx"
    VMs,            \* the virtual machines an application creates, each once
    NumProcessors   \* VMSpecifications::numProcessors

ASSUME LifeAssumption ==
    /\ Backends \subseteq {"kvm", "haxm", "whpx"} /\ NumProcessors \in Nat
    /\ 0 \notin VMs      \* 0 stands for no machine

VARIABLES
    backend,        \* whose Platform this is
    initStatus,     \* m_initStatus
    platform,       \* "none", "up" or "down": the Platform object
    sys,            \* the hypervisor's objects, the handles to them, and misuse: history
                    \* of the calls that were made with an invalid handle or table
    fate,           \* of a VM: "unused", "creating", "live" (in m_vms), "freed", or the
                    \* call its Initialize failed at
    at              \* the call Initialize is about to make: VM, VP (0: none yet), index

lifeVars == <<backend, initStatus, platform, sys, fate, at>>

Object(kind, v, i) == [kind |-> kind, vm |-> v, vp |-> i]
Idle == [vm |-> 0, vp |-> 0, call |-> 0]

\* /dev/kvm, /dev/HAX or the loaded dispatch table of WHPX.
Device == Object("device", 0, 0)

ObjectsOf(v) == {o \in sys.kernel : o.vm = v}

-----------------------------------------------------------------------------
(* The calls of the Initialize methods.  creates and opens: the objects a   *)
(* successful call makes and gives a handle to.  closes and forgets: those  *)
(* the method releases, or whose handle it overwrites, if the call fails.   *)

Call(name, creates, opens, closes, forgets) ==
    [name |-> name, creates |-> creates, opens |-> opens, closes |-> closes,
     forgets |-> forgets]

\* Mutant: the descriptor is reset without being closed.
KvmVMCalls_NoClose ==
    << Call("KVM_CREATE_VM", {"vm"}, {"vm"}, {}, {}),
       Call("KVM_SET_IDENTITY_MAP_ADDR", {}, {}, {}, {"vm"}) >>

KvmVMCalls ==
    << Call("KVM_CREATE_VM", {"vm"}, {"vm"}, {}, {}),
       Call("KVM_SET_IDENTITY_MAP_ADDR", {}, {}, {"vm"}, {}) >>

\* The last call is made if the platform supports custom CPUIDs.
KvmVPCalls ==
    << Call("KVM_CREATE_VCPU", {"vcpu"}, {"vcpu"}, {}, {}),
       Call("KVM_GET_VCPU_MMAP_SIZE", {}, {}, {"vcpu"}, {}),
       Call("mmap", {"page"}, {}, {}, {}),
       Call("KVM_SET_CPUID2", {}, {}, {"vcpu"}, {}) >>

\* ReportQEMUVersion, which follows, may fail without consequence.
HaxmVMCalls ==
    << Call("HAX_IOCTL_CREATE_VM", {"vm"}, {}, {}, {}),
       Call("open_vm", {}, {"vm"}, {}, {}) >>

HaxmVPCalls ==
    << Call("HAX_VM_IOCTL_VCPU_CREATE", {"vcpu"}, {}, {}, {}),
       Call("open_vcpu", {}, {"vcpu"}, {}, {}),
       Call("HAX_VCPU_IOCTL_SETUP_TUNNEL", {}, {}, {"vcpu"}, {}) >>

\* The failures of the two lists leave the partition to the destructor; the others
\* give its handle to CloseHandle, which does not delete a partition.
WhpxVMCalls ==
    << Call("WHvCreatePartition", {"vm"}, {"vm"}, {}, {}),
       Call("ProcessorCount", {}, {}, {}, {"vm"}),
       Call("ExtendedVmExits", {}, {}, {}, {"vm"}),
       Call("CpuidExitList", {}, {}, {}, {}),
       Call("ExceptionExitBitmap", {}, {}, {}, {"vm"}),
       Call("CpuidResultList", {}, {}, {}, {}),
       Call("WHvSetupPartition", {}, {}, {}, {"vm"}) >>

WhpxVPCalls ==
    << Call("WHvCreateVirtualProcessor", {"vcpu"}, {"vcpu"}, {}, {}),
       Call("WHvEmulatorCreateEmulator", {"emulator"}, {"emulator"}, {"vcpu"}, {}),
       Call("WHvSetVirtualProcessorRegisters", {}, {}, {"emulator", "vcpu"}, {}) >>

VMCalls == CASE backend = "kvm" -> KvmVMCalls [] backend = "haxm" -> HaxmVMCalls
             [] backend = "whpx" -> WhpxVMCalls
VPCalls == CASE backend = "kvm" -> KvmVPCalls [] backend = "haxm" -> HaxmVPCalls
             [] backend = "whpx" -> WhpxVPCalls

Calls == IF at.vp = 0 THEN VMCalls ELSE VPCalls
ThisCall == Calls[at.call]

Names(calls) == {calls[n].name : n \in DOMAIN calls}

\* What Initialize of the VM does when that of a VP failed.
AfterFailedVP ==
    CASE backend = "kvm"  -> [closes |-> {}, forgets |-> {}]
      [] backend = "haxm" -> [closes |-> {"vm"}, forgets |-> {}]
      [] backend = "whpx" -> [closes |-> {}, forgets |-> {"vm"}]

-----------------------------------------------------------------------------
(* Releasing, for sets of machines and of their processors: they share       *)
(* nothing, so that the order among them makes no difference.  What is       *)
(* released before what of one machine does.                                 *)

Objects(kinds, vs, is) == {Object(kind, v, i) : kind \in kinds, v \in vs, i \in is}

\* KVM (external): a file that is mapped outlives its descriptor, and a VM its VCPUs.
Pinned(s, o) ==
    \E p \in s.kernel : p.kind = "page" /\ p.vm = o.vm /\ (o.kind = "vcpu" => p.vp = o.vp)

\* The VCPUs of a machine.
VCPUsOf(s, o) == {p \in s.kernel : o.kind = "vm" /\ p.kind = "vcpu" /\ p.vm = o.vm}

\* The hypervisor lets go of objects whose handles are closed, and with a VM of the
\* VCPUs nobody has a handle to (external).
Close(s, closed) ==
    LET gone == {o \in closed : ~Pinned(s, o)}
        orphans == {p \in s.kernel \ s.handles : \E o \in gone : p \in VCPUsOf(s, o)}
        early == \E o \in closed : VCPUsOf(s, o) \cap s.handles # {}
    IN [kernel |-> s.kernel \ (gone \cup orphans),
        handles |-> s.handles \ closed,
        misuse |-> s.misuse \cup (IF early THEN {"vm_before_vcpus"} ELSE {})]

Forget(s, forgotten) ==
    [kernel |-> s.kernel, handles |-> s.handles \ forgotten, misuse |-> s.misuse]

\* The objects of the given kinds, if the program has a handle to them.
CloseAll(s, kinds, vs, is) == Close(s, Objects(kinds, vs, is) \cap s.handles)
ForgetAll(s, kinds, v) == Forget(s, Objects(kinds, {v}, {0}))

\* WHvDeleteVirtualProcessor takes the partition's handle and is called in any case.
DeleteVirtualProcessor(s, vs, is) ==
    LET vcpus == Objects({"vcpu"}, vs, is)
        valid == {o \in vcpus : Object("vm", o.vm, 0) \in s.handles /\ o \in s.kernel}
        bad == (IF vcpus # {} /\ Device \notin s.handles THEN {"table_deleted"} ELSE {})
                  \cup (IF valid = vcpus THEN {} ELSE {"no_such_processor"})
        t == Forget(Close(s, valid), vcpus)
    IN [kernel |-> t.kernel, handles |-> t.handles, misuse |-> t.misuse \cup bad]

\* The destructor of virtual processors.  KVM's does not unmap the kvm_run page.
DestroyVP(s, vs, is) ==
    IF backend = "whpx"
    THEN DeleteVirtualProcessor(CloseAll(s, {"emulator"}, vs, is), vs, is)
    ELSE CloseAll(s, {"vcpu"}, vs, is)

\* DestroyVPs: the processors that were registered.
DestroyVPs(s, vs, n) == DestroyVP(s, vs, 1 .. n)

\* Mutant: the machine is released before its processors.
DestroyVM_VMFirst(s, vs, n) == DestroyVPs(CloseAll(s, {"vm"}, vs, {0}), vs, n)

\* The destructor of virtual machines with n registered processors.
DestroyVM(s, vs, n) == CloseAll(DestroyVPs(s, vs, n), {"vm"}, vs, {0})

\* DestroyVMs: the machines in m_vms.
DestroyVMs(s) == DestroyVM(s, {v \in VMs : fate[v] = "live"}, NumProcessors)

-----------------------------------------------------------------------------

\* The platform's constructor: the statuses it can end with, and whether the device
\* is open, or the dispatch table loaded, then.  A failed capability call of WHPX is
\* forgotten when m_initStatus becomes OK; only the last two are not.
Constructed ==
    CASE backend = "kvm"  -> {<<"Unavailable", FALSE>>, <<"Unsupported", TRUE>>,
                              <<"Failed", TRUE>>, <<"OK", TRUE>>}
      [] backend = "haxm" -> {<<"Unavailable", FALSE>>, <<"Failed", FALSE>>,
                              <<"Unsupported", TRUE>>, <<"OK", TRUE>>}
      [] backend = "whpx" -> {<<"Failed", FALSE>>, <<"Unavailable", FALSE>>,
                              <<"Unavailable", TRUE>>, <<"Failed", TRUE>>, <<"OK", TRUE>>}

ConstructPlatform ==
    /\ platform = "none"
    /\ \E c \in Constructed :
          /\ initStatus' = c[1]
          /\ sys' = IF c[2] THEN [sys EXCEPT !.kernel = @ \cup {Device},
                                             !.handles = @ \cup {Device}] ELSE sys
    /\ platform' = "up"
    /\ UNCHANGED <<backend, fate, at>>

\* CreateVM does not look at m_initStatus.  Without the table WHPX has no function to
\* call: an application must not come here then.
CreateVM(v) ==
    /\ platform = "up" /\ at = Idle /\ fate[v] = "unused"
    /\ backend = "whpx" => Device \in sys.handles
    /\ fate' = [fate EXCEPT ![v] = "creating"]
    /\ at' = [vm |-> v, vp |-> 0, call |-> 1]
    /\ UNCHANGED <<backend, initStatus, platform, sys>>

\* The next call of Initialize: of this object, of the next VP, which follows once the
\* last one is registered, or CreateVM appends the machine to m_vms.
Advance ==
    IF at.call < Len(Calls)
    THEN at' = [at EXCEPT !.call = @ + 1] /\ UNCHANGED fate
    ELSE IF at.vp < NumProcessors
    THEN at' = [at EXCEPT !.vp = @ + 1, !.call = 1] /\ UNCHANGED fate
    ELSE at' = Idle /\ fate' = [fate EXCEPT ![at.vm] = "live"]

CallSucceeds ==
    /\ at # Idle
    /\ at.vp = 0 /\ at.call = 1 => Device \in sys.handles
    /\ sys' = [sys EXCEPT !.kernel = @ \cup Objects(ThisCall.creates, {at.vm}, {at.vp}),
                          !.handles = @ \cup Objects(ThisCall.opens, {at.vm}, {at.vp})]
    /\ Advance
    /\ UNCHANGED <<backend, initStatus, platform>>

\* m_kvmRun < 0 is never true: a failure of mmap is not noticed.
MmapFails ==
    /\ at # Idle /\ ThisCall.name = "mmap"
    /\ Advance
    /\ UNCHANGED <<backend, initStatus, platform, sys>>

\* A call of Initialize failed: it takes back what it does, Initialize of the VM
\* likewise, and then the VP and the VM are destroyed.
Unwound ==
    LET first == ForgetAll(CloseAll(sys, ThisCall.closes, {at.vm}, {at.vp}),
                           ThisCall.forgets, at.vm)
        second == ForgetAll(CloseAll(first, AfterFailedVP.closes, {at.vm}, {0}),
                            AfterFailedVP.forgets, at.vm)
    IN IF at.vp = 0 THEN DestroyVM(first, {at.vm}, 0)
       ELSE DestroyVM(DestroyVP(second, {at.vm}, {at.vp}), {at.vm}, at.vp - 1)

\* Mutant: the result of the processor's Initialize is not looked at.
CallFails_Ignored ==
    /\ at # Idle /\ ThisCall.name # "mmap"
    /\ IF at.vp = 0
       THEN sys' = Unwound /\ at' = Idle /\ fate' = [fate EXCEPT ![at.vm] = ThisCall.name]
       ELSE sys' = CloseAll(sys, ThisCall.closes, {at.vm}, {at.vp}) /\ Advance
    /\ UNCHANGED <<backend, initStatus, platform>>

CallFails ==
    /\ at # Idle /\ ThisCall.name # "mmap"
    /\ sys' = Unwound
    /\ fate' = [fate EXCEPT ![at.vm] = ThisCall.name]
    /\ at' = Idle
    /\ UNCHANGED <<backend, initStatus, platform>>

FreeVM(v) ==
    /\ platform = "up" /\ at = Idle /\ fate[v] = "live"
    /\ sys' = DestroyVM(sys, {v}, NumProcessors)
    /\ fate' = [fate EXCEPT ![v] = "freed"]
    /\ UNCHANGED <<backend, initStatus, platform, at>>

\* The platform's destructor: WHPX's destroys the machines only if m_initStatus is OK,
\* otherwise they are destroyed with m_vms, after the dispatch table.
DestroyedPlatform ==
    LET Release(s) == [kernel |-> s.kernel \ {Device}, handles |-> s.handles \ {Device},
                       misuse |-> s.misuse]
    IN IF backend = "whpx" /\ initStatus # "OK" THEN DestroyVMs(Release(sys))
       ELSE Release(DestroyVMs(sys))

DestroyPlatform ==
    /\ platform = "up" /\ at = Idle
    /\ platform' = "down"
    /\ sys' = DestroyedPlatform
    /\ fate' = [v \in VMs |-> IF fate[v] = "live" THEN "freed" ELSE fate[v]]
    /\ UNCHANGED <<backend, initStatus, at>>

LifeInit ==
    /\ backend \in Backends
    /\ initStatus = "Uninitialized" /\ platform = "none"
    /\ sys = [kernel |-> {}, handles |-> {}, misuse |-> {}]
    /\ fate = [v \in VMs |-> "unused"]
    /\ at = Idle

-----------------------------------------------------------------------------
(* Properties *)

Gone == {v \in VMs : fate[v] \notin {"unused", "creating", "live"}}

\* The calls whose failure makes WHPX lose the partition.
Forgetting ==
    Names(WhpxVPCalls) \cup {"ProcessorCount", "ExtendedVmExits", "ExceptionExitBitmap",
                             "WHvSetupPartition"}

\* No handle to an object of the machine is left, and no object but those that are known
\* to leak.
IsReleased(v) ==
    /\ \A o \in sys.handles : o.vm # v
    /\ CASE backend = "kvm"  -> \A o \in ObjectsOf(v) : Pinned(sys, o)
         [] backend = "haxm" -> ObjectsOf(v) # {} => fate[v] = "open_vm"
         [] backend = "whpx" -> ObjectsOf(v) # {} =>
               fate[v] \in Forgetting /\ \A o \in ObjectsOf(v) : o.kind # "emulator"

\* Once a machine is freed, or its creation failed at any call, no handle to any of its
\* objects is left, and no object either but for: on KVM what a mapped kvm_run page keeps
\* (kvm_vp.cpp:66 does not unmap it), on HAXM a machine that could not be opened, on WHPX
\* a partition whose handle was given to CloseHandle, with its processors.
GoneIsReleased == \A v \in Gone : IsReleased(v)

\* No call is made with a handle that was closed or reset, or through a deleted table,
\* and a machine is released after its processors, as long as every processor that was
\* tried could be initialized and, on WHPX, m_initStatus is OK.
CallsAreValid ==
    sys.misuse # {} =>
        \/ backend = "haxm" /\ \E v \in Gone : fate[v] \in Names(HaxmVPCalls)
        \/ backend = "whpx" /\ \E v \in Gone : fate[v] \in Names(WhpxVPCalls)
        \/ backend = "whpx" /\ platform = "down" /\ initStatus # "OK"

\* A machine in m_vms has all its processors, with their handles, and the device it was
\* created with is open, whatever failed for other machines before and after; only the
\* kvm_run page may be missing.
LiveIsComplete ==
    \A v \in VMs : fate[v] = "live" =>
        /\ {Device, Object("vm", v, 0)} \subseteq (sys.handles \cap sys.kernel)
        /\ \A i \in 1 .. NumProcessors :
              /\ Object("vcpu", v, i) \in (sys.handles \cap sys.kernel)
              /\ backend = "whpx" => Object("emulator", v, i) \in (sys.handles \cap sys.kernel)

=============================================================================
