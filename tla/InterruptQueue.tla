-------------------------- MODULE InterruptQueue --------------------------
(***************************************************************************)
(* The interrupt queue of a virt86::VirtualProcessor (core/src/vp/vp.cpp). *)
(* Any thread may call EnqueueInterrupt; the thread that runs the virtual  *)
(* processor takes vectors off the queue at the start of Run and Step and  *)
(* hands them to the hypervisor.  The queue is protected by a mutex, but   *)
(* HandleInterruptQueue and InjectPendingInterrupt look at its size without *)
(* taking it.                                                              *)
(*                                                                         *)
(* A request is its number, counted as the requests enter the queue, so    *)
(* that loss, duplication and reordering show; 0 stands for no request.    *)
(*                                                                         *)
(* "tunnel" is the KVM and HAXM backends, which share flags with the kernel *)
(* (kvm_run, the HAXM tunnel); "whpx" is Windows Hypervisor Platform.      *)
(***************************************************************************)
EXTENDS Integers, Sequences

CONSTANTS
    Enqueuers,      \* the threads that call EnqueueInterrupt
    Backends,       \* of "tunnel" and "whpx"
    MaxRequests     \* bound: requests made in a behaviour

ASSUME BackendAssumption == Backends \subseteq {"tunnel", "whpx"}

ASSUME ThreadAssumption ==
    /\ "runner" \notin Enqueuers
    /\ "free" \notin Enqueuers
    /\ MaxRequests \in Nat

VARIABLES
    backend,    \* the subclass of VirtualProcessor
    queue,      \* m_pendingInterrupts
    mutex,      \* m_interruptMutex: "free", "runner" or an enqueuer
    epc,        \* where each enqueuer is in EnqueueInterrupt
    rpc,        \* where the runner is in Run
    taking,     \* the vector local to InjectPendingInterrupt
    slot,       \* the interrupt the hypervisor holds for the guest
    ready,      \* ready_for_interrupt_injection, written by the kernel on exit
    window,     \* request_interrupt_window
    cancel,     \* WHPX: a cancellation no run has consumed yet
    open,       \* the guest can take an interrupt
    requests,   \* history: how many requests entered the queue
    delivered,  \* history: the requests the guest received
    failed      \* history: InjectInterrupt failed, or RunImpl did while the hypervisor
                \* held a vector and ready was set

shared  == <<queue, mutex, epc, requests>>
hyper   == <<slot, ready, window, cancel, open, delivered>>
still   == <<backend, failed>>
vars    == <<still, shared, rpc, taking, hyper>>

None == 0

-----------------------------------------------------------------------------
(* EnqueueInterrupt, in the thread e *)

\* lock_guard.  From here to Push the queue may be being written.
Lock(e) ==
    /\ epc[e] = "idle" /\ mutex = "free"
    /\ requests < MaxRequests
    /\ mutex' = e
    /\ epc' = [epc EXCEPT ![e] = "push"]
    /\ UNCHANGED <<still, queue, requests, rpc, taking, hyper>>

\* m_pendingInterrupts.push(vector).
Push(e) ==
    /\ epc[e] = "push"
    /\ requests' = requests + 1
    /\ queue' = Append(queue, requests')
    /\ epc' = [epc EXCEPT ![e] = "prepare"]
    /\ UNCHANGED <<still, mutex, rpc, taking, hyper>>

\* PrepareInterrupt does nothing on KVM and HAXM.  WHPX cancels the run in
\* progress, or the next one; the call may fail, which EnqueueInterrupt returns.
PrepareInterrupt ==
    IF backend = "tunnel" THEN UNCHANGED cancel ELSE cancel' \in {cancel, TRUE}

\* PrepareInterrupt, and the lock is released.
Prepare(e) ==
    /\ epc[e] = "prepare"
    /\ PrepareInterrupt
    /\ mutex' = "free"
    /\ epc' = [epc EXCEPT ![e] = "idle"]
    /\ UNCHANGED <<still, queue, requests, rpc, taking, slot, ready, window, open, delivered>>

-----------------------------------------------------------------------------
(* Run, in the runner's thread *)

\* Mutant: the size is not read.
SizeIsPositive_Unread(seen) == seen \in BOOLEAN

\* The size of the queue read without the mutex: while a push is in progress the
\* read races with it and may see anything.
SizeIsPositive(seen) ==
    IF \E e \in Enqueuers : epc[e] = "push" THEN seen \in BOOLEAN
    ELSE seen = (queue # << >>)

Goto(from, to) == rpc = from /\ rpc' = to

\* The application calls Run (or Step, on platforms that can).
CallRun ==
    /\ Goto("idle", "check")
    /\ UNCHANGED <<still, shared, taking, hyper>>

\* HandleInterruptQueue: is anything pending?
Check ==
    /\ \/ SizeIsPositive(TRUE) /\ Goto("check", "canInject")
       \/ SizeIsPositive(FALSE) /\ Goto("check", "run")
    /\ UNCHANGED <<still, shared, taking, hyper>>

\* Mutant: the flag the kernel writes is not looked at.
CanInjectInterrupt_Always == TRUE

CanInjectInterrupt == IF backend = "tunnel" THEN ready ELSE TRUE

\* Mutant: no window is asked for.
RequestInterruptWindow_Never == UNCHANGED window

RequestInterruptWindow == window' = (IF backend = "tunnel" THEN TRUE ELSE window)

\* HandleInterruptQueue: inject, or ask for a window.
CanInject ==
    \/ /\ Goto("canInject", "recheck")
       /\ CanInjectInterrupt
       /\ UNCHANGED <<still, shared, taking, hyper>>
    \/ /\ Goto("canInject", "run")
       /\ ~CanInjectInterrupt
       /\ RequestInterruptWindow
       /\ UNCHANGED <<still, shared, taking, slot, ready, cancel, open, delivered>>

\* InjectPendingInterrupt: is anything pending?
Recheck ==
    /\ \/ SizeIsPositive(TRUE) /\ Goto("recheck", "lock")
       \/ SizeIsPositive(FALSE) /\ Goto("recheck", "run")
    /\ UNCHANGED <<still, shared, taking, hyper>>

\* lock_guard.
LockQueue ==
    /\ Goto("lock", "pop")
    /\ mutex = "free"
    /\ mutex' = "runner"
    /\ UNCHANGED <<still, queue, epc, requests, taking, hyper>>

\* Mutant: the newest request is taken.
Pop_Newest ==
    /\ Goto("pop", "inject")
    /\ taking' = queue[Len(queue)]
    /\ queue' = SubSeq(queue, 1, Len(queue) - 1)
    /\ UNCHANGED <<still, mutex, epc, requests, hyper>>

\* Mutant: front() without pop().
Pop_Peek ==
    /\ Goto("pop", "inject")
    /\ taking' = Head(queue)
    /\ UNCHANGED <<still, queue, mutex, epc, requests, hyper>>

\* front() and pop().
Pop ==
    /\ Goto("pop", "inject")
    /\ taking' = Head(queue)
    /\ queue' = Tail(queue)
    /\ UNCHANGED <<still, mutex, epc, requests, hyper>>

\* The hypervisor takes the vector and replaces the one it still holds, if any, or the
\* call fails.  KVM and HAXM withdraw the request for a window on success.
InjectInterrupt ==
    \/ /\ slot' = taking
       /\ window' = (IF backend = "tunnel" THEN FALSE ELSE window)
       /\ UNCHANGED failed
    \/ failed' = TRUE /\ UNCHANGED <<slot, window>>

\* InjectInterrupt's result is not looked at; the lock is released.
Inject ==
    /\ Goto("inject", "run")
    /\ InjectInterrupt
    /\ taking' = None
    /\ mutex' = "free"
    /\ UNCHANGED <<backend, queue, epc, requests, ready, cancel, open, delivered>>

-----------------------------------------------------------------------------
(* RunImpl and the hypervisor (external, as the backends use it)            *)

\* RunImpl returns Failed before the guest is entered: UpdateRegisters or the
\* ioctl failed.  The kernel has not written the shared flags: ready may still say that
\* it can take a vector although it was given one.
FailRun ==
    /\ Goto("run", "idle")
    /\ failed' = (failed \/ (ready /\ slot # None))
    /\ UNCHANGED <<backend, shared, taking, hyper>>

EnterGuest ==
    /\ Goto("run", "guest")
    /\ ~cancel
    /\ UNCHANGED <<still, shared, taking, hyper>>

\* The application masks or unmasks interrupts by a write to RFLAGS between two runs;
\* ready is not written.
WriteFlags ==
    /\ rpc = "idle"
    /\ open' = ~open
    /\ UNCHANGED <<still, shared, rpc, taking, slot, ready, window, cancel, delivered>>

\* The guest masks or unmasks interrupts.
Toggle ==
    /\ rpc = "guest"
    /\ open' = ~open
    /\ UNCHANGED <<still, shared, rpc, taking, slot, ready, window, cancel, delivered>>

\* The guest takes the interrupt the hypervisor holds.
Deliver ==
    /\ rpc = "guest" /\ open /\ slot # None
    /\ delivered' = Append(delivered, slot)
    /\ slot' = None
    /\ open' = FALSE
    /\ UNCHANGED <<still, shared, rpc, taking, ready, window, cancel>>

\* On every exit the kernel says whether it could take an interrupt now.
Exit ==
    /\ rpc' = "idle"
    /\ ready' = (open /\ slot = None)
    /\ UNCHANGED <<still, shared, taking, slot, window, open, delivered>>

\* The exit RequestInterruptWindow asks for.
WindowExit ==
    /\ rpc = "guest" /\ window /\ open /\ slot = None
    /\ Exit
    /\ UNCHANGED cancel

\* HLT, port I/O, MMIO, a signal, ...
OtherExit ==
    /\ rpc = "guest"
    /\ Exit
    /\ UNCHANGED cancel

\* WHvRunVirtualProcessor returns Canceled, at once if it was cancelled before.
CancelExit ==
    /\ rpc \in {"run", "guest"} /\ cancel
    /\ Exit
    /\ cancel' = FALSE

-----------------------------------------------------------------------------

Init ==
    /\ backend \in Backends /\ failed = FALSE
    /\ queue = << >> /\ mutex = "free" /\ requests = 0
    /\ epc = [e \in Enqueuers |-> "idle"]
    /\ rpc = "idle" /\ taking = None
    /\ slot = None /\ ready = FALSE /\ window = FALSE /\ cancel = FALSE
    /\ open = FALSE /\ delivered = << >>

\* The steps the runner's thread takes between entering Run and the guest.
RunSteps == Check \/ CanInject \/ Recheck \/ LockQueue \/ Pop \/ Inject \/ EnterGuest

Next ==
    \/ \E e \in Enqueuers : Lock(e) \/ Push(e) \/ Prepare(e)
    \/ CallRun \/ RunSteps \/ FailRun
    \/ WriteFlags \/ Toggle \/ Deliver \/ WindowExit \/ OtherExit \/ CancelExit

\* Threads that are not blocked go on, the hypervisor acts on what it was asked to do, and
\* a guest that keeps running keeps unmasking interrupts.  Nothing makes the guest exit,
\* and nothing makes the application call Run.
Fairness ==
    /\ \A e \in Enqueuers : WF_vars(Push(e)) /\ WF_vars(Prepare(e))
    /\ WF_vars(RunSteps)
    /\ SF_vars(Toggle) /\ SF_vars(Deliver) /\ SF_vars(WindowExit) /\ WF_vars(CancelExit)

Spec == Init /\ [][Next]_vars /\ Fairness

-----------------------------------------------------------------------------
(* Properties *)

TypeOK ==
    /\ backend \in Backends /\ failed \in BOOLEAN
    /\ queue \in Seq(1 .. requests)
    /\ mutex \in Enqueuers \cup {"free", "runner"}
    /\ epc \in [Enqueuers -> {"idle", "push", "prepare"}]
    /\ rpc \in {"idle", "check", "canInject", "recheck", "lock", "pop", "inject",
                "run", "guest"}
    /\ taking \in 0 .. requests /\ slot \in 0 .. requests
    /\ ready \in BOOLEAN /\ window \in BOOLEAN /\ cancel \in BOOLEAN
    /\ open \in BOOLEAN
    /\ requests \in Nat
    /\ delivered \in Seq(1 .. requests)

\* A request, or none, as a sequence.
Opt(r) == IF r = None THEN << >> ELSE <<r>>

\* front() is never called on an empty queue, although its size was read twice
\* without the mutex while other threads pushed.
NeverPopsEmpty == rpc = "pop" => queue # << >>

\* KVM and HAXM, until an injection failed, which nobody looks at (vp.cpp:831), or a run
\* did that left ready set for a vector already taken.
Lossless == backend = "tunnel" /\ ~failed

\* Until such a failure every request is in exactly one place, and they are in the order
\* they came: with the guest, held by the hypervisor, in InjectPendingInterrupt's hands or
\* in the queue (vp.hpp:21-22: enqueued interrupts will be injected).  It rests on ready,
\* a flag of the last exit, still being right when the vector is injected: other runs
\* fail, threads push and the application writes RFLAGS in between.
NothingLost ==
    Lossless => delivered \o Opt(slot) \o Opt(taking) \o queue = [i \in 1 .. requests |-> i]

\* The guest gets requests in the order they were queued, and none twice.
DeliveredInOrder ==
    \A i, j \in 1 .. Len(delivered) : i < j => delivered[i] < delivered[j]

\* The pending requests of the promise are those the hypervisor holds, then the one in
\* InjectPendingInterrupt's hands, then the queue.
Channel == INSTANCE InterruptChannel
               WITH pending <- Opt(slot) \o Opt(taking) \o queue, received <- delivered

\* EnqueueInterrupt, HandleInterruptQueue and InjectPendingInterrupt, with their four
\* flags, a mutex and two reads outside it, are a channel on KVM and HAXM until such a
\* failure: every step accepts one request, hands the oldest to the guest, or shows
\* nothing (vp.hpp:21-22).
ImplementsChannel == Channel!Init /\ [][Lossless' => Channel!Next]_(Channel!vars)

\* If the guest is entered and Run returns again and again, the queue does not keep a
\* request for ever, whatever the exits are and whichever runs fail: a window is asked for
\* when the vector cannot be injected, and the request outlives exits of other kinds.
\* That Run returns is up to the guest on KVM and HAXM, whose PrepareInterrupt does nothing
\* (kvm_vp.cpp:351, haxm_vp.cpp:244), although vp.hpp:22-23 says that the implementation will
\* "cancel VCPU execution as needed".
QueueDrains ==
    []<>(rpc = "guest") /\ []<>(rpc = "idle") => (queue # << >> ~> queue = << >>)

=============================================================================
