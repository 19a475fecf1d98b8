------------------------ MODULE InterruptQueueProofs ------------------------
(***************************************************************************)
(* Proofs about InterruptQueue, for any number of threads that enqueue and *)
(* any number of requests.                                                 *)
(***************************************************************************)
EXTENDS InterruptQueue, SequenceTheorems, TLAPS

\* Whoever is inside a critical section holds the mutex, and nobody else does.
MutexInv ==
    /\ \A e \in Enqueuers : epc[e] # "idle" <=> mutex = e
    /\ mutex = "runner" <=> rpc \in {"pop", "inject"}

\* Once the runner saw a request there is one, or one is being pushed.
SeenInv ==
    /\ rpc \in {"canInject", "recheck", "lock"} =>
          queue # << >> \/ \E e \in Enqueuers : epc[e] = "push"
    /\ rpc = "pop" => queue # << >>

\* The runner holds a vector exactly while it injects it.
TakingInv == taking # None <=> rpc = "inject"

\* The part of the invariant that holds on every backend.
QueueInv == TypeOK /\ MutexInv /\ SeenInv /\ TakingInv

\* With KVM and HAXM the flag the kernel wrote on the last exit is still right until the
\* vector is injected, unless a run failed that left it wrong.
ReadyInv ==
    Lossless =>
        /\ rpc \in {"idle", "check", "canInject"} /\ ready => slot = None
        /\ rpc \in {"recheck", "lock", "pop", "inject"} => slot = None

-----------------------------------------------------------------------------
(* Type correctness *)

\* A sequence of requests is one of more requests.
LEMMA SeqGrows ==
    ASSUME NEW n \in Nat, NEW s \in Seq(1 .. n)
    PROVE  s \in Seq(1 .. (n + 1))
  <1>1. 1 .. n \subseteq 1 .. (n + 1)
    OBVIOUS
  <1>2. QED
    BY <1>1, SeqMonotonic

\* Appending keeps the type of a sequence.
LEMMA AppendType ==
    ASSUME NEW S, NEW s \in Seq(S), NEW x \in S
    PROVE  Append(s, x) \in Seq(S)
  BY AppendProperties

\* The head and the tail of a sequence that is not empty.
LEMMA HeadTailType ==
    ASSUME NEW S, NEW s \in Seq(S), s # << >>
    PROVE  Head(s) \in S /\ Tail(s) \in Seq(S)
  BY HeadTailProperties

\* The initial state has its types and satisfies the invariant.
LEMMA InitQueueInv == Init => QueueInv
  <1> SUFFICES ASSUME Init PROVE QueueInv
    OBVIOUS
  <1>1. TypeOK
    <2>1. queue \in Seq(1 .. requests) /\ delivered \in Seq(1 .. requests)
      BY EmptySeq DEF Init
    <2>2. requests \in Nat /\ taking \in 0 .. requests /\ slot \in 0 .. requests
      BY DEF Init, None
    <2>3. QED
      BY <2>1, <2>2 DEF Init, TypeOK
  <1>2. MutexInv
    BY ThreadAssumption DEF Init, MutexInv
  <1>3. QED
    BY <1>1, <1>2 DEF Init, QueueInv, SeenInv, TakingInv

\* EnqueueInterrupt, step by step.
LEMMA EnqueueStep ==
    ASSUME QueueInv, NEW e \in Enqueuers, Lock(e) \/ Push(e) \/ Prepare(e)
    PROVE  QueueInv'
  <1> USE DEF QueueInv
  <1>1. CASE Lock(e)
    <2>1. TypeOK'
      BY <1>1 DEF still, Lock, TypeOK, hyper
    <2>2. MutexInv'
      BY <1>1, ThreadAssumption DEF Lock, MutexInv, TypeOK
    <2>3. SeenInv'
      BY <1>1 DEF Lock, SeenInv, MutexInv, TypeOK
    <2>4. QED
      BY <1>1, <2>1, <2>2, <2>3 DEF Lock, TakingInv
  <1>2. CASE Push(e)
    <2>0. requests \in Nat /\ requests' = requests + 1 /\ requests' \in 1 .. requests'
      BY <1>2 DEF Push, TypeOK
    <2>1. queue' \in Seq(1 .. requests') /\ delivered' \in Seq(1 .. requests')
      <3>1. queue \in Seq(1 .. requests') /\ delivered \in Seq(1 .. requests')
        BY <2>0, SeqGrows DEF TypeOK
      <3>2. QED
        BY <1>2, <2>0, <3>1, AppendType DEF Push, hyper
    <2>2. taking' \in 0 .. requests' /\ slot' \in 0 .. requests'
      BY <1>2, <2>0 DEF Push, TypeOK, hyper
    <2>3. TypeOK'
      BY <1>2, <2>0, <2>1, <2>2 DEF still, Push, TypeOK, hyper
    <2>4. MutexInv'
      BY <1>2 DEF Push, MutexInv, TypeOK
    <2>5. queue' # << >>
      <3>1. queue' = Append(queue, requests + 1)
        BY <1>2 DEF Push
      <3>2. queue \in Seq(1 .. requests) /\ Len(queue) \in Nat
        BY DEF TypeOK
      <3>3. Len(queue') = Len(queue) + 1
        BY <3>1, <3>2
      <3>4. QED
        BY <3>2, <3>3
    <2>6. QED
      BY <1>2, <2>3, <2>4, <2>5 DEF Push, SeenInv, TakingInv
  <1>3. CASE Prepare(e)
    <2>1. TypeOK'
      BY <1>3 DEF still, Prepare, PrepareInterrupt, TypeOK
    <2>2. MutexInv'
      BY <1>3, ThreadAssumption DEF Prepare, MutexInv, TypeOK
    <2>3. SeenInv'
      BY <1>3 DEF Prepare, SeenInv, TypeOK
    <2>4. QED
      BY <1>3, <2>1, <2>2, <2>3 DEF Prepare, TakingInv
  <1>4. QED
    BY <1>1, <1>2, <1>3

\* A positive size was read: there is a request or one is being pushed.
LEMMA SizeSeen ==
    ASSUME SizeIsPositive(TRUE)
    PROVE  queue # << >> \/ \E e \in Enqueuers : epc[e] = "push"
  BY DEF SizeIsPositive

\* Run up to the entry into the guest.
LEMMA RunStepsStep == QueueInv /\ RunSteps => QueueInv'
  <1> SUFFICES ASSUME QueueInv, RunSteps PROVE QueueInv'
    OBVIOUS
  <1> USE DEF QueueInv
  <1>1. CASE Check
    BY <1>1, SizeSeen
    DEF still, Check, Goto, shared, hyper, TypeOK, MutexInv, SeenInv, TakingInv
  <1>2. CASE CanInject
    <2>1. TypeOK'
      BY <1>2 DEF still, CanInject, RequestInterruptWindow, Goto, shared, hyper, TypeOK
    <2>2. QED
      BY <1>2, <2>1 DEF CanInject, Goto, shared, hyper, MutexInv, SeenInv, TakingInv
  <1>3. CASE Recheck
    BY <1>3, SizeSeen
    DEF still, Recheck, Goto, shared, hyper, TypeOK, MutexInv, SeenInv, TakingInv
  <1>4. CASE LockQueue
    <2>1. TypeOK' /\ TakingInv'
      BY <1>4 DEF still, LockQueue, Goto, hyper, TypeOK, TakingInv
    <2>2. MutexInv'
      BY <1>4, ThreadAssumption DEF LockQueue, Goto, MutexInv
    <2>3. \A e \in Enqueuers : epc[e] # "push"
      BY <1>4, ThreadAssumption DEF LockQueue, MutexInv
    <2>4. queue # << >>
      BY <1>4, <2>3 DEF LockQueue, Goto, SeenInv
    <2>5. QED
      BY <1>4, <2>1, <2>2, <2>4 DEF LockQueue, Goto, SeenInv
  <1>5. CASE Pop
    <2>1. Head(queue) \in 1 .. requests /\ Tail(queue) \in Seq(1 .. requests)
      BY <1>5, HeadTailType DEF Pop, Goto, SeenInv, TypeOK
    <2>2. taking' \in 1 .. requests /\ taking' # None /\ requests \in Nat
      BY <1>5, <2>1 DEF Pop, None, TypeOK
    <2>3. TypeOK'
      BY <1>5, <2>1, <2>2 DEF still, Pop, Goto, hyper, TypeOK
    <2>4. QED
      BY <1>5, <2>2, <2>3 DEF Pop, Goto, MutexInv, SeenInv, TakingInv
  <1>6. CASE Inject
    <2>a. window' \in BOOLEAN /\ failed' \in BOOLEAN
      <3>1. window' \in {TRUE, FALSE, window} /\ failed' \in {TRUE, failed}
        BY <1>6 DEF Inject, InjectInterrupt
      <3>2. QED
        BY <3>1, Zenon DEF TypeOK
    <2>b. slot' \in 0 .. requests /\ taking' \in 0 .. requests
      <3>1. slot' \in {slot, taking} /\ taking' = 0
        BY <1>6 DEF Inject, InjectInterrupt, None
      <3>2. slot \in 0 .. requests /\ taking \in 0 .. requests /\ requests \in Nat
        BY DEF TypeOK
      <3>3. QED
        BY <3>1, <3>2
    <2>1. TypeOK'
      BY <1>6, <2>a, <2>b DEF still, Inject, Goto, TypeOK
    <2>2. QED
      BY <1>6, <2>1, ThreadAssumption DEF Inject, Goto, MutexInv, SeenInv, TakingInv
  <1>7. CASE EnterGuest
    BY <1>7 DEF still, EnterGuest, Goto, shared, hyper, TypeOK, MutexInv, SeenInv, TakingInv
  <1>8. QED
    BY <1>1, <1>2, <1>3, <1>4, <1>5, <1>6, <1>7 DEF RunSteps

\* Every step of any thread keeps the invariant.
LEMMA NextQueueInv == QueueInv /\ [Next]_vars => QueueInv'
  <1> SUFFICES ASSUME QueueInv, [Next]_vars PROVE QueueInv'
    OBVIOUS
  <1> USE DEF QueueInv
  <1>1. ASSUME NEW e \in Enqueuers, Lock(e) \/ Push(e) \/ Prepare(e) PROVE QueueInv'
    BY <1>1, EnqueueStep
  <1>2. CASE RunSteps
    BY <1>2, RunStepsStep
  <1>3. CASE CallRun \/ FailRun
    <2>1. failed' \in BOOLEAN
      BY <1>3 DEF still, CallRun, FailRun, TypeOK
    <2>2. QED
      BY <1>3, <2>1
      DEF still, CallRun, FailRun, Goto, shared, hyper, TypeOK, MutexInv, SeenInv, TakingInv
  <1>4. CASE WriteFlags \/ Toggle
    BY <1>4 DEF still, WriteFlags, Toggle, shared, TypeOK, MutexInv, SeenInv, TakingInv
  <1>5. CASE Deliver
    <2>1. slot \in 1 .. requests
      BY <1>5 DEF Deliver, TypeOK, None
    <2>2. delivered' \in Seq(1 .. requests)
      BY <1>5, <2>1, AppendType DEF Deliver, TypeOK
    <2>0. slot' \in 0 .. requests
      BY <1>5 DEF Deliver, TypeOK, None
    <2>3. TypeOK'
      BY <1>5, <2>0, <2>2 DEF still, Deliver, shared, TypeOK
    <2>4. QED
      BY <1>5, <2>3 DEF Deliver, shared, MutexInv, SeenInv, TakingInv
  <1>6. CASE WindowExit \/ OtherExit \/ CancelExit
    <2>0. ready' \in BOOLEAN /\ cancel' \in BOOLEAN
      BY <1>6 DEF WindowExit, OtherExit, CancelExit, Exit, TypeOK
    <2>1. TypeOK'
      BY <1>6, <2>0 DEF still, WindowExit, OtherExit, CancelExit, Exit, shared, TypeOK
    <2>2. QED
      BY <1>6, <2>1
      DEF WindowExit, OtherExit, CancelExit, Exit, shared, MutexInv, SeenInv, TakingInv
  <1>7. CASE UNCHANGED vars
    BY <1>7 DEF still, vars, shared, hyper, TypeOK, MutexInv, SeenInv, TakingInv
  <1>8. QED
    BY <1>1, <1>2, <1>3, <1>4, <1>5, <1>6, <1>7 DEF Next

\* Every variable keeps its type, on every backend.
THEOREM TypeCorrect == Spec => []TypeOK
  <1>1. QueueInv => TypeOK
    BY DEF QueueInv
  <1>2. QED
    BY <1>1, InitQueueInv, NextQueueInv, PTL DEF Spec

\* front() is never called on an empty queue, although the size was read without
\* the mutex, and read while it was being changed.
THEOREM PopsOnlyWhatIsThere == Spec => []NeverPopsEmpty
  <1>1. QueueInv => NeverPopsEmpty
    BY DEF QueueInv, SeenInv, NeverPopsEmpty
  <1>2. QED
    BY <1>1, InitQueueInv, NextQueueInv, PTL DEF Spec

-----------------------------------------------------------------------------
(* KVM and HAXM: nothing is lost *)

\* The requests 1 to n, in order.
InOrder(n) == [i \in 1 .. n |-> i]

\* A request, or none, is a sequence of requests.
LEMMA OptType ==
    ASSUME NEW n \in Nat, NEW r \in 0 .. n PROVE Opt(r) \in Seq(1 .. n)
  <1>1. CASE r = None
    BY <1>1, EmptySeq DEF Opt
  <1>2. CASE r # None
    <2>1. r \in 1 .. n
      BY <1>2 DEF None
    <2>2. <<r>> \in Seq(1 .. n)
      BY <2>1
    <2>3. QED
      BY <1>2, <2>2 DEF Opt
  <1>3. QED
    BY <1>1, <1>2

\* The requests 1 to n are a sequence, and one more goes to its end.
LEMMA InOrderGrows ==
    ASSUME NEW n \in Nat
    PROVE  InOrder(n) \in Seq(1 .. n) /\ Append(InOrder(n), n + 1) = InOrder(n + 1)
  BY DEF InOrder

\* Push puts the new request behind all others.
LEMMA PushOrder ==
    ASSUME NEW n \in Nat, NEW p \in Seq(1 .. n), NEW q \in Seq(1 .. n),
           p \o q = InOrder(n)
    PROVE  p \o Append(q, n + 1) = InOrder(n + 1)
  <1> DEFINE S == 1 .. (n + 1)
  <1>1. p \in Seq(S) /\ q \in Seq(S) /\ n + 1 \in S
    BY SeqGrows
  <1>2. <<n + 1>> \in Seq(S)
    BY <1>1
  <1>3. InOrder(n) \in Seq(S)
    BY InOrderGrows, SeqGrows
  <1> HIDE DEF S
  <1>4. Append(q, n + 1) = q \o <<n + 1>>
    BY <1>1, AppendIsConcat
  <1>5. p \o (q \o <<n + 1>>) = (p \o q) \o <<n + 1>>
    <2> DEFINE e == <<n + 1>>
    <2>1. p \in Seq(S) /\ q \in Seq(S) /\ e \in Seq(S)
      BY <1>1, <1>2
    <2> HIDE DEF e
    <2>2. p \o (q \o e) = (p \o q) \o e
      BY ONLY <2>1, ConcatAssociative
    <2>3. QED
      BY <2>2 DEF e
  <1>6. Append(InOrder(n), n + 1) = InOrder(n) \o <<n + 1>>
    BY <1>1, <1>3, AppendIsConcat
  <1>7. QED
    BY <1>4, <1>5, <1>6, InOrderGrows

\* Pop moves the oldest request of the queue in front of it.
LEMMA PopOrder ==
    ASSUME NEW S, NEW p \in Seq(S), NEW q \in Seq(S), q # << >>
    PROVE  (p \o <<Head(q)>>) \o Tail(q) = (p \o << >>) \o q
  <1>1. Head(q) \in S /\ Tail(q) \in Seq(S)
    BY HeadTailProperties
  <1>2. <<Head(q)>> \in Seq(S)
    BY <1>1
  <1>3. (p \o <<Head(q)>>) \o Tail(q) = p \o (<<Head(q)>> \o Tail(q))
    BY <1>1, <1>2, ConcatAssociative
  <1>4. <<Head(q)>> \o Tail(q) = q
    BY HeadTailProperties
  <1>5. QED
    BY <1>3, <1>4, ConcatEmptySeq

\* The invariant for KVM and HAXM.
TunnelInv == QueueInv /\ ReadyInv /\ NothingLost

\* It holds initially.
LEMMA InitTunnelInv == Init => TunnelInv
  <1> SUFFICES ASSUME Init PROVE TunnelInv
    OBVIOUS
  <1>1. NothingLost
    <2>1. Opt(slot) = << >> /\ Opt(taking) = << >> /\ queue = << >> /\ delivered = << >>
      BY DEF Init, Opt
    <2>2. << >> \o << >> \o << >> \o << >> = << >>
      BY EmptySeq, ConcatEmptySeq
    <2>3. [i \in 1 .. requests |-> i] = << >>
      BY DEF Init
    <2>4. QED
      BY <2>1, <2>2, <2>3 DEF NothingLost
  <1>2. QED
    BY <1>1, InitQueueInv DEF Init, TunnelInv, ReadyInv

\* The backend stays, and so does a failure.
LEMMA StillStep ==
    ASSUME Next
    PROVE  backend' = backend /\ (Lossless' => Lossless)
  <1>1. ASSUME UNCHANGED still PROVE backend' = backend /\ (Lossless' => Lossless)
    BY <1>1 DEF still, Lossless
  <1>2. ASSUME NEW e \in Enqueuers, Lock(e) \/ Push(e) \/ Prepare(e) PROVE UNCHANGED still
    BY <1>2 DEF Lock, Push, Prepare
  <1>3. CASE CallRun \/ Check \/ CanInject \/ Recheck \/ LockQueue \/ Pop \/ EnterGuest
    BY <1>1, <1>3 DEF CallRun, Check, CanInject, Recheck, LockQueue, Pop, EnterGuest
  <1>4. CASE Inject
    <2>1. backend' = backend /\ (failed' = failed \/ failed' = TRUE)
      BY <1>4 DEF Inject, InjectInterrupt
    <2>2. QED
      BY <2>1 DEF Lossless
  <1>5. CASE FailRun
    <2>1. backend' = backend /\ failed' = (failed \/ (ready /\ slot # None))
      BY <1>5 DEF FailRun
    <2>2. QED
      BY <2>1, Zenon DEF Lossless
  <1>6. CASE WriteFlags \/ Toggle \/ Deliver \/ WindowExit \/ OtherExit \/ CancelExit
    BY <1>1, <1>6 DEF WriteFlags, Toggle, Deliver, WindowExit, OtherExit, CancelExit, Exit
  <1>7. QED
    BY <1>1, <1>2, <1>3, <1>4, <1>5, <1>6 DEF Next, RunSteps

\* The flag the kernel shares stays right.
LEMMA ReadyStep ==
    ASSUME QueueInv, ReadyInv, Next
    PROVE  ReadyInv'
  <1> SUFFICES ASSUME Lossless'
               PROVE  /\ rpc' \in {"idle", "check", "canInject"} /\ ready' => slot' = None
                      /\ rpc' \in {"recheck", "lock", "pop", "inject"} => slot' = None
    BY DEF ReadyInv
  <1>l. /\ backend = "tunnel" /\ Lossless
        /\ rpc \in {"idle", "check", "canInject"} /\ ready => slot = None
        /\ rpc \in {"recheck", "lock", "pop", "inject"} => slot = None
    BY StillStep DEF Lossless, ReadyInv
  <1>1. ASSUME NEW e \in Enqueuers, Lock(e) \/ Push(e) \/ Prepare(e)
        PROVE  UNCHANGED <<rpc, slot, ready>>
    BY <1>1 DEF Lock, Push, Prepare, hyper
  <1>2. CASE CallRun \/ Check \/ Recheck \/ EnterGuest
    <2>1. UNCHANGED <<slot, ready>>
      BY <1>2 DEF CallRun, Check, Recheck, EnterGuest, hyper
    <2>2. \/ rpc \in {"idle", "check"} /\ rpc' \in {"check", "canInject"}
          \/ rpc = "recheck" /\ rpc' = "lock"
          \/ rpc' \in {"run", "guest"}
      BY <1>2 DEF CallRun, Check, Recheck, EnterGuest, Goto
    <2>3. QED
      BY <1>l, <2>1, <2>2
  <1>3. CASE CanInject
    <2>1. rpc = "canInject" /\ UNCHANGED <<slot, ready>>
      BY <1>3 DEF CanInject, Goto, hyper
    <2>2. (rpc' = "recheck" /\ ready) \/ rpc' = "run"
      BY <1>l, <1>3 DEF CanInject, CanInjectInterrupt, Goto
    <2>3. QED
      BY <1>l, <2>1, <2>2
  <1>4. CASE LockQueue \/ Pop
    BY <1>l, <1>4 DEF LockQueue, Pop, Goto, hyper
  <1>5. CASE Inject
    BY <1>5 DEF Inject, Goto
  <1>6. CASE FailRun
    <2>1. UNCHANGED <<slot, ready>> /\ rpc' = "idle" /\ failed' = (failed \/ (ready /\ slot # None))
      BY <1>6 DEF FailRun, Goto, hyper
    <2>2. ~(ready /\ slot # None)
      BY <2>1, Zenon DEF Lossless
    <2>3. QED
      BY <2>1, <2>2
  <1>7. CASE WriteFlags \/ Toggle \/ Deliver
    BY <1>l, <1>7 DEF WriteFlags, Toggle, Deliver
  <1>8. CASE WindowExit \/ OtherExit \/ CancelExit
    <2>1. UNCHANGED slot /\ rpc' = "idle"
      BY <1>8 DEF WindowExit, OtherExit, CancelExit, Exit
    <2>2. ready' = (open /\ slot = None)
      BY <1>8 DEF WindowExit, OtherExit, CancelExit, Exit
    <2>3. ready' => slot' = None
      BY <2>1, <2>2, Zenon
    <2>4. QED
      BY <2>1, <2>3
  <1>9. QED
    BY <1>l, <1>1, <1>2, <1>3, <1>4, <1>5, <1>6, <1>7, <1>8 DEF Next, RunSteps

\* What NothingLost says of the requests.
AllThere == delivered \o Opt(slot) \o Opt(taking) \o queue = [i \in 1 .. requests |-> i]

\* A step that moves no request loses none.
LEMMA NothingMoved ==
    ASSUME AllThere, UNCHANGED <<delivered, slot, taking, queue, requests>>
    PROVE  AllThere'
  BY DEF AllThere, Opt

\* Every request stays in its place in the order.
LEMMA OrderStep ==
    ASSUME QueueInv, ReadyInv, AllThere, Next, Lossless'
    PROVE  AllThere'
  <1> DEFINE S == 1 .. requests
  <1>0. /\ requests \in Nat /\ delivered \in Seq(S) /\ queue \in Seq(S)
        /\ slot \in 0 .. requests /\ taking \in 0 .. requests
    BY DEF QueueInv, TypeOK
  <1>t. Opt(slot) \in Seq(S) /\ Opt(taking) \in Seq(S)
    BY <1>0, OptType
  <1>p. delivered \o Opt(slot) \in Seq(S) /\ (delivered \o Opt(slot)) \o Opt(taking) \in Seq(S)
    BY <1>0, <1>t, ConcatProperties
  <1>1. ASSUME NEW e \in Enqueuers, Push(e) PROVE AllThere'
    <2>1. ((delivered \o Opt(slot)) \o Opt(taking)) \o Append(queue, requests + 1)
              = InOrder(requests + 1)
      BY <1>0, <1>p, PushOrder DEF AllThere, InOrder
    <2>2. UNCHANGED <<delivered, slot, taking>>
      BY <1>1 DEF Push, hyper
    <2>3. QED
      BY <1>1, <2>1, <2>2 DEF Push, AllThere, Opt, InOrder
  <1>2. CASE Pop
    <2>1. queue # << >> /\ taking = None
      BY <1>2 DEF Pop, Goto, QueueInv, SeenInv, TakingInv
    <2>2. taking' = Head(queue) /\ Head(queue) # None
      BY <1>0, <1>2, <2>1, HeadTailProperties DEF Pop, None
    <2>3. Opt(taking) = << >> /\ Opt(taking') = <<Head(queue)>>
      BY <2>1, <2>2 DEF Opt
    <2>4. ((delivered \o Opt(slot)) \o <<Head(queue)>>) \o Tail(queue)
              = ((delivered \o Opt(slot)) \o << >>) \o queue
      BY <1>0, <1>p, <2>1, PopOrder
    <2>5. queue' = Tail(queue) /\ UNCHANGED <<delivered, slot, requests>>
      BY <1>2 DEF Pop, hyper
    <2>6. QED
      BY <2>3, <2>4, <2>5 DEF AllThere, Opt
  <1>3. CASE Inject
    <2>1. slot = None /\ taking # None /\ taking' = None /\ slot' = taking
      BY <1>3, StillStep
      DEF Inject, InjectInterrupt, Goto, ReadyInv, Lossless, QueueInv, TakingInv
    <2>2. Opt(slot) = << >> /\ Opt(taking') = << >> /\ Opt(slot') = Opt(taking)
      BY <2>1 DEF Opt
    <2>3. delivered \o Opt(taking) \in Seq(S)
      BY <1>0, <1>t, ConcatProperties
    <2>4. (delivered \o Opt(taking)) \o << >> = (delivered \o << >>) \o Opt(taking)
      BY <1>0, <2>3, ConcatEmptySeq
    <2>5. UNCHANGED <<delivered, queue, requests>>
      BY <1>3 DEF Inject
    <2>6. QED
      BY <2>2, <2>4, <2>5 DEF AllThere, Opt
  <1>4. CASE Deliver
    <2>1. slot \in S /\ slot # None
      BY <1>0, <1>4 DEF Deliver, None
    <2>2. Opt(slot) = <<slot>> /\ Opt(slot') = << >>
      BY <1>4, <2>1 DEF Deliver, Opt
    <2>3. delivered' = delivered \o Opt(slot)
      BY <1>0, <1>4, <2>1, <2>2, AppendIsConcat DEF Deliver
    <2>4. delivered' \o Opt(slot') = delivered \o Opt(slot)
      BY <1>p, <2>2, <2>3, ConcatEmptySeq
    <2>5. UNCHANGED <<taking, queue, requests>>
      BY <1>4 DEF Deliver, shared
    <2>6. QED
      BY <2>4, <2>5 DEF AllThere, Opt
  <1>5. ASSUME NEW e \in Enqueuers, Lock(e) \/ Prepare(e) PROVE AllThere'
    BY <1>5, NothingMoved DEF Lock, Prepare, hyper
  <1>6. CASE CallRun \/ Check \/ CanInject \/ Recheck \/ LockQueue \/ EnterGuest \/ FailRun
    BY <1>6, NothingMoved
    DEF CallRun, Check, CanInject, Recheck, LockQueue, EnterGuest, FailRun, shared, hyper
  <1>7. CASE WriteFlags \/ Toggle \/ WindowExit \/ OtherExit \/ CancelExit
    BY <1>7, NothingMoved DEF WriteFlags, Toggle, WindowExit, OtherExit, CancelExit, Exit, shared
  <1>8. QED
    BY <1>1, <1>2, <1>3, <1>4, <1>5, <1>6, <1>7 DEF Next, RunSteps

\* Every step keeps the invariant.
LEMMA NextTunnelInv ==
    ASSUME TunnelInv, [Next]_vars
    PROVE  TunnelInv'
  <1>1. CASE Next
    <2>1. QueueInv' /\ ReadyInv'
      BY <1>1, NextQueueInv, ReadyStep DEF TunnelInv
    <2>2. ASSUME Lossless' PROVE AllThere'
      BY <1>1, <2>2, StillStep, OrderStep DEF TunnelInv, NothingLost, AllThere
    <2>3. QED
      BY <2>1, <2>2 DEF TunnelInv, NothingLost, AllThere
  <1>2. CASE UNCHANGED vars
    <2>1. QueueInv'
      BY <1>2, NextQueueInv DEF TunnelInv
    <2>2. ReadyInv' /\ NothingLost'
      BY <1>2
      DEF TunnelInv, ReadyInv, NothingLost, Lossless, Opt, vars, still, shared, hyper
    <2>3. QED
      BY <2>1, <2>2 DEF TunnelInv
  <1>3. QED
    BY <1>1, <1>2

\* On KVM and HAXM every request is in exactly one place, in the order in which they
\* came, until an injection fails or RunImpl does before the guest took a vector.
THEOREM TunnelLosesNothing == Spec => []NothingLost
  <1>1. TunnelInv => NothingLost
    BY DEF TunnelInv
  <1>2. TunnelInv /\ [Next]_vars => TunnelInv'
    BY NextTunnelInv
  <1>3. QED
    BY <1>1, <1>2, InitTunnelInv, PTL DEF Spec

-----------------------------------------------------------------------------
(* Every backend: what is delivered is in order *)

Increasing(s) == \A i, j \in 1 .. Len(s) : i < j => s[i] < s[j]
Below(s, r) == r # None => \A i \in 1 .. Len(s) : s[i] < r
Above(s, r) == r # None => \A i \in 1 .. Len(s) : r < s[i]

\* Whatever was replaced or refused on the way, the requests that are left are in order:
\* delivered, held by the hypervisor, in the runner's hands, queued.
OrderInv ==
    /\ Increasing(delivered) /\ Increasing(queue)
    /\ \A i \in 1 .. Len(delivered) : \A j \in 1 .. Len(queue) : delivered[i] < queue[j]
    /\ Below(delivered, slot) /\ Below(delivered, taking)
    /\ Above(queue, slot) /\ Above(queue, taking)
    /\ slot # None /\ taking # None => slot < taking

\* A step that moves no request leaves the order alone.
LEMMA OrderKept ==
    ASSUME OrderInv, UNCHANGED <<delivered, slot, taking, queue>>
    PROVE  OrderInv'
  BY DEF OrderInv, Increasing, Below, Above

\* The order is kept by every step on every backend, failed runs and refused or
\* overwritten injections included.
LEMMA OrderInvStep ==
    ASSUME QueueInv, OrderInv, [Next]_vars
    PROVE  OrderInv'
  <1> USE DEF Increasing, Below, Above
  <1>0. /\ requests \in Nat /\ delivered \in Seq(1 .. requests) /\ queue \in Seq(1 .. requests)
        /\ slot \in 0 .. requests /\ taking \in 0 .. requests
    BY DEF QueueInv, TypeOK
  <1>l. Len(delivered) \in Nat /\ Len(queue) \in Nat
    BY <1>0
  <1>n. requests \in Nat /\ slot \in 0 .. requests /\ taking \in 0 .. requests
    BY <1>0
  <1>d. \A i \in 1 .. Len(delivered) : delivered[i] \in 1 .. requests
    BY <1>0
  <1>q. \A i \in 1 .. Len(queue) : queue[i] \in 1 .. requests
    BY <1>0
  <1>1. ASSUME NEW e \in Enqueuers, Push(e) PROVE OrderInv'
    <2>1. /\ queue' = Append(queue, requests + 1)
          /\ UNCHANGED <<delivered, slot, taking>>
      BY <1>1 DEF Push, hyper
    <2>2. /\ Len(queue') = Len(queue) + 1
          /\ \A i \in 1 .. Len(queue) : queue'[i] = queue[i]
          /\ queue'[Len(queue) + 1] = requests + 1
      BY <1>0, <2>1, AppendProperties
    <2>3. \A i \in 1 .. Len(queue') :
             (i \in 1 .. Len(queue) /\ queue'[i] = queue[i])
                \/ (i = Len(queue) + 1 /\ queue'[i] = requests + 1)
      BY <1>l, <2>2
    <2>4. Increasing(queue')
      <3> SUFFICES ASSUME NEW i \in 1 .. Len(queue'), NEW j \in 1 .. Len(queue'), i < j
                   PROVE  queue'[i] < queue'[j]
        OBVIOUS
      <3>1. i \in 1 .. Len(queue) /\ queue'[i] = queue[i]
        BY <1>l, <2>3
      <3>2. CASE j \in 1 .. Len(queue) /\ queue'[j] = queue[j]
        BY <3>1, <3>2 DEF OrderInv
      <3>3. CASE j = Len(queue) + 1 /\ queue'[j] = requests + 1
        BY <1>n, <1>q, <3>1, <3>3
      <3>4. QED
        BY <2>3, <3>2, <3>3
    <2>5. \A i \in 1 .. Len(delivered) : \A j \in 1 .. Len(queue') : delivered[i] < queue'[j]
      <3> SUFFICES ASSUME NEW i \in 1 .. Len(delivered), NEW j \in 1 .. Len(queue')
                   PROVE  delivered[i] < queue'[j]
        OBVIOUS
      <3>1. CASE j \in 1 .. Len(queue) /\ queue'[j] = queue[j]
        BY <3>1 DEF OrderInv
      <3>2. CASE queue'[j] = requests + 1
        BY <1>n, <1>d, <3>2
      <3>3. QED
        BY <2>3, <3>1, <3>2
    <2>6. Above(queue', slot) /\ Above(queue', taking)
      BY <1>n, <2>3 DEF OrderInv
    <2>7. QED
      BY <2>1, <2>4, <2>5, <2>6 DEF OrderInv
  <1>2. CASE Pop
    <2>1. queue # << >> /\ taking = None
      BY <1>2 DEF Pop, Goto, QueueInv, SeenInv, TakingInv
    <2>2. taking' = Head(queue) /\ queue' = Tail(queue) /\ UNCHANGED <<delivered, slot>>
      BY <1>2 DEF Pop, hyper
    <2>3. Len(queue) >= 1 /\ taking' = queue[1] /\ 1 \in 1 .. Len(queue)
      BY <1>0, <2>1, <2>2
    <2>4. /\ Len(queue') = Len(queue) - 1
          /\ \A i \in 1 .. Len(queue') : queue'[i] = queue[i + 1] /\ i + 1 \in 1 .. Len(queue)
      BY <1>0, <2>1, <2>2, <2>3
    <2>5. Increasing(queue')
      BY <1>l, <2>4 DEF OrderInv
    <2>6. \A i \in 1 .. Len(delivered) : \A j \in 1 .. Len(queue') : delivered[i] < queue'[j]
      BY <2>4 DEF OrderInv
    <2>7. Above(queue', slot)
      BY <2>4 DEF OrderInv
    <2>8. Above(queue', taking')
      BY <1>l, <2>3, <2>4 DEF OrderInv
    <2>9. Below(delivered, taking') /\ (slot # None => slot < taking')
      BY <2>3 DEF OrderInv
    <2>10. QED
      BY <2>2, <2>5, <2>6, <2>7, <2>8, <2>9 DEF OrderInv
  <1>3. CASE Inject
    <2>1. /\ taking' = None /\ slot' \in {slot, taking}
          /\ UNCHANGED <<delivered, queue>>
      BY <1>3 DEF Inject, InjectInterrupt
    <2>2. QED
      BY <2>1 DEF OrderInv
  <1>4. CASE Deliver
    <2>1. /\ slot # None /\ slot' = None /\ delivered' = Append(delivered, slot)
          /\ UNCHANGED <<queue, taking>>
      BY <1>4 DEF Deliver, shared
    <2>2. slot \in 1 .. requests
      BY <1>0, <2>1 DEF None
    <2>3. /\ Len(delivered') = Len(delivered) + 1
          /\ \A i \in 1 .. Len(delivered) : delivered'[i] = delivered[i]
          /\ delivered'[Len(delivered) + 1] = slot
      BY <1>0, <2>1, <2>2, AppendProperties
    <2>4. \A i \in 1 .. Len(delivered') :
             (i \in 1 .. Len(delivered) /\ delivered'[i] = delivered[i])
                \/ (i = Len(delivered) + 1 /\ delivered'[i] = slot)
      BY <1>l, <2>3
    <2>5. Increasing(delivered')
      BY <1>l, <2>1, <2>4 DEF OrderInv
    <2>6. \A i \in 1 .. Len(delivered') : \A j \in 1 .. Len(queue) : delivered'[i] < queue[j]
      BY <2>1, <2>4 DEF OrderInv
    <2>7. Below(delivered', taking)
      BY <2>1, <2>4 DEF OrderInv
    <2>8. QED
      BY <2>1, <2>5, <2>6, <2>7 DEF OrderInv
  <1>5. ASSUME NEW e \in Enqueuers, Lock(e) \/ Prepare(e) PROVE OrderInv'
    BY <1>5, OrderKept DEF Lock, Prepare, hyper
  <1>6. CASE CallRun \/ Check \/ CanInject \/ Recheck \/ LockQueue \/ EnterGuest \/ FailRun
    BY <1>6, OrderKept
    DEF CallRun, Check, CanInject, Recheck, LockQueue, EnterGuest, FailRun, shared, hyper
  <1>7. CASE WriteFlags \/ Toggle \/ WindowExit \/ OtherExit \/ CancelExit
    BY <1>7, OrderKept DEF WriteFlags, Toggle, WindowExit, OtherExit, CancelExit, Exit, shared
  <1>8. CASE UNCHANGED vars
    BY <1>8, OrderKept DEF vars, shared, hyper
  <1>9. QED
    BY <1>1, <1>2, <1>3, <1>4, <1>5, <1>6, <1>7, <1>8 DEF Next, RunSteps

\* On every backend, whether runs fail or not, the guest receives requests in the order in
\* which they were queued and none of them twice.
THEOREM DeliversInOrder == Spec => []DeliveredInOrder
  <1>1. Init => QueueInv /\ OrderInv
    BY InitQueueInv DEF Init, OrderInv, Increasing, Below, Above
  <1>2. QueueInv /\ OrderInv /\ [Next]_vars => (QueueInv /\ OrderInv)'
    BY NextQueueInv, OrderInvStep
  <1>3. QueueInv /\ OrderInv => DeliveredInOrder
    BY DEF OrderInv, Increasing, DeliveredInOrder
  <1>4. QED
    BY <1>1, <1>2, <1>3, PTL DEF Spec

-----------------------------------------------------------------------------
(* KVM and HAXM: the queue is the channel that EnqueueInterrupt promises *)

\* The channel is empty at first.
LEMMA InitChannel == Init => Channel!Init
  <1> SUFFICES ASSUME Init PROVE Channel!Init
    OBVIOUS
  <1>1. Opt(slot) = << >> /\ Opt(taking) = << >> /\ queue = << >> /\ delivered = << >>
    BY DEF Init, Opt
  <1>2. << >> \o << >> \o << >> = << >>
    BY EmptySeq, ConcatEmptySeq
  <1>3. QED
    BY <1>1, <1>2 DEF Channel!Init

\* Every step is one of the channel, or shows nothing of itself.
LEMMA ChannelStep ==
    ASSUME QueueInv, ReadyInv, AllThere, [Next]_vars, Lossless'
    PROVE  [Channel!Next]_(Channel!vars)
  <1> DEFINE S == 1 .. requests
             hands == Opt(slot) \o Opt(taking)
             pending == hands \o queue
  <1>0. /\ requests \in Nat /\ delivered \in Seq(S) /\ queue \in Seq(S)
        /\ slot \in 0 .. requests /\ taking \in 0 .. requests
    BY DEF QueueInv, TypeOK
  <1>t. Opt(slot) \in Seq(S) /\ Opt(taking) \in Seq(S)
    BY <1>0, OptType
  <1>p. hands \in Seq(S) /\ pending \in Seq(S)
    BY <1>0, <1>t, ConcatProperties
  <1>s. ASSUME UNCHANGED <<delivered, slot, taking, queue>> PROVE UNCHANGED Channel!vars
    BY <1>s DEF Channel!vars, Opt
  <1>1. ASSUME NEW e \in Enqueuers, Push(e) PROVE Channel!Accept
    <2>1. queue' = Append(queue, requests + 1) /\ UNCHANGED <<delivered, slot, taking>>
      BY <1>1 DEF Push, hyper
    <2>2. Len(delivered) + Len(pending) = requests
      <3>1. ((delivered \o Opt(slot)) \o Opt(taking)) \o queue = delivered \o pending
        <4>1. (delivered \o Opt(slot)) \o Opt(taking) = delivered \o hands
          <5> DEFINE a == Opt(slot)
                     b == Opt(taking)
          <5>1. delivered \in Seq(S) /\ a \in Seq(S) /\ b \in Seq(S)
            BY <1>0, <1>t
          <5> HIDE DEF a, b, S
          <5>2. (delivered \o a) \o b = delivered \o (a \o b)
            BY <5>1, ConcatAssociative
          <5>3. QED
            BY <5>2 DEF a, b
        <4>2. (delivered \o hands) \o queue = delivered \o (hands \o queue)
          <5>1. hands \in Seq(S)
            BY <1>p
          <5> HIDE DEF hands, S
          <5>2. QED
            BY <1>0, <5>1, ConcatAssociative
        <4>3. QED
          BY <4>1, <4>2
      <3>2. delivered \o pending = [i \in 1 .. requests |-> i]
        BY <3>1 DEF AllThere
      <3>3. Len(delivered \o pending) = Len(delivered) + Len(pending)
        BY <1>0, <1>p, ConcatProperties
      <3>4. Len(delivered \o pending) = requests
        <4> HIDE DEF pending
        <4>1. QED
          BY <3>2, <1>0
      <3>5. QED
        BY <3>3, <3>4
    <2>3. hands \o Append(queue, requests + 1) = Append(pending, requests + 1)
      <3> DEFINE T == 1 .. (requests + 1)
      <3>1. hands \in Seq(T) /\ queue \in Seq(T) /\ requests + 1 \in T /\ pending \in Seq(T)
        BY <1>0, <1>p, SeqGrows
      <3>2. <<requests + 1>> \in Seq(T)
        BY <3>1
      <3> HIDE DEF T
      <3>3. Append(queue, requests + 1) = queue \o <<requests + 1>>
        BY <3>1, AppendIsConcat
      <3>4. hands \o (queue \o <<requests + 1>>) = (hands \o queue) \o <<requests + 1>>
        BY <3>1, <3>2, ConcatAssociative
      <3>5. Append(pending, requests + 1) = pending \o <<requests + 1>>
        BY <3>1, AppendIsConcat
      <3>6. QED
        BY <3>3, <3>4, <3>5
    <2>4. Opt(slot') \o Opt(taking') \o queue' = Append(pending, Len(delivered) + Len(pending) + 1)
      BY <2>1, <2>2, <2>3
    <2>5. QED
      BY <2>1, <2>4 DEF Channel!Accept, Channel!Accepted, Opt
  <1>2. CASE Pop
    <2>1. queue # << >> /\ taking = None
      BY <1>2 DEF Pop, Goto, QueueInv, SeenInv, TakingInv
    <2>2. taking' = Head(queue) /\ Head(queue) # None
      BY <1>0, <1>2, <2>1, HeadTailProperties DEF Pop, None
    <2>3. Opt(taking) = << >> /\ Opt(taking') = <<Head(queue)>>
      BY <2>1, <2>2 DEF Opt
    <2>4. (Opt(slot) \o <<Head(queue)>>) \o Tail(queue) = (Opt(slot) \o << >>) \o queue
      BY <1>0, <1>t, <2>1, PopOrder
    <2>5. queue' = Tail(queue) /\ UNCHANGED <<delivered, slot>>
      BY <1>2 DEF Pop, hyper
    <2>6. QED
      BY <2>3, <2>4, <2>5 DEF Channel!vars, Opt
  <1>3. CASE Inject
    <2>1. slot = None /\ taking # None /\ taking' = None /\ slot' = taking
      BY <1>3, StillStep
      DEF Inject, InjectInterrupt, Goto, ReadyInv, Lossless, QueueInv, TakingInv, Next, RunSteps
    <2>2. Opt(slot) = << >> /\ Opt(taking') = << >> /\ Opt(slot') = Opt(taking)
      BY <2>1 DEF Opt
    <2>3. Opt(taking) \o << >> = << >> \o Opt(taking)
      BY <1>t, ConcatEmptySeq
    <2>4. UNCHANGED <<delivered, queue>>
      BY <1>3 DEF Inject
    <2>5. QED
      BY <2>2, <2>3, <2>4 DEF Channel!vars
  <1>4. CASE Deliver
    <2>1. /\ slot \in S /\ slot # None /\ slot' = None /\ delivered' = Append(delivered, slot)
          /\ UNCHANGED <<taking, queue>>
      BY <1>0, <1>4 DEF Deliver, None, shared
    <2>2. taking = None
      BY <1>4 DEF Deliver, QueueInv, TakingInv
    <2>3. /\ Opt(slot) = <<slot>> /\ Opt(slot') = << >> /\ Opt(taking) = << >>
          /\ Opt(taking') = << >>
      BY <2>1, <2>2 DEF Opt
    <2>4. Opt(slot) \o Opt(taking) \o queue = <<slot>> \o queue
      <3>1. <<slot>> \in Seq(S)
        BY <2>1
      <3>2. QED
        BY <2>3, <3>1, ConcatEmptySeq
    <2>5. Opt(slot') \o Opt(taking') \o queue' = queue
      BY <1>0, <2>1, <2>3, ConcatEmptySeq, EmptySeq
    <2>6. /\ <<slot>> \o queue # << >> /\ Head(<<slot>> \o queue) = slot
          /\ Tail(<<slot>> \o queue) = queue
      BY <1>0, <2>1
    <2>7. Channel!Receive
      BY <2>1, <2>4, <2>5, <2>6 DEF Channel!Receive
    <2>8. QED
      BY <2>7 DEF Channel!Next
  <1>5. ASSUME NEW e \in Enqueuers, Lock(e) \/ Prepare(e) PROVE UNCHANGED Channel!vars
    BY <1>5, <1>s DEF Lock, Prepare, hyper
  <1>6. CASE CallRun \/ Check \/ CanInject \/ Recheck \/ LockQueue \/ EnterGuest \/ FailRun
    BY <1>6, <1>s
    DEF CallRun, Check, CanInject, Recheck, LockQueue, EnterGuest, FailRun, shared, hyper
  <1>7. CASE WriteFlags \/ Toggle \/ WindowExit \/ OtherExit \/ CancelExit
    BY <1>7, <1>s DEF WriteFlags, Toggle, WindowExit, OtherExit, CancelExit, Exit, shared
  <1>8. CASE UNCHANGED vars
    BY <1>8, <1>s DEF vars, shared, hyper
  <1>9. QED
    BY <1>1, <1>2, <1>3, <1>4, <1>5, <1>6, <1>7, <1>8 DEF Next, RunSteps, Channel!Next

\* On KVM and HAXM, until an injection fails or RunImpl does before the guest took a vector,
\* the queue, the local of InjectPendingInterrupt and the hypervisor's slot together are the
\* channel of InterruptChannel.
THEOREM TunnelIsChannel == Spec => ImplementsChannel
  <1>1. TunnelInv /\ [Next]_vars => TunnelInv'
    BY NextTunnelInv
  <1>2. TunnelInv /\ [Next]_vars => [Lossless' => Channel!Next]_(Channel!vars)
    <2> SUFFICES ASSUME TunnelInv, [Next]_vars, Lossless'
                 PROVE  [Channel!Next]_(Channel!vars)
      OBVIOUS
    <2>1. Lossless
      BY StillStep DEF Lossless, vars, still
    <2>2. QED
      BY <2>1, ChannelStep DEF TunnelInv, NothingLost, AllThere
  <1>3. QED
    BY <1>1, <1>2, InitTunnelInv, InitChannel, PTL DEF Spec, ImplementsChannel

=============================================================================
