------------------------------ MODULE Scheduler ------------------------------
(***************************************************************************)
(* The round-robin scheduler (src/task/scheduler.rs) on several CPUs, with *)
(* the timer handler that calls it (src/arch/interrupts.rs), the creation  *)
(* of threads (src/task/thread.rs) and the end of processes                *)
(* (src/task/process.rs).                                                  *)
(*                                                                         *)
(* The scheduler holds weak references; a thread lives as long as its      *)
(* creator or its process holds it.  A user process has one thread, since  *)
(* every user stack has the same address, so a user thread stands for its  *)
(* process too.  The kernel built on this framework blocks, wakes and ends *)
(* threads through the public state field, add, remove and exit_process;   *)
(* those steps are marked external.                                        *)
(***************************************************************************)
EXTENDS Integers, Sequences, FiniteSets

CONSTANTS
    Cpu,            \* the local APIC ids
    InitThread,     \* the initial thread of each CPU
    KernelThread,   \* the kernel threads that may be created
    UserThread,     \* the user threads, one to a process
    MayBlock,       \* the threads that ever block or wait
    OrderlyExit     \* threads are taken off the queue before their process ends

InitThreads == {InitThread[c] : c \in Cpu}

Thread == InitThreads \cup KernelThread \cup UserThread

ASSUME SchedulerAssumption ==
    /\ IsFiniteSet(Cpu) /\ Cpu # {}
    /\ InitThread \in [Cpu -> InitThreads]
    /\ \A c, d \in Cpu : c # d => InitThread[c] # InitThread[d]
    /\ InitThreads \cap (KernelThread \cup UserThread) = {}
    /\ KernelThread \cap UserThread = {}
    /\ MayBlock \subseteq KernelThread \cup UserThread
    /\ OrderlyExit \in BOOLEAN

VARIABLES
    current,    \* current_threads
    ready,      \* ready_threads, the front first
    state,      \* Thread::state
    life,       \* who holds the thread: nobody yet, its creator, its process, nobody
    removed,    \* the ended threads that were taken off the queue
    step,       \* a CPU runs its thread, or has left schedule on the old stack
    stack,      \* the thread whose kernel stack the CPU is on
    panicked    \* an unwrap of a dangling reference was reached

vars == <<current, ready, state, life, removed, step, stack, panicked>>

ThreadState == {"Running", "Ready", "Blocked", "Waiting", "Terminated"}

Parked == {"Blocked", "Waiting", "Terminated"}

Alive == {t \in Thread : life[t] \in {"creating", "owned"}}

Entries(q) == {q[i] : i \in DOMAIN q}

Distinct(q) == \A i, j \in DOMAIN q : i # j => q[i] # q[j]

Queued == Entries(ready)

OnCpu == {current[c] : c \in Cpu}

TypeOK ==
    /\ current \in [Cpu -> Thread]
    /\ ready \in Seq(Thread)
    /\ state \in [Thread -> ThreadState]
    /\ life \in [Thread -> {"none", "creating", "owned", "dropped"}]
    /\ removed \subseteq UserThread
    /\ step \in [Cpu -> {"run", "switch"}]
    /\ stack \in [Cpu -> Thread]
    /\ panicked \in BOOLEAN

\* Scheduler::new gives every CPU an initial thread and queues none of them.
Init ==
    /\ current = InitThread
    /\ ready = <<>>
    /\ state = [t \in Thread |-> "Ready"]
    /\ life = [t \in Thread |-> IF t \in InitThreads THEN "owned" ELSE "none"]
    /\ removed = {}
    /\ step = [c \in Cpu |-> "run"]
    /\ stack = InitThread
    /\ panicked = FALSE
-----------------------------------------------------------------------------
\* new_kernel_thread and new_user_thread: the thread is queued, at the front,
\* while only its creator holds it.
add(t) ==
    /\ ~panicked
    /\ life[t] = "none"
    /\ life' = [life EXCEPT ![t] = "creating"]
    /\ ready' = <<t>> \o ready
    /\ UNCHANGED <<current, state, removed, step, stack, panicked>>

\* ... and then its process takes it: the kernel process, or the new process
\* that new_user_process appends to PROCESSES.
own(t) ==
    /\ ~panicked
    /\ life[t] = "creating"
    /\ life' = [life EXCEPT ![t] = "owned"]
    /\ UNCHANGED <<current, ready, state, removed, step, stack, panicked>>

\* The queue after schedule took the front and put back the last thread, when
\* that still lives and is neither blocked, waiting nor terminated.
RotatedParked(last) == IF last \in Alive THEN Append(Tail(ready), last) ELSE Tail(ready)
RotatedLosing(last) == Tail(ready)
RotatedFront(last) ==
    IF last \in Alive /\ state[last] \notin Parked
    THEN <<last>> \o Tail(ready)
    ELSE Tail(ready)
Rotated(last) ==
    IF last \in Alive /\ state[last] \notin Parked
    THEN Append(Tail(ready), last)
    ELSE Tail(ready)

\* The timer interrupt up to the return of schedule: the lock is free again,
\* the CPU is still on the stack of the thread it leaves.
schedule(c) ==
    /\ ~panicked
    /\ step[c] = "run"
    /\ IF ready = <<>>
       THEN UNCHANGED <<current, ready>>
       ELSE /\ current' = [current EXCEPT ![c] = Head(ready)]
            /\ ready' = Rotated(current[c])
    /\ panicked' = (current'[c] \notin Alive)
    /\ step' = [step EXCEPT ![c] = "switch"]
    /\ UNCHANGED <<state, life, removed, stack>>

\* The handler moves to the context of the next thread and returns to it.
switch(c) ==
    /\ ~panicked
    /\ step[c] = "switch"
    /\ step' = [step EXCEPT ![c] = "run"]
    /\ stack' = [stack EXCEPT ![c] = current[c]]
    /\ UNCHANGED <<current, ready, state, life, removed, panicked>>
-----------------------------------------------------------------------------
\* The running thread parks itself.
block(c) ==
    /\ ~panicked
    /\ step[c] = "run"
    /\ current[c] \in MayBlock
    /\ state[current[c]] \notin Parked
    /\ \E s \in {"Blocked", "Waiting"} : state' = [state EXCEPT ![current[c]] = s]
    /\ UNCHANGED <<current, ready, life, removed, step, stack, panicked>>

wake_unqueued(t) ==
    /\ ~panicked
    /\ t \in Alive \ OnCpu
    /\ state[t] \in {"Blocked", "Waiting"}
    /\ state' = [state EXCEPT ![t] = "Ready"]
    /\ UNCHANGED <<current, ready, life, removed, step, stack, panicked>>

\* A parked thread that has left its CPU is made ready and queued with add.
wake(t) ==
    /\ ~panicked
    /\ t \in Alive \ OnCpu
    /\ state[t] \in {"Blocked", "Waiting"}
    /\ state' = [state EXCEPT ![t] = "Ready"]
    /\ ready' = <<t>> \o ready
    /\ UNCHANGED <<current, life, removed, step, stack, panicked>>

terminate(t) ==
    /\ ~panicked
    /\ t \in Alive
    /\ state[t] # "Terminated"
    /\ state' = [state EXCEPT ![t] = "Terminated"]
    /\ UNCHANGED <<current, ready, life, removed, step, stack, panicked>>

\* A queue without t: retain keeps every other entry.  A thread is queued at
\* most once (PlacedOnce), so there is one entry to drop.
WithoutNothing(q, t) == q
Without(q, t) ==
    IF t \notin Entries(q) THEN q
    ELSE LET at == CHOOSE i \in DOMAIN q : q[i] = t
         IN  SubSeq(q, 1, at - 1) \o SubSeq(q, at + 1, Len(q))

\* remove upgrades every entry of the queue, and panics on a dangling one.
remove(t) ==
    /\ ~panicked
    /\ t \in Alive \ removed
    /\ state[t] = "Terminated"
    /\ panicked' = ~(Queued \subseteq Alive)
    /\ ready' = Without(ready, t)
    /\ removed' = removed \cup {t}
    /\ UNCHANGED <<current, state, life, step, stack>>

\* exit_process drops the process, and with it the thread, wherever it is.  A
\* process that is not yet in PROCESSES is not found and stays.
exit_process(t) ==
    /\ ~panicked
    /\ life[t] = "owned"
    /\ OrderlyExit => t \in removed
    /\ life' = [life EXCEPT ![t] = "dropped"]
    /\ UNCHANGED <<current, ready, state, removed, step, stack, panicked>>
-----------------------------------------------------------------------------
Next ==
    \/ \E c \in Cpu : schedule(c) \/ switch(c) \/ block(c)
    \/ \E t \in KernelThread \cup UserThread : add(t) \/ own(t) \/ wake(t)
    \/ \E t \in UserThread : terminate(t) \/ remove(t) \/ exit_process(t)

Spec == Init /\ [][Next]_vars

\* The timer of every CPU fires for ever, and its handler runs to its end.
Fairness == \A c \in Cpu : WF_vars(schedule(c)) /\ WF_vars(switch(c))

FairSpec == Spec /\ Fairness
-----------------------------------------------------------------------------
\* A thread is at one place: no CPU shares its current thread with another CPU
\* or with the queue, and the queue holds no thread twice.  Otherwise two CPUs
\* run one thread on one stack.
PlacedOnce ==
    /\ \A c, d \in Cpu : c # d => current[c] # current[d]
    /\ Distinct(ready)
    /\ OnCpu \cap Queued = {}

\* A thread that can run is never lost: from its creation on it is current on
\* a CPU or in the queue, through every preemption, wake-up and exit.
NoThreadLost ==
    \A t \in Alive : state[t] \notin Parked => t \in OnCpu \cup Queued

\* With orderly exits schedule and remove never reach a dangling reference,
\* although the queue may lose threads and a CPU's own thread may be dropped:
\* whenever a CPU must leave its thread there is another one in the queue.
NoPanic == OrderlyExit => ~panicked

\* A CPU whose thread has ended or is parked finds the queue non-empty, since
\* some initial thread is waiting there: it never goes on running it.
ParkedHasSuccessor ==
    \A c \in Cpu : current[c] \notin InitThreads => ready # <<>>

\* Outside the window between the release of the scheduler's lock and the move
\* to the next context, no two CPUs are on the same kernel stack.
StackExclusive ==
    \A c, d \in Cpu : c # d /\ step[c] = "run" /\ step[d] = "run"
                          => stack[c] # stack[d]

\* The facts that make the promises above inductive: a running CPU is on its
\* thread's stack; a queued thread is neither blocked nor waiting, and with
\* orderly exits it lives; a thread taken off the queue has ended and does not
\* come back; a thread not yet created is nowhere; initial threads never end.
RunsOnOwnStack == \A c \in Cpu : step[c] = "run" => stack[c] = current[c]

QueuedCanRun ==
    \A t \in Queued : /\ state[t] \notin {"Blocked", "Waiting"}
                      /\ OrderlyExit => t \in Alive

RemovedStaysOut ==
    \A t \in removed : /\ t \notin Queued
                       /\ state[t] = "Terminated"
                       /\ life[t] # "none"

UncreatedIsNowhere ==
    \A t \in Thread : life[t] = "none" => t \notin OnCpu \cup Queued /\ state[t] = "Ready"

InitThreadsStay ==
    \A t \in InitThreads : life[t] = "owned" /\ state[t] = "Ready"

IndInv ==
    /\ TypeOK
    /\ PlacedOnce
    /\ NoThreadLost
    /\ NoPanic
    /\ RunsOnOwnStack
    /\ QueuedCanRun
    /\ RemovedStaysOut
    /\ UncreatedIsNowhere
    /\ InitThreadsStay

\* What the unwrap at the end of schedule asserts: the thread chosen to run
\* next still exists.
ScheduledThreadAlive == ~panicked

\* Round robin: unless threads block and wake up for ever, since add puts them
\* in front of the others, every queued thread comes to a CPU or leaves the
\* queue because it ended.
NoneAsleep == \A t \in Thread : state[t] \notin {"Blocked", "Waiting"}

EveryThreadRuns ==
    <>[]NoneAsleep => \A t \in Thread : t \in Queued ~> t \notin Queued
=============================================================================
