---------------------------- MODULE KernelLocks -----------------------------
(***************************************************************************)
(* The spin locks of the kernel and the order in which its calls take them *)
(* on several CPUs, with timer and device interrupts and preemption.  What *)
(* a call does between two lock operations is left out: a call is the list *)
(* of its lock and interrupt-flag operations, in the order of the source,  *)
(* guards being given back where Rust drops them.                          *)
(*                                                                         *)
(* A context is a thread, or a CPU in its interrupt handler.  Every thread *)
(* makes one call.  The kernel built on this framework decides which calls *)
(* are made at the same time; the caller's own guard on a process is part  *)
(* of a call here.                                                         *)
(***************************************************************************)
EXTENDS Integers, Sequences, FiniteSets

CONSTANTS
    Cpus,       \* how many CPUs there may be
    Threads,    \* how many threads there are
    Assignment, \* which calls the threads make: functions from Thread to Call
    MaxDevice   \* bound on the device interrupts

VARIABLES
    online,     \* the CPUs that are there; the first one gets the device interrupts
    call,       \* the call a thread makes
    rest,       \* what a context has still to do of its call or handler
    owner,      \* the context that holds a mutex, or Nobody
    word,       \* the lock word of the process: who set the writer bit, and the readers
    guards,     \* how many guards of each kind on the process a thread has
    on,         \* whether a CPU takes interrupts
    saved,      \* the interrupt flags that a thread will put back
    current,    \* the thread of each CPU
    ready,      \* the queue of the scheduler
    devices     \* the device interrupts still to come

vars == <<online, call, rest, owner, word, guards, on, saved, current, ready, devices>>

Cpu == 1 .. Cpus

Thread == Cpus + 1 .. Cpus + Threads

Context == Cpu \cup Thread

Mutex == {"FRAME_ALLOCATOR", "KERNEL_PAGE_TABLE", "SCHEDULER", "KERNEL_PROCESS", "PROCESSES",
          "CONSOLE", "TTYS", "SYSCALL_HANDLER", "IRQ_HANDLER"}

Nobody == 0
-----------------------------------------------------------------------------
Lock(m) == <<"lock", m>>

\* Guards that a scope drops one after the other are dropped in one step.
Unlock(ms) == <<"unlock", ms>>

During(ms, body) == [i \in DOMAIN ms |-> Lock(ms[i])] \o body \o <<Unlock({ms[i] : i \in DOMAIN ms})>>

\* interrupts::without_interrupts: the flag is put back to what it was.
without_interrupts(body) == <<<<"disable">>>> \o body \o <<<<"restore">>>>

\* _print draws on a console, which get_tty looks up in TTYS.
print == without_interrupts(During(<<"CONSOLE", "TTYS">>, << >>))

\* The kernel's page table is locked only while its address is read.
create_page_table_from_kernel ==
    without_interrupts(During(<<"FRAME_ALLOCATOR", "KERNEL_PAGE_TABLE">>, << >>))

\* Process::new, heap.init, map_segments, the thread, PROCESSES.  The user stack
\* takes the frames as heap.init does, and is not repeated; nobody else knows
\* the process before it is in the list.
new_user_process ==
    create_page_table_from_kernel
    \o During(<<"FRAME_ALLOCATOR">>, << >>)
    \o without_interrupts(During(<<"FRAME_ALLOCATOR">>, << >>))
    \o During(<<"SCHEDULER">>, << >>)
    \o During(<<"PROCESSES">>, << >>)

new_kernel_thread ==
    During(<<"KERNEL_PAGE_TABLE">>, << >>)
    \o During(<<"SCHEDULER">>, << >>)
    \o During(<<"KERNEL_PROCESS">>, << >>)

\* A thread for a process that others know.
new_user_thread ==
    <<<<"write">>>> \o During(<<"FRAME_ALLOCATOR">>, << >>) \o During(<<"SCHEDULER">>, << >>) \o <<<<"unwrite">>>>

\* allocate up to sbrk, called by one who reads the process.
heap_allocate ==
    <<<<"read">>>> \o During(<<"FRAME_ALLOCATOR">>, <<<<"read">>, <<"unread">>>>) \o <<<<"unread">>>>

\* The same for a caller that reaches the heap through process.write().
heap_allocate_writing ==
    <<<<"write">>>> \o During(<<"FRAME_ALLOCATOR">>, <<<<"read">>, <<"unread">>>>) \o <<<<"unwrite">>>>

\* clear gives its caller's write lock back by force and takes it itself; when
\* the caller's guard is dropped the lock is given back a second time.
heap_clear ==
    <<<<"write">>>>
    \o During(<<"FRAME_ALLOCATOR">>, <<<<"force">>, <<"write">>, <<"unwrite">>>>)
    \o <<<<"unwrite">>>>

\* exit_process is a method of a process its caller reads; it reads each in turn.
exit_process ==
    <<<<"read">>>> \o During(<<"PROCESSES">>, <<<<"read">>, <<"unread">>>>) \o <<<<"unread">>>>

\* The three guards outlive the instruction that enables interrupts.
switch_to_ttys_first ==
    <<<<"cli">>>> \o During(<<"TTYS", "KERNEL_PAGE_TABLE", "FRAME_ALLOCATOR">>, <<<<"sti">>>>)
switch_to ==
    <<<<"cli">>>> \o During(<<"KERNEL_PAGE_TABLE", "FRAME_ALLOCATOR", "TTYS">>, <<<<"sti">>>>)

\* pci_bar_init and PciRoot::map, a page of them.
map_bar == During(<<"KERNEL_PAGE_TABLE", "FRAME_ALLOCATOR">>, << >>)

\* alloc_for_dma, when the allocator reports that it is out of frames.
alloc_for_dma == During(<<"FRAME_ALLOCATOR">>, print)

set_font == During(<<"CONSOLE">>, << >>)

register_irq_handler == During(<<"IRQ_HANDLER">>, << >>)

\* A system call runs with interrupts masked and the lock of the handler held.
syscall(body) == without_interrupts(During(<<"SYSCALL_HANDLER">>, body))

Program ==
    [new_user_process |-> new_user_process, new_kernel_thread |-> new_kernel_thread,
     new_user_thread |-> new_user_thread, heap_allocate |-> heap_allocate,
     heap_allocate_writing |-> heap_allocate_writing, heap_clear |-> heap_clear,
     exit_process |-> exit_process, switch_to |-> switch_to, map_bar |-> map_bar,
     alloc_for_dma |-> alloc_for_dma, set_font |-> set_font,
     register_irq_handler |-> register_irq_handler,
     syscall_print |-> syscall(print), syscall_switch_to |-> syscall(switch_to)]

Call == DOMAIN Program

\* Every CPU starts with a thread of its own.
ASSUME LocksAssumption ==
    /\ Cpus \in Nat \ {0}
    /\ Threads \in Nat /\ Threads >= Cpus
    /\ Assignment \subseteq [Thread -> Call]
    /\ MaxDevice \in Nat

\* The handlers, which run with interrupts masked: the scheduler is called
\* under its lock; an interrupt nobody registered for is logged, by print,
\* under the lock of the handler.
timer_handler == <<Lock("SCHEDULER"), <<"schedule">>>>

default_irq_handler == During(<<"IRQ_HANDLER", "CONSOLE", "TTYS">>, << >>) \o <<<<"return">>>>
-----------------------------------------------------------------------------
Init ==
    /\ \E n \in Cpu :
          /\ online = 1 .. n
          /\ current = [c \in online |-> Cpus + c]
          /\ ready = [i \in 1 .. Threads - n |-> Cpus + n + i]
    /\ call \in Assignment
    /\ rest = [x \in Context |-> IF x \in Thread THEN Program[call[x]] ELSE << >>]
    /\ owner = [m \in Mutex |-> Nobody]
    /\ word = [writer |-> Nobody, readers |-> 0]
    /\ guards = [t \in Thread |-> [write |-> 0, read |-> 0]]
    /\ on = [c \in Cpu |-> TRUE]
    /\ saved = [t \in Thread |-> << >>]
    /\ devices = MaxDevice

Handling(c) == rest[c] # << >>

\* The CPU that executes the instructions of a context.
RunsOn(x, c) == IF x \in Cpu THEN c = x ELSE c \in online /\ current[c] = x /\ ~Handling(c)

\* Context x executes its next operation, which is op, on CPU c.
Executes(x, c, op) ==
    /\ rest[x] # << >>
    /\ Head(rest[x]) = op
    /\ RunsOn(x, c)
    /\ rest' = [rest EXCEPT ![x] = Tail(@)]
    /\ UNCHANGED <<online, call, devices>>

TakeMutex(x, c, m) ==
    /\ Executes(x, c, Lock(m))
    /\ owner[m] = Nobody
    /\ owner' = [owner EXCEPT ![m] = x]
    /\ UNCHANGED <<word, guards, on, saved, current, ready>>

DropMutexes(x, c) ==
    /\ rest[x] # << >>
    /\ Head(rest[x])[1] = "unlock"
    /\ Executes(x, c, Head(rest[x]))
    /\ owner' = [m \in Mutex |-> IF m \in Head(rest[x])[2] THEN Nobody ELSE owner[m]]
    /\ UNCHANGED <<word, guards, on, saved, current, ready>>

\* The lock of the process, as the callers use it: readers share it, and a
\* writer's guard clears the writer bit without looking whose it is.
ReadUnchecked(x, c) ==
    /\ Executes(x, c, <<"read">>)
    /\ word' = [word EXCEPT !.readers = @ + 1]
    /\ guards' = [guards EXCEPT ![x].read = @ + 1]
    /\ UNCHANGED <<owner, on, saved, current, ready>>
Read(x, c) ==
    /\ Executes(x, c, <<"read">>)
    /\ word.writer = Nobody
    /\ word' = [word EXCEPT !.readers = @ + 1]
    /\ guards' = [guards EXCEPT ![x].read = @ + 1]
    /\ UNCHANGED <<owner, on, saved, current, ready>>

DropRead(x, c) ==
    /\ Executes(x, c, <<"unread">>)
    /\ word' = [word EXCEPT !.readers = @ - 1]
    /\ guards' = [guards EXCEPT ![x].read = @ - 1]
    /\ UNCHANGED <<owner, on, saved, current, ready>>

Write(x, c) ==
    /\ Executes(x, c, <<"write">>)
    /\ word = [writer |-> Nobody, readers |-> 0]
    /\ word' = [word EXCEPT !.writer = x]
    /\ guards' = [guards EXCEPT ![x].write = @ + 1]
    /\ UNCHANGED <<owner, on, saved, current, ready>>

DropWrite(x, c) ==
    /\ Executes(x, c, <<"unwrite">>)
    /\ word' = [word EXCEPT !.writer = Nobody]
    /\ guards' = [guards EXCEPT ![x].write = @ - 1]
    /\ UNCHANGED <<owner, on, saved, current, ready>>

\* The guard that was forced open stays with its owner.
ForceWriteUnlock(x, c) ==
    /\ Executes(x, c, <<"force">>)
    /\ word' = [word EXCEPT !.writer = Nobody]
    /\ UNCHANGED <<owner, guards, on, saved, current, ready>>

Disable(x, c) ==
    /\ Executes(x, c, <<"disable">>)
    /\ saved' = [saved EXCEPT ![x] = <<on[c]>> \o @]
    /\ on' = [on EXCEPT ![c] = FALSE]
    /\ UNCHANGED <<owner, word, guards, current, ready>>

RestoreEnabled(x, c) ==
    /\ Executes(x, c, <<"restore">>)
    /\ on' = [on EXCEPT ![c] = TRUE]
    /\ saved' = [saved EXCEPT ![x] = Tail(@)]
    /\ UNCHANGED <<owner, word, guards, current, ready>>
Restore(x, c) ==
    /\ Executes(x, c, <<"restore">>)
    /\ on' = [on EXCEPT ![c] = @ \/ Head(saved[x])]
    /\ saved' = [saved EXCEPT ![x] = Tail(@)]
    /\ UNCHANGED <<owner, word, guards, current, ready>>

Cli(x, c) ==
    /\ Executes(x, c, <<"cli">>)
    /\ on' = [on EXCEPT ![c] = FALSE]
    /\ UNCHANGED <<owner, word, guards, saved, current, ready>>

Sti(x, c) ==
    /\ Executes(x, c, <<"sti">>)
    /\ on' = [on EXCEPT ![c] = TRUE]
    /\ UNCHANGED <<owner, word, guards, saved, current, ready>>

\* Scheduler::schedule as its module has it, first come, first served, and the
\* return to the chosen thread.  Whatever thread that is was interrupted when
\* it took interrupts, so it takes them again.
ScheduleForgets(x, c) ==
    /\ Executes(x, c, <<"schedule">>)
    /\ owner' = [owner EXCEPT !["SCHEDULER"] = Nobody]
    /\ current' = IF ready = << >> THEN current ELSE [current EXCEPT ![c] = Head(ready)]
    /\ ready' = IF ready = << >> THEN ready ELSE Tail(ready)
    /\ on' = [on EXCEPT ![c] = TRUE]
    /\ UNCHANGED <<word, guards, saved>>
Schedule(x, c) ==
    /\ Executes(x, c, <<"schedule">>)
    /\ owner' = [owner EXCEPT !["SCHEDULER"] = Nobody]
    /\ LET queue == Append(ready, current[c])
       IN  /\ current' = [current EXCEPT ![c] = Head(queue)]
           /\ ready' = Tail(queue)
    /\ on' = [on EXCEPT ![c] = TRUE]
    /\ UNCHANGED <<word, guards, saved>>

Return(x, c) ==
    /\ Executes(x, c, <<"return">>)
    /\ on' = [on EXCEPT ![c] = TRUE]
    /\ UNCHANGED <<owner, word, guards, saved, current, ready>>

Interrupt(c, handler) ==
    /\ on[c]
    /\ ~Handling(c)
    /\ rest' = [rest EXCEPT ![c] = handler]
    /\ on' = [on EXCEPT ![c] = FALSE]
    /\ UNCHANGED <<online, call, owner, word, guards, saved, current, ready>>

timer_interrupt(c) == Interrupt(c, timer_handler) /\ UNCHANGED devices

\* The I/O APIC sends every device interrupt to the boot CPU.
device_interrupt(c) ==
    /\ c = 1
    /\ devices > 0
    /\ devices' = devices - 1
    /\ Interrupt(c, default_irq_handler)

Step(x, c) ==
    \/ \E m \in Mutex : TakeMutex(x, c, m)
    \/ DropMutexes(x, c)
    \/ Read(x, c)
    \/ DropRead(x, c)
    \/ Write(x, c)
    \/ DropWrite(x, c)
    \/ ForceWriteUnlock(x, c)
    \/ Disable(x, c)
    \/ Restore(x, c)
    \/ Cli(x, c)
    \/ Sti(x, c)
    \/ Schedule(x, c)
    \/ Return(x, c)

Runs(x) == \E c \in online : Step(x, c)

Next ==
    \/ \E x \in Context : Runs(x)
    \/ \E c \in online : timer_interrupt(c) \/ device_interrupt(c)

\* The timer of a CPU goes on ticking.  A slice is longer than what a call does
\* under a lock, so a context whose turn comes again and again and finds its
\* lock free again and again moves; a spin lock promises no more than that.
Spec ==
    /\ Init
    /\ [][Next]_vars
    /\ \A x \in Context : SF_vars(Runs(x))
    /\ \A c \in Cpu : WF_vars(c \in online /\ timer_interrupt(c))
-----------------------------------------------------------------------------
Asks(x, op) == rest[x] # << >> /\ Head(rest[x])[1] = op

\* The contexts that must let go of something before x can go on.
BlockedBy(x) ==
    CASE Asks(x, "lock") -> {owner[Head(rest[x])[2]]} \ {Nobody}
      [] Asks(x, "read") -> {word.writer} \ {Nobody}
      [] Asks(x, "write") -> ({word.writer} \ {Nobody}) \cup {t \in Thread : guards[t].read > 0}
      [] OTHER -> {}

Preempted(t) == t \in Thread /\ \A c \in online : current[c] # t

\* CPU c stays with one context of X for ever.
Captured(c, X) == c \in X \/ (current[c] \in X /\ ~on[c])

\* No context of X will move again: each waits for another one, or is on a
\* CPU whose handler does, or waits for a CPU when none is ever given back.
Hopeless(X) ==
    \A x \in X :
        /\ rest[x] # << >>
        /\ \/ BlockedBy(x) \cap X # {}
           \/ \E c \in online \cap X : current[c] = x
           \/ Preempted(x) /\ \A c \in online : Captured(c, X)

Hung == \E X \in (SUBSET Context) \ {{}} : Hopeless(X)

\* create_page_table_from_kernel locks the frames before the kernel's table,
\* everybody else the other way round.
FrameBeforeTable(x) ==
    owner["FRAME_ALLOCATOR"] = x /\ Asks(x, "lock") /\ Head(rest[x])[2] = "KERNEL_PAGE_TABLE"

\* The user heap locks the frames before the process it belongs to.
FrameBeforeProcess(x) == owner["FRAME_ALLOCATOR"] = x /\ (Asks(x, "read") \/ Asks(x, "write"))

Holds(x) ==
    {m \in Mutex : owner[m] = x}
    \cup (IF x \in Thread /\ guards[x] # [write |-> 0, read |-> 0] THEN {"process"} ELSE {})

\* What calls hold while their CPU takes interrupts: most locks of the kernel,
\* but the locks of the console only in set_font and after the sti of switch_to.
HeldOpenly(t) ==
    Holds(t) \cap ({"FRAME_ALLOCATOR", "KERNEL_PAGE_TABLE", "SCHEDULER", "KERNEL_PROCESS", "PROCESSES",
                   "IRQ_HANDLER", "process"}
                  \cup (IF call[t] = "set_font" THEN {"CONSOLE"} ELSE {})
                  \cup (IF call[t] \in {"switch_to", "syscall_switch_to"} THEN {"TTYS", "SYSCALL_HANDLER"} ELSE {}))

InterruptedHolder(t) ==
    t \in Thread /\ HeldOpenly(t) # {} /\ (Preempted(t) \/ \E c \in online : current[c] = t /\ Handling(c))

\* Whenever contexts of the kernel wait for each other for ever, it is for one
\* of three reasons: the frames locked before the kernel's page table, the
\* frames locked before a process, or a lock held by a thread that an
\* interrupt took off its CPU.  There is no other cycle in the lock order of
\* the calls, and the console's locks are never among the last unless by
\* set_font or by the sti of switch_to.
HangHasCause ==
    \A X \in (SUBSET Context) \ {{}} :
        Hopeless(X) => \E x \in X : FrameBeforeTable(x) \/ FrameBeforeProcess(x) \/ InterruptedHolder(x)

\* No interrupt enters a section that has masked them, print's or the one of
\* create_page_table_from_kernel, except under the sti at the end of switch_to.
SectionsMasked ==
    \A t \in Thread :
        saved[t] # << >> /\ (Preempted(t) \/ \E c \in online : current[c] = t /\ Handling(c))
            => call[t] = "syscall_switch_to"

\* Who writes the process has it alone, as long as nobody clears its heap: the
\* clearing thread gives the lock back twice, the second time for another.
WriterAlone ==
    (\E t, u \in Thread : t # u /\ guards[t].write > 0 /\ guards[u] # [write |-> 0, read |-> 0])
        => \E t \in Thread : call[t] = "heap_clear"

\* Every call returns, on one CPU or on several, unless the kernel hangs in
\* the sense of HangHasCause: nothing starves and nothing livelocks.
CallsReturn == <>(Hung \/ \A t \in Thread : rest[t] = << >>)
=============================================================================
