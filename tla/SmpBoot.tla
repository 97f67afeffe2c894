------------------------------ MODULE SmpBoot -------------------------------
(***************************************************************************)
(* From init_framework to the first timer interrupt of every CPU: the boot *)
(* CPU (BSP) fills the CPUS table, starts the others and publishes what is *)
(* ready through HPET_INIT, SCHEDULER_INIT and START_SCHEDULE; the others  *)
(* run ap_entry; SCHEDULER is a Lazy that whoever uses it first fills in   *)
(* from CPUS.  CPUs are named by their local APIC id.                      *)
(***************************************************************************)
EXTENDS Integers, FiniteSets

CONSTANTS
    Cpu,        \* local APIC ids of the machine
    Bsp,        \* the boot CPU
    Ids,        \* the processor ids the boot loader may report: functions from Cpu
    LowTicks,   \* how many ticks the low half of the HPET counter holds
    MaxCounter  \* bound on the HPET counter

ASSUME BootAssumption ==
    /\ Bsp \in Cpu
    /\ IsFiniteSet(Cpu)
    /\ LowTicks \in Nat \ {0}
    /\ MaxCounter \in Nat

VARIABLES
    smp,        \* whether the framework is built with the feature smp
    id,         \* the processor id of each CPU
    pc,         \* where a CPU is in init_framework or ap_entry
    table,      \* CPUS: which CpuInfo each listed CPU has
    writer,     \* whether CPUS is locked for writing
    todo,       \* the CPUs init_ap has still to look at
    loaded,     \* the CpuInfo whose tables a CPU has loaded, or NotLoaded
    idt,        \* the CPUs that have loaded the interrupt table
    gate,       \* the CPUs whose system call registers are set
    timer,      \* the CPUs whose APIC timer runs
    hpet_init, scheduler_init, start_schedule, \* the flags
    lazy,       \* SCHEDULER: not there, being filled in by a thread or a handler, done
    on,         \* the CPUs that take interrupts
    tick,       \* the CPUs inside timer_handler
    adding,     \* whether the kernel's first thread is in new_kernel_thread
    scheduled,  \* the CPUs on which schedule has returned
    counter,    \* the HPET counter
    reading     \* get_counter on each CPU

boot == <<smp, id>>
cpus == <<table, writer, todo>>
ready == <<loaded, idt, gate, timer>>
flags == <<hpet_init, scheduler_init, start_schedule>>
clock == <<counter, reading>>
running == <<lazy, on, tick, adding, scheduled>>
vars == <<boot, pc, cpus, ready, flags, running, clock>>

NotLoaded == "not loaded"

NoReading == [high |-> 0, low |-> 0, since |-> 0]

Init ==
    /\ smp \in BOOLEAN
    /\ id \in Ids
    /\ pc = [c \in Cpu |-> IF c = Bsp THEN "init_bsp" ELSE "parked"]
    /\ table = [c \in {Bsp} |-> "new"]
    /\ writer = FALSE
    /\ todo = {}
    /\ loaded = [c \in Cpu |-> NotLoaded]
    /\ idt = {} /\ gate = {} /\ timer = {}
    /\ hpet_init = FALSE /\ scheduler_init = FALSE /\ start_schedule = FALSE
    /\ lazy = [state |-> "none", by |-> Bsp, known |-> {}]
    /\ on = {} /\ tick = {} /\ adding = FALSE /\ scheduled = {}
    /\ counter = 0
    /\ reading = [c \in Cpu |-> NoReading]

Goto(c, from, to) == pc[c] = from /\ pc' = [pc EXCEPT ![c] = to]
-----------------------------------------------------------------------------
(* The boot CPU. *)

init_bsp ==
    /\ Goto(Bsp, "init_bsp", "load_idt")
    /\ loaded' = [loaded EXCEPT ![Bsp] = table[Bsp]]
    /\ UNCHANGED <<boot, cpus, idt, gate, timer, flags, running, clock>>

load_idt(c, next) ==
    /\ Goto(c, "load_idt", next)
    /\ idt' = idt \cup {c}
    /\ UNCHANGED <<boot, cpus, loaded, gate, timer, flags, running, clock>>

hpet_init_done ==
    /\ Goto(Bsp, "hpet", IF smp THEN "lock_cpus" ELSE "calibrate")
    /\ hpet_init' = TRUE
    /\ UNCHANGED <<boot, cpus, ready, scheduler_init, start_schedule, running, clock>>

\* CPUS stays locked for writing until init_ap returns.
init_ap_begins ==
    /\ Goto(Bsp, "lock_cpus", "init_ap")
    /\ ~writer
    /\ writer' = TRUE
    /\ todo' = Cpu
    /\ UNCHANGED <<boot, table, ready, flags, running, clock>>

\* A CPU is passed over when its processor id is the BSP's APIC id.  Writing
\* the address starts a CPU; the BSP itself runs and does not look at it.
Starts(c) == IF pc[c] = "parked" THEN [pc EXCEPT ![c] = "load"] ELSE pc

init_ap_of_all(c) ==
    /\ pc[Bsp] = "init_ap"
    /\ c \in todo
    /\ todo' = todo \ {c}
    /\ table' = [d \in DOMAIN table \cup {c} |-> IF d = c THEN "ap" ELSE table[d]]
    /\ pc' = Starts(c)
    /\ UNCHANGED <<boot, writer, ready, flags, running, clock>>
init_ap(c) ==
    /\ pc[Bsp] = "init_ap"
    /\ c \in todo
    /\ todo' = todo \ {c}
    /\ \/ /\ id[c] = Bsp
          /\ UNCHANGED <<pc, table>>
       \/ /\ id[c] # Bsp
          /\ table' = [d \in DOMAIN table \cup {c} |-> IF d = c THEN "ap" ELSE table[d]]
          /\ pc' = Starts(c)
    /\ UNCHANGED <<boot, writer, ready, flags, running, clock>>

init_ap_returns ==
    /\ todo = {}
    /\ Goto(Bsp, "init_ap", "calibrate")
    /\ writer' = FALSE
    /\ UNCHANGED <<boot, table, todo, ready, flags, running, clock>>

\* apic::init, the drivers, user::init and scheduler::init; then the kernel runs.
BspSet(from, to) ==
    /\ Goto(Bsp, from, to)
    /\ UNCHANGED <<boot, cpus, loaded, idt, timer, hpet_init, running, clock>>

bsp_user_init ==
    /\ BspSet("user_init", "scheduler_init")
    /\ gate' = gate \cup {Bsp}
    /\ UNCHANGED <<scheduler_init, start_schedule>>

scheduler_init_done ==
    /\ BspSet("scheduler_init", "kernel")
    /\ scheduler_init' = TRUE
    /\ UNCHANGED <<gate, start_schedule>>

StartForgets ==
    /\ Goto(Bsp, "kernel", "running")
    /\ ~adding
    /\ on' = on \cup {Bsp}
    /\ UNCHANGED <<boot, cpus, ready, flags, lazy, tick, adding, scheduled, clock>>
Start ==
    /\ Goto(Bsp, "kernel", "running")
    /\ ~adding
    /\ start_schedule' = TRUE
    /\ on' = on \cup {Bsp}
    /\ UNCHANGED <<boot, cpus, ready, hpet_init, scheduler_init, lazy, tick, adding, scheduled, clock>>
-----------------------------------------------------------------------------
(* ap_entry. *)

\* An unlisted CPU would panic here.
ap_load(c) ==
    /\ ~writer
    /\ Goto(c, "load", IF c \in DOMAIN table THEN "load_idt" ELSE "panic")
    /\ loaded' = IF c \in DOMAIN table THEN [loaded EXCEPT ![c] = table[c]] ELSE loaded
    /\ UNCHANGED <<boot, cpus, idt, gate, timer, flags, running, clock>>

ap_waits(c) ==
    /\ \/ Goto(c, "wait_hpet", "calibrate") /\ hpet_init
       \/ Goto(c, "wait_scheduler", "user_init") /\ scheduler_init
    /\ UNCHANGED <<boot, cpus, ready, flags, running, clock>>

ap_user_init(c) ==
    /\ c # Bsp
    /\ Goto(c, "user_init", "wait_start")
    /\ gate' = gate \cup {c}
    /\ UNCHANGED <<boot, cpus, loaded, idt, timer, flags, running, clock>>

ap_runs(c) ==
    /\ Goto(c, "wait_start", "running")
    /\ start_schedule
    /\ on' = on \cup {c}
    /\ UNCHANGED <<boot, cpus, ready, flags, lazy, tick, adding, scheduled, clock>>
-----------------------------------------------------------------------------
(* calibrate_timer measures the APIC timer against the HPET, whose 64-bit  *)
(* counter is read in halves: high, low, and high again.                   *)

HpetTicks ==
    /\ counter < MaxCounter
    /\ counter' = counter + 1
    /\ UNCHANGED <<boot, pc, cpus, ready, flags, running, reading>>

High == counter \div LowTicks

Reads(c) == UNCHANGED <<boot, cpus, loaded, idt, gate, flags, running, counter>>

read_high(c) ==
    /\ Goto(c, "calibrate", "low")
    /\ reading' = [reading EXCEPT ![c] = [high |-> High, low |-> 0, since |-> counter]]
    /\ Reads(c) /\ UNCHANGED timer

read_low(c) ==
    /\ Goto(c, "low", "high")
    /\ reading' = [reading EXCEPT ![c].low = counter % LowTicks]
    /\ Reads(c) /\ UNCHANGED timer

\* The counter is read again when the high half has changed; else the wait of
\* a millisecond follows, and the timer is started.
read_high_once(c) ==
    /\ Goto(c, "high", IF c = Bsp THEN "user_init" ELSE "wait_scheduler")
    /\ timer' = timer \cup {c}
    /\ Reads(c) /\ UNCHANGED reading
read_high_again(c) ==
    /\ \/ High # reading[c].high /\ Goto(c, "high", "calibrate") /\ UNCHANGED timer
       \/ /\ High = reading[c].high
          /\ Goto(c, "high", IF c = Bsp THEN "user_init" ELSE "wait_scheduler")
          /\ timer' = timer \cup {c}
    /\ Reads(c) /\ UNCHANGED reading
-----------------------------------------------------------------------------
(* The scheduler comes into being at its first use, by the first thread    *)
(* the kernel creates or by the first timer interrupt of any CPU.          *)

new_kernel_thread ==
    /\ pc[Bsp] \in {"kernel", "running"}
    /\ lazy.state = "none" /\ ~adding /\ Bsp \notin tick
    /\ adding' = TRUE
    /\ lazy' = [lazy EXCEPT !.state = "thread"]
    /\ UNCHANGED <<boot, pc, cpus, ready, flags, on, tick, scheduled, clock>>

thread_made_scheduler ==
    /\ lazy.state = "thread"
    /\ Bsp \notin tick /\ ~writer
    /\ lazy' = [lazy EXCEPT !.state = "done", !.known = DOMAIN table]
    /\ adding' = FALSE
    /\ UNCHANGED <<boot, pc, cpus, ready, flags, on, tick, scheduled, clock>>

timer_interrupt(c) ==
    /\ c \in on \cap timer
    /\ c \notin tick
    /\ tick' = tick \cup {c}
    /\ UNCHANGED <<boot, pc, cpus, ready, flags, lazy, on, adding, scheduled, clock>>

handler_makes_scheduler(c) ==
    /\ c \in tick /\ ~writer
    /\ \/ lazy.state = "none" /\ lazy' = [lazy EXCEPT !.state = "handler", !.by = c]
       \/ lazy.state = "handler" /\ lazy.by = c /\ lazy' = [lazy EXCEPT !.state = "done", !.known = DOMAIN table]
    /\ UNCHANGED <<boot, pc, cpus, ready, flags, on, tick, adding, scheduled, clock>>

\* schedule: the CPU's entry of current_threads, without which it panics, and
\* its kernel stack into its CpuInfo.
schedule(c) ==
    /\ c \in tick
    /\ lazy.state = "done" /\ ~writer
    /\ tick' = tick \ {c}
    /\ pc' = IF c \in lazy.known THEN pc ELSE [pc EXCEPT ![c] = "panic"]
    /\ on' = IF c \in lazy.known THEN on ELSE on \ {c}
    /\ scheduled' = scheduled \cup ({c} \cap lazy.known)
    /\ UNCHANGED <<boot, cpus, ready, flags, lazy, adding, clock>>
-----------------------------------------------------------------------------
BspNext ==
    \/ init_bsp
    \/ load_idt(Bsp, "hpet")
    \/ hpet_init_done
    \/ init_ap_begins
    \/ \E c \in Cpu : init_ap(c)
    \/ init_ap_returns
    \/ bsp_user_init
    \/ scheduler_init_done
    \/ Start

Calibrates(c) == read_high(c) \/ read_low(c) \/ read_high_again(c)

ApNext(c) ==
    \/ ap_load(c)
    \/ c # Bsp /\ load_idt(c, "wait_hpet")
    \/ ap_waits(c)
    \/ ap_user_init(c)
    \/ ap_runs(c)

Handler(c) == handler_makes_scheduler(c) \/ schedule(c)

Next ==
    \/ BspNext
    \/ HpetTicks
    \/ new_kernel_thread
    \/ thread_made_scheduler
    \/ \E c \in Cpu : ApNext(c) \/ Calibrates(c) \/ timer_interrupt(c) \/ Handler(c)

\* Every CPU goes on, every timer ticks.  Whether and when the kernel creates
\* a thread is open.
Spec ==
    /\ Init
    /\ [][Next]_vars
    /\ WF_vars(BspNext) /\ WF_vars(thread_made_scheduler)
    /\ \A c \in Cpu : WF_vars(ApNext(c)) /\ WF_vars(Calibrates(c)) /\ WF_vars(timer_interrupt(c)) /\ WF_vars(Handler(c))
-----------------------------------------------------------------------------
\* Only the BSP has the BSP's APIC id as its processor id.
IdsAgree == \A c \in Cpu : id[c] = Bsp <=> c = Bsp

\* A CPU that is in the timer handler has its own tables loaded, the CpuInfo
\* that schedule will write its kernel stack to is the one it has loaded, the
\* scheduler knows it, and its system calls work, if the processor ids that
\* init_ap compares with the BSP's APIC id tell the BSP from the others.
TickFindsItsCpu ==
    IdsAgree =>
        /\ \A c \in tick :
              /\ c \in idt \cap gate \cap DOMAIN table
              /\ loaded[c] = table[c]
              /\ lazy.state = "done" => c \in lazy.known
        /\ \A c \in Cpu : pc[c] # "panic"

\* A value that get_counter returns is one the counter had while it was read,
\* also when the low half overflows between the reads of the halves.
CounterNotTorn ==
    \A c \in timer :
        LET value == reading[c].high * LowTicks + reading[c].low
        IN  reading[c].since <= value /\ value <= counter

\* The BSP's timer interrupts the thread that is filling in SCHEDULER with
\* interrupts enabled; the handler waits for it for ever.
LazyInterrupted == lazy.state = "thread" /\ Bsp \in tick

\* Every CPU, or the BSP alone without the feature smp, gets to schedule
\* threads, unless the scheduler's creation by a thread is interrupted.
EveryCpuSchedules == IdsAgree => <>(LazyInterrupted \/ scheduled = IF smp THEN Cpu ELSE {Bsp})
=============================================================================
