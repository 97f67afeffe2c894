-------------------------- MODULE KernelLocks_proofs -------------------------
(***************************************************************************)
(* The locks of the kernel for any number of CPUs and threads, whatever    *)
(* calls the threads make: a hang has one of the three causes that         *)
(* HangHasCause names, no interrupt enters a section that masks them, and  *)
(* who writes a process has it alone.  That each call keeps to the         *)
(* discipline of the locks is shown in KernelCalls_proofs.                 *)
(***************************************************************************)
EXTENDS KernelCalls_proofs

(* The inductive invariant.                                                *)

CallOf(x) == IF x \in Thread THEN call[x] ELSE Handler

Mutexes(x) == {m \in Mutex : owner[m] = x}

\* The local state a context is in.
LocalOf(x) ==
    IF x \in Thread THEN L(Mutexes(x), Len(saved[x]), guards[x].read, guards[x].write)
    ELSE L(Mutexes(x), 0, 0, 0)

TypeOK ==
    /\ online \in SUBSET Cpu /\ 1 \in online
    /\ call \in [Thread -> Call]
    /\ rest \in [Context -> Seq(Op)]
    /\ owner \in [Mutex -> Context \cup {Nobody}]
    /\ word \in [writer : Thread \cup {Nobody}, readers : Nat]
    /\ guards \in [Thread -> [write : Nat, read : Nat]]
    /\ on \in [Cpu -> BOOLEAN]
    /\ saved \in [Thread -> Seq(BOOLEAN)]
    /\ current \in [online -> Thread]
    /\ ready \in Seq(Thread)
    /\ devices \in Nat

\* What a context has still to do takes it, from where it is, to having nothing.
Obeys == \A x \in Context : Outline(CallOf(x), rest[x], LocalOf(x), Idle)

\* A thread is in one place.
Placed ==
    /\ \A c, d \in online : current[c] = current[d] => c = d
    /\ \A i, j \in DOMAIN ready : ready[i] = ready[j] => i = j
    /\ \A i \in DOMAIN ready, c \in online : ready[i] # current[c]

\* A thread that has masked interrupts runs, with interrupts off, and only the
\* outermost of its sections may switch them on again.
Undisturbed(t) ==
    /\ \E c \in online : current[c] = t /\ ~Handling(c) /\ ~on[c]
    /\ \A i \in 1 .. Len(saved[t]) - 1 : ~saved[t][i]

MaskedInside == \A t \in Thread : saved[t] # << >> /\ call[t] # "syscall_switch_to" => Undisturbed(t)

\* The guards on the process, numbered for each reader.
ReadGuards == {p \in Thread \X Nat : p[2] < guards[p[1]].read}

\* Set S has n elements: they can be numbered.
Counts(n, S) ==
    \E e \in [1 .. n -> S] :
        /\ \A i, j \in 1 .. n : e[i] = e[j] => i = j
        /\ \A p \in S : \E i \in 1 .. n : e[i] = p

\* The lock word counts the readers, and the writer it names has a guard; unless
\* heaps are cleared, it tells of every writer and keeps readers out.
ProcessLock ==
    /\ Counts(word.readers, ReadGuards)
    /\ word.writer # Nobody => guards[word.writer].write > 0
    /\ (\A t \in Thread : call[t] # "heap_clear") =>
          /\ word.writer # Nobody => word.readers = 0
          /\ \A t \in Thread : guards[t].write > 0 => word.writer = t /\ guards[t].write = 1

LocksInv == TypeOK /\ Obeys /\ Placed /\ MaskedInside /\ ProcessLock

\* A set counts one more, or one less, with an element more or less.
LEMMA CountNone ==
    ASSUME NEW S
    PROVE  Counts(0, S) <=> S = {}
<1>1. \A i \in 1 .. 0 : FALSE
  OBVIOUS
<1>2. ASSUME S = {} PROVE [i \in 1 .. 0 |-> 0] \in [1 .. 0 -> S]
  BY <1>1
<1> QED
  BY <1>1, <1>2, Zenon DEF Counts

LEMMA CountMore ==
    ASSUME NEW n \in Nat, NEW S, NEW p, p \notin S, Counts(n, S)
    PROVE  Counts(n + 1, S \cup {p})
<1>1. PICK e \in [1 .. n -> S] : /\ \A i, j \in 1 .. n : e[i] = e[j] => i = j
                               /\ \A q \in S : \E i \in 1 .. n : e[i] = q
  BY DEF Counts
<1> DEFINE f == [i \in 1 .. n + 1 |-> IF i = n + 1 THEN p ELSE e[i]]
<1>2. /\ f[n + 1] = p /\ n + 1 \in 1 .. n + 1
      /\ \A i \in 1 .. n : i \in 1 .. n + 1 /\ f[i] = e[i] /\ e[i] \in S
      /\ \A i \in 1 .. n + 1 : i \in 1 .. n \/ i = n + 1
  OBVIOUS
<1>3. f \in [1 .. n + 1 -> S \cup {p}]
  BY <1>2
<1> HIDE DEF f
<1>4. \A i, j \in 1 .. n + 1 : f[i] = f[j] => i = j
  BY <1>1, <1>2
<1>5. \A q \in S \cup {p} : \E i \in 1 .. n + 1 : f[i] = q
  BY <1>1, <1>2
<1> QED
  BY <1>3, <1>4, <1>5, Zenon DEF Counts

LEMMA CountLess ==
    ASSUME NEW n \in Nat, NEW S, NEW p \in S, Counts(n, S)
    PROVE  n - 1 \in Nat /\ Counts(n - 1, S \ {p})
<1>1. PICK e \in [1 .. n -> S] : /\ \A i, j \in 1 .. n : e[i] = e[j] => i = j
                               /\ \A q \in S : \E i \in 1 .. n : e[i] = q
  BY DEF Counts
<1>2. PICK k \in 1 .. n : e[k] = p
  BY <1>1
\* The last element takes the number that becomes free.
<1> DEFINE f == [i \in 1 .. n - 1 |-> IF i = k THEN e[n] ELSE e[i]]
<1>3. n - 1 \in Nat /\ n \in 1 .. n /\ \A i \in 1 .. n : i \in 1 .. n - 1 \/ i = n
  BY <1>2
<1>4. \A i \in 1 .. n - 1 : i \in 1 .. n /\ i # n /\ f[i] = IF i = k THEN e[n] ELSE e[i]
  BY <1>3
<1>5. \A i \in 1 .. n - 1 : f[i] \in S \ {p}
  BY <1>1, <1>2, <1>3, <1>4
<1>6. f \in [1 .. n - 1 -> S \ {p}]
  BY <1>5
<1> HIDE DEF f
<1>7. \A i, j \in 1 .. n - 1 : f[i] = f[j] => i = j
  BY <1>1, <1>3, <1>4
<1>8. ASSUME NEW q \in S \ {p} PROVE \E i \in 1 .. n - 1 : f[i] = q
  <2>1. PICK j \in 1 .. n : e[j] = q
    BY <1>1
  <2>2. j # k
    BY <1>2, <2>1
  <2>3. CASE j = n
    BY <1>2, <1>3, <1>4, <2>1, <2>2, <2>3
  <2>4. CASE j # n
    BY <1>3, <1>4, <2>1, <2>2, <2>4
  <2> QED
    BY <2>3, <2>4
<1> QED
  BY <1>3, <1>6, <1>7, <1>8, Zenon DEF Counts

\* Threads, CPUs and nobody are different.
LEMMA Apart ==
    /\ Cpu \subseteq Int /\ Thread \subseteq Int /\ Context = Cpu \cup Thread
    /\ \A c \in Cpu : c \notin Thread
    /\ Nobody \notin Context
    /\ \A c \in Cpu : Cpus + c \in Thread
    /\ 1 \in Cpu
  BY LocksAssumption DEF Cpu, Thread, Context, Nobody

\* What is known of a context that executes an operation.
LEMMA Executed ==
    ASSUME TypeOK, Obeys, NEW x \in Context, NEW c \in online, NEW op, Executes(x, c, op)
    PROVE  /\ rest[x] # << >> /\ op = Head(rest[x]) /\ op \in Op
           /\ LocalOf(x) \in Local
           /\ Allowed(CallOf(x), op, LocalOf(x))
           /\ Outline(CallOf(x), Tail(rest[x]), After(op, LocalOf(x)), Idle)
           /\ rest' \in [Context -> Seq(Op)]
           /\ rest' = [rest EXCEPT ![x] = Tail(rest[x])]
           /\ op[1] \in CallWord => x \in Thread /\ current[c] = x /\ ~Handling(c)
           /\ op[1] \in HandlerWord => x \in Cpu /\ x \notin Thread /\ x = c
<1>1. /\ rest[x] # << >> /\ op = Head(rest[x]) /\ RunsOn(x, c)
      /\ rest' = [rest EXCEPT ![x] = Tail(rest[x])]
  BY DEF Executes
<1>2. Outline(CallOf(x), rest[x], LocalOf(x), Idle)
  BY DEF Obeys
<1>3. /\ op \in Op /\ LocalOf(x) \in Local /\ Allowed(CallOf(x), op, LocalOf(x))
      /\ Outline(CallOf(x), Tail(rest[x]), After(op, LocalOf(x)), Idle)
  BY <1>1, <1>2, OutlineStep
<1>4. rest' \in [Context -> Seq(Op)]
  <2>1. rest[x] \in Seq(Op) /\ Tail(rest[x]) \in Seq(Op)
    BY <1>1 DEF TypeOK
  <2> QED
    BY <1>1, <2>1 DEF TypeOK
<1>5. ASSUME op[1] \in CallWord PROVE x \in Thread /\ current[c] = x /\ ~Handling(c)
  <2>1. CallOf(x) # Handler
    BY <1>3, <1>5 DEF Allowed, CallWord, HandlerWord
  <2>2. x \in Thread
    BY <2>1 DEF CallOf
  <2> QED
    BY <1>1, <2>2, Apart DEF RunsOn
<1>6. ASSUME op[1] \in HandlerWord PROVE x \in Cpu /\ x \notin Thread /\ x = c
  <2>1. CallOf(x) = Handler
    BY <1>3, <1>6 DEF Allowed, CallWord, HandlerWord
  <2>2. x \notin Thread
    <3>1. x \in Thread => call[x] \in Call
      BY DEF TypeOK
    <3> QED
      BY <2>1, <3>1, CallNames DEF CallOf
  <2> QED
    BY <1>1, <2>2, Apart DEF RunsOn
<1> QED
  BY <1>1, <1>3, <1>4, <1>5, <1>6

\* The step keeps the discipline if the local states change as it says.
LEMMA ObeysKept ==
    ASSUME TypeOK, Obeys, NEW x \in Context, NEW c \in online, NEW op, Executes(x, c, op),
           LocalOf(x)' = After(op, LocalOf(x)),
           \A y \in Context \ {x} : LocalOf(y)' = LocalOf(y)
    PROVE  Obeys'
<1>1. /\ rest' = [rest EXCEPT ![x] = Tail(rest[x])]
      /\ Outline(CallOf(x), Tail(rest[x]), After(op, LocalOf(x)), Idle)
  BY Executed
<1>2. \A y \in Context : CallOf(y)' = CallOf(y)
  BY DEF CallOf, Executes
<1>3. rest'[x] = Tail(rest[x]) /\ \A y \in Context \ {x} : rest'[y] = rest[y]
  BY <1>1 DEF TypeOK
<1>4. ASSUME NEW y \in Context
      PROVE  Outline(CallOf(y)', rest'[y], LocalOf(y)', Idle)
  <2>1. CASE y = x
    BY <1>1, <1>2, <1>3, <2>1
  <2>2. CASE y # x
    BY <1>2, <1>3, <2>2 DEF Obeys
  <2> QED
    BY <2>1, <2>2
<1> QED
  BY <1>4 DEF Obeys

\* Masked sections as they were, if no CPU begins to handle an interrupt.
LEMMA MaskedKept ==
    ASSUME TypeOK, MaskedInside, UNCHANGED <<online, call, on, saved, current>>,
           \A c \in online : Handling(c)' => Handling(c)
    PROVE  MaskedInside'
<1>1. ASSUME NEW t \in Thread, saved'[t] # << >>, call'[t] # "syscall_switch_to"
      PROVE  Undisturbed(t)'
  <2>1. Undisturbed(t)
    BY <1>1 DEF MaskedInside
  <2> QED
    BY <2>1 DEF Undisturbed
<1> QED
  BY <1>1 DEF MaskedInside

\* A step of a call or a handler begins to handle no interrupt.
LEMMA HandlingLeft ==
    ASSUME TypeOK, Obeys, NEW x \in Context, NEW c \in online, NEW op, Executes(x, c, op)
    PROVE  /\ \A d \in online : Handling(d)' => Handling(d)
           /\ x \in Thread => \A d \in online : Handling(d)' <=> Handling(d)
<1>1. rest' = [rest EXCEPT ![x] = Tail(rest[x])] /\ rest[x] # << >>
  BY Executed
<1>2. \A d \in online : d \in Context
  BY Apart DEF TypeOK
<1>3. \A d \in online : d # x => rest'[d] = rest[d]
  BY <1>1, <1>2 DEF TypeOK
<1>4. x \in Thread => \A d \in online : d # x
  BY Apart DEF TypeOK
<1> QED
  BY <1>1, <1>3, <1>4 DEF Handling

LEMMA ProcessLockKept ==
    ASSUME ProcessLock, UNCHANGED <<call, word, guards>>
    PROVE  ProcessLock'
  BY DEF ProcessLock, ReadGuards

LEMMA LocksInit ==
    ASSUME Init
    PROVE  LocksInv
<1>1. PICK n \in Cpu : /\ online = 1 .. n
                       /\ current = [c \in online |-> Cpus + c]
                       /\ ready = [i \in 1 .. Threads - n |-> Cpus + n + i]
  BY DEF Init
<1>2. /\ call \in Assignment
      /\ rest = [x \in Context |-> IF x \in Thread THEN Program[call[x]] ELSE << >>]
      /\ owner = [m \in Mutex |-> Nobody] /\ word = [writer |-> Nobody, readers |-> 0]
      /\ guards = [t \in Thread |-> [write |-> 0, read |-> 0]]
      /\ on = [c \in Cpu |-> TRUE] /\ saved = [t \in Thread |-> << >>] /\ devices = MaxDevice
  BY DEF Init
<1>3. n \in Nat /\ n >= 1 /\ n <= Cpus /\ Cpus \in Nat /\ Threads \in Nat /\ Threads >= Cpus
  BY LocksAssumption DEF Cpu
<1>4. call \in [Thread -> Call]
  BY <1>2, LocksAssumption
<1>5. \A x \in Context : LocalOf(x) = Idle
  <2>1. \A x \in Context : Mutexes(x) = {}
    BY <1>2, Apart DEF Mutexes
  <2>2. \A x \in Thread : Len(saved[x]) = 0 /\ guards[x].read = 0 /\ guards[x].write = 0
    BY <1>2
  <2> QED
    BY <2>1, <2>2, IdleIs, Zenon DEF LocalOf
<1>6. Obeys
  <2>1. ASSUME NEW x \in Context PROVE Outline(CallOf(x), rest[x], LocalOf(x), Idle)
    <3>1. CASE x \in Thread
      <4>1. rest[x] = Program[call[x]] /\ call[x] \in Call /\ CallOf(x) = call[x]
        BY <1>2, <1>4, <3>1 DEF CallOf
      <4> QED
        BY <1>5, <4>1, CallsKept
    <3>2. CASE x \notin Thread
      <4>1. rest[x] = << >>
        BY <1>2, <3>2
      <4> QED
        BY <1>5, <4>1, IdleIs, OutlineEmpty
    <3> QED
      BY <3>1, <3>2
  <2> QED
    BY <2>1 DEF Obeys
<1>7. online \in SUBSET Cpu /\ 1 \in online
  BY <1>1, <1>3 DEF Cpu
<1>8. current \in [online -> Thread] /\ ready \in Seq(Thread) /\ DOMAIN ready = 1 .. Threads - n
  <2>1. \A c \in online : Cpus + c \in Thread
    BY <1>1, <1>3 DEF Thread
  <2>2. \A i \in 1 .. Threads - n : Cpus + n + i \in Thread
    BY <1>3 DEF Thread
  <2>3. Threads - n \in Nat
    BY <1>3
  <2> QED
    BY <1>1, <2>1, <2>2, <2>3
<1>9. TypeOK
  <2>1. rest \in [Context -> Seq(Op)]
    <3>1. \A x \in Context : rest[x] \in Seq(Op)
      BY <1>6, OutlineStep DEF Obeys
    <3> QED
      BY <1>2, <3>1
  <2>2. /\ owner \in [Mutex -> Context \cup {Nobody}] /\ word \in [writer : Thread \cup {Nobody}, readers : Nat]
        /\ guards \in [Thread -> [write : Nat, read : Nat]]
    BY <1>2
  <2>3. on \in [Cpu -> BOOLEAN] /\ saved \in [Thread -> Seq(BOOLEAN)] /\ devices \in Nat
    BY <1>2, LocksAssumption
  <2> QED
    BY <1>4, <1>7, <1>8, <2>1, <2>2, <2>3 DEF TypeOK
<1>10. Placed
  <2>1. \A c, d \in online : current[c] = current[d] => c = d
    BY <1>1, <1>3
  <2>2. \A i, j \in 1 .. Threads - n : ready[i] = ready[j] => i = j
    BY <1>1, <1>3
  <2>3. \A i \in 1 .. Threads - n, c \in online : ready[i] # current[c]
    BY <1>1, <1>3
  <2> QED
    BY <1>8, <2>1, <2>2, <2>3 DEF Placed
<1>11. MaskedInside
  BY <1>2 DEF MaskedInside
<1>12. ProcessLock
  <2>1. \A t \in Thread : guards[t].write = 0 /\ guards[t].read = 0
    BY <1>2
  <2>2. ReadGuards = {}
    BY <2>1 DEF ReadGuards
  <2>3. Counts(0, ReadGuards)
    BY <2>2, CountNone
  <2> QED
    BY <1>2, <2>1, <2>3 DEF ProcessLock
<1> QED
  BY <1>6, <1>9, <1>10, <1>11, <1>12 DEF LocksInv

LEMMA LocksNext ==
    ASSUME LocksInv, Next
    PROVE  LocksInv'
\* Mutexes: who takes one finds it free, and who gives some back has them.
<1>TakeMutexStep. ASSUME LocksInv, NEW x \in Context, NEW c \in online, NEW m \in Mutex, TakeMutex(x, c, m)
                  PROVE  LocksInv'
  <2> USE <1>TakeMutexStep
  <2> USE DEF LocksInv
  <2>1. /\ Executes(x, c, Lock(m)) /\ owner[m] = Nobody /\ owner' = [owner EXCEPT ![m] = x]
        /\ UNCHANGED <<online, call, devices, word, guards, on, saved, current, ready>>
    BY DEF TakeMutex, Executes
  <2>2. Lock(m)[1] = "lock" /\ Lock(m)[2] = m
    BY DEF Lock
  <2>3. TypeOK'
    <3>1. rest' \in [Context -> Seq(Op)]
      BY <2>1, Executed
    <3> QED
      BY <2>1, <3>1, SMTT(30) DEF TypeOK
  <2>4. Mutexes(x)' = Mutexes(x) \cup {m} /\ \A y \in Context \ {x} : Mutexes(y)' = Mutexes(y)
    BY <2>1, Apart DEF Mutexes, TypeOK
  <2>5. LocalOf(x)' = After(Lock(m), LocalOf(x))
    BY <2>1, <2>2, <2>4, Zenon DEF LocalOf, After, L
  <2>6. \A y \in Context \ {x} : LocalOf(y)' = LocalOf(y)
    BY <2>1, <2>4 DEF LocalOf
  <2>7. Obeys'
    BY <2>1, <2>5, <2>6, ObeysKept
  <2>8. Placed'
    BY <2>1 DEF Placed
  <2>9. MaskedInside'
    BY <2>1, HandlingLeft, MaskedKept
  <2>10. ProcessLock'
    BY <2>1, ProcessLockKept
  <2> QED
    BY <2>3, <2>7, <2>8, <2>9, <2>10
<1>DropMutexesStep. ASSUME LocksInv, NEW x \in Context, NEW c \in online, DropMutexes(x, c)
                    PROVE  LocksInv'
  <2> USE <1>DropMutexesStep
  <2> USE DEF LocksInv
  <2> DEFINE op == Head(rest[x])
  <2>1. /\ Executes(x, c, op) /\ op[1] = "unlock"
        /\ owner' = [m \in Mutex |-> IF m \in op[2] THEN Nobody ELSE owner[m]]
        /\ UNCHANGED <<online, call, devices, word, guards, on, saved, current, ready>>
    BY DEF DropMutexes, Executes
  <2>2. Allowed(CallOf(x), op, LocalOf(x)) /\ rest' \in [Context -> Seq(Op)]
    BY <2>1, Executed
  <2> HIDE DEF op
  <2>3. op[2] \subseteq Mutexes(x)
    BY <2>1, <2>2 DEF Allowed, LocalOf, L
  <2>4. TypeOK'
    BY <2>1, <2>2, Zenon DEF TypeOK
  <2>5. Mutexes(x)' = Mutexes(x) \ op[2] /\ \A y \in Context \ {x} : Mutexes(y)' = Mutexes(y)
    BY <2>1, <2>3, Apart, Zenon DEF Mutexes, TypeOK
  <2>6. LocalOf(x)' = After(op, LocalOf(x))
    BY <2>1, <2>5, Zenon DEF LocalOf, After, L
  <2>7. \A y \in Context \ {x} : LocalOf(y)' = LocalOf(y)
    BY <2>1, <2>5 DEF LocalOf
  <2>8. Obeys'
    BY <2>1, <2>6, <2>7, ObeysKept
  <2>9. Placed'
    BY <2>1 DEF Placed
  <2>10. MaskedInside'
    BY <2>1, HandlingLeft, MaskedKept
  <2>11. ProcessLock'
    BY <2>1, ProcessLockKept
  <2> QED
    BY <2>4, <2>8, <2>9, <2>10, <2>11
\* Operations on the lock of the process change nothing else.
<1>GuardStep. ASSUME LocksInv, NEW x \in Thread, NEW c \in online, NEW v \in CallWord, Executes(x, c, <<v>>),
                     UNCHANGED <<owner, on, saved, current, ready>>,
                     NEW g \in [write : Nat, read : Nat], guards' = [guards EXCEPT ![x] = g],
                     word' \in [writer : Thread \cup {Nobody}, readers : Nat],
                     L(Mutexes(x), Len(saved[x]), g.read, g.write) = After(<<v>>, LocalOf(x)),
                     ProcessLock'
              PROVE  LocksInv'
  <2> USE <1>GuardStep
  <2> USE DEF LocksInv
  <2>1. x \in Context /\ UNCHANGED <<online, call, devices>>
    BY Apart DEF Executes
  <2>2. guards'[x] = g /\ \A y \in Thread \ {x} : guards'[y] = guards[y]
    BY DEF TypeOK
  <2>3. rest' \in [Context -> Seq(Op)]
    BY <2>1, Executed
  <2>4. TypeOK'
    BY <2>1, <2>3, Zenon DEF TypeOK
  <2>5. \A y \in Context : Mutexes(y)' = Mutexes(y)
    BY DEF Mutexes
  <2>6. LocalOf(x)' = After(<<v>>, LocalOf(x))
    BY <2>1, <2>2, <2>5 DEF LocalOf
  <2>7. \A y \in Context \ {x} : LocalOf(y)' = LocalOf(y)
    BY <2>1, <2>2, <2>5 DEF LocalOf
  <2>8. Obeys'
    BY <2>1, <2>6, <2>7, ObeysKept
  <2>9. Placed'
    BY <2>1 DEF Placed
  <2>10. MaskedInside'
    BY <2>1, HandlingLeft, MaskedKept
  <2> QED
    BY <2>4, <2>8, <2>9, <2>10
<1>WordExecuted. ASSUME LocksInv, NEW x \in Context, NEW c \in online, NEW v \in CallWord, Executes(x, c, <<v>>)
                 PROVE  /\ x \in Thread /\ current[c] = x /\ ~Handling(c)
                        /\ Allowed(call[x], <<v>>, LocalOf(x))
                        /\ LocalOf(x) = L(Mutexes(x), Len(saved[x]), guards[x].read, guards[x].write)
                        /\ guards[x] \in [write : Nat, read : Nat]
                        /\ Len(saved[x]) \in Nat /\ saved[x] \in Seq(BOOLEAN)
                        /\ UNCHANGED <<online, call, devices>>
  <2> USE <1>WordExecuted
  <2> USE DEF LocksInv
  <2>1. <<v>>[1] = v
    OBVIOUS
  <2>2. x \in Thread /\ current[c] = x /\ ~Handling(c) /\ Allowed(CallOf(x), <<v>>, LocalOf(x))
    BY <2>1, Executed
  <2>3. Allowed(call[x], <<v>>, LocalOf(x))
    BY <2>2 DEF CallOf
  <2>4. LocalOf(x) = L(Mutexes(x), Len(saved[x]), guards[x].read, guards[x].write)
    BY <2>2 DEF LocalOf
  <2>5. guards[x] \in [write : Nat, read : Nat] /\ saved[x] \in Seq(BOOLEAN)
    BY <2>2 DEF TypeOK
  <2>6. Len(saved[x]) \in Nat
    BY <2>5
  <2> QED
    BY <2>2, <2>3, <2>4, <2>5, <2>6 DEF Executes
<1>ReadStep. ASSUME LocksInv, NEW x \in Context, NEW c \in online, Read(x, c)
             PROVE  LocksInv'
  <2> USE <1>ReadStep
  <2> USE DEF LocksInv
  <2> DEFINE g == [guards[x] EXCEPT !.read = @ + 1]
             new == <<x, guards[x].read>>
  <2>1. /\ Executes(x, c, <<"read">>) /\ word.writer = Nobody
        /\ word' = [word EXCEPT !.readers = @ + 1]
        /\ UNCHANGED <<owner, on, saved, current, ready>>
    BY DEF Read
  <2>2. guards' = [guards EXCEPT ![x] = g]
    BY DEF Read
  <2>3. /\ x \in Thread /\ guards[x] \in [write : Nat, read : Nat] /\ Len(saved[x]) \in Nat
        /\ LocalOf(x) = L(Mutexes(x), Len(saved[x]), guards[x].read, guards[x].write)
        /\ UNCHANGED call
    BY <2>1, <1>WordExecuted DEF CallWord
  <2>4. g \in [write : Nat, read : Nat] /\ g.read = guards[x].read + 1 /\ g.write = guards[x].write
    BY <2>3
  <2>5. guards'[x] = g /\ \A y \in Thread \ {x} : guards'[y] = guards[y]
    BY <2>2, <2>3 DEF TypeOK
  <2>6. /\ word' \in [writer : Thread \cup {Nobody}, readers : Nat]
        /\ word'.writer = Nobody /\ word'.readers = word.readers + 1
    <3>1. word \in [writer : Thread \cup {Nobody}, readers : Nat]
      BY DEF TypeOK
    <3>2. word'.writer = word.writer /\ word'.readers = word.readers + 1
      BY <2>1, <3>1
    <3>3. word' \in [writer : Thread \cup {Nobody}, readers : Nat]
      BY <2>1, <3>1
    <3> QED
      BY <2>1, <3>2, <3>3
  <2> HIDE DEF g
  <2>7. L(Mutexes(x), Len(saved[x]), g.read, g.write) = After(<<"read">>, LocalOf(x))
    BY <2>3, <2>4 DEF After, L
  <2>8. Counts(word'.readers, ReadGuards')
    <3>1. new \notin ReadGuards /\ new \in Thread \X Nat
      BY <2>3 DEF ReadGuards
    <3>2. \A p \in Thread \X Nat : p \in ReadGuards' <=> p \in ReadGuards \/ p = new
      <4>1. ASSUME NEW t \in Thread, NEW i \in Nat
            PROVE  <<t, i>> \in ReadGuards' <=> <<t, i>> \in ReadGuards \/ <<t, i>> = new
        <5>1. guards[t].read \in Nat
          BY DEF TypeOK
        <5>2. CASE t = x
          BY <2>3, <2>4, <2>5, <5>1, <5>2 DEF ReadGuards
        <5>3. CASE t # x
          BY <2>5, <5>3 DEF ReadGuards
        <5> QED
          BY <5>2, <5>3
      <4> QED
        BY <4>1
    <3>3. ReadGuards' = ReadGuards \cup {new}
      BY <3>1, <3>2 DEF ReadGuards
    <3>4. Counts(word.readers, ReadGuards) /\ word.readers \in Nat
      BY DEF ProcessLock, TypeOK
    <3> HIDE DEF new
    <3>5. Counts(word.readers + 1, ReadGuards \cup {new})
      BY <3>1, <3>4, CountMore
    <3> QED
      BY <2>6, <3>3, <3>5
  <2>9. ProcessLock'
    <3>1. (\A t \in Thread : call[t] # "heap_clear") => \A t \in Thread : guards[t].write = 0
      <4>1. \A t \in Thread : guards[t].write \in Nat /\ t # Nobody
        BY Apart DEF TypeOK
      <4> QED
        BY <2>1, <4>1 DEF ProcessLock
    <3> QED
      BY <2>3, <2>4, <2>5, <2>6, <2>8, <3>1 DEF ProcessLock
  <2> QED
    BY <2>1, <2>2, <2>3, <2>4, <2>6, <2>7, <2>9, <1>GuardStep, Zenon DEF CallWord
<1>DropReadStep. ASSUME LocksInv, NEW x \in Context, NEW c \in online, DropRead(x, c)
                 PROVE  LocksInv'
  <2> USE <1>DropReadStep
  <2> USE DEF LocksInv
  <2> DEFINE g == [guards[x] EXCEPT !.read = @ - 1]
             old == <<x, guards[x].read - 1>>
  <2>1. /\ Executes(x, c, <<"unread">>)
        /\ word' = [word EXCEPT !.readers = @ - 1]
        /\ UNCHANGED <<owner, on, saved, current, ready>>
    BY DEF DropRead
  <2>2. guards' = [guards EXCEPT ![x] = g]
    BY DEF DropRead
  <2>3. /\ x \in Thread /\ guards[x] \in [write : Nat, read : Nat] /\ Len(saved[x]) \in Nat
        /\ LocalOf(x) = L(Mutexes(x), Len(saved[x]), guards[x].read, guards[x].write)
        /\ UNCHANGED call
    BY <2>1, <1>WordExecuted DEF CallWord
  <2>4. guards[x].read > 0
    <3>1. Allowed(call[x], <<"unread">>, LocalOf(x))
      BY <2>1, <1>WordExecuted DEF CallWord
    <3> QED
      BY <2>3, <3>1 DEF Allowed, L
  <2>5. g \in [write : Nat, read : Nat] /\ g.read = guards[x].read - 1 /\ g.write = guards[x].write
    BY <2>3, <2>4
  <2>6. guards'[x] = g /\ \A y \in Thread \ {x} : guards'[y] = guards[y]
    BY <2>2, <2>3 DEF TypeOK
  <2> HIDE DEF g
  <2>7. L(Mutexes(x), Len(saved[x]), g.read, g.write) = After(<<"unread">>, LocalOf(x))
    BY <2>3, <2>5 DEF After, L
  <2>8. Counts(word.readers - 1, ReadGuards') /\ word.readers - 1 \in Nat
    <3>1. old \in ReadGuards
      BY <2>3, <2>4 DEF ReadGuards
    <3>2. \A p \in Thread \X Nat : p \in ReadGuards' <=> p \in ReadGuards /\ p # old
      <4>1. ASSUME NEW t \in Thread, NEW i \in Nat
            PROVE  <<t, i>> \in ReadGuards' <=> <<t, i>> \in ReadGuards /\ <<t, i>> # old
        <5>1. guards[t].read \in Nat
          BY DEF TypeOK
        <5>2. CASE t = x
          BY <2>3, <2>4, <2>5, <2>6, <5>1, <5>2 DEF ReadGuards
        <5>3. CASE t # x
          BY <2>6, <5>3 DEF ReadGuards
        <5> QED
          BY <5>2, <5>3
      <4> QED
        BY <4>1
    <3>3. ReadGuards' = ReadGuards \ {old}
      BY <3>2 DEF ReadGuards
    <3>4. Counts(word.readers, ReadGuards) /\ word.readers \in Nat
      BY DEF ProcessLock, TypeOK
    <3> HIDE DEF old
    <3> QED
      BY <3>1, <3>3, <3>4, CountLess
  <2>9. /\ word' \in [writer : Thread \cup {Nobody}, readers : Nat]
        /\ word'.writer = word.writer /\ word'.readers = word.readers - 1
    BY <2>1, <2>8, Zenon DEF TypeOK
  <2>10. ProcessLock'
    <3>1. (\A t \in Thread : call[t] # "heap_clear") => word.writer = Nobody
      BY <2>8 DEF ProcessLock, TypeOK
    <3>2. \A t \in Thread : guards'[t].write = guards[t].write
      BY <2>3, <2>5, <2>6
    <3>3. word.writer \in Thread \cup {Nobody}
      BY DEF TypeOK
    <3> QED
      BY <2>3, <2>8, <2>9, <3>1, <3>2, <3>3 DEF ProcessLock
  <2> QED
    BY <2>1, <2>2, <2>3, <2>5, <2>7, <2>9, <2>10, <1>GuardStep, Zenon DEF CallWord
\* A step that leaves the readers alone.
<1>ReadersLeft. ASSUME ProcessLock, \A t \in Thread : guards'[t].read = guards[t].read
                PROVE  Counts(word.readers, ReadGuards')
  <2> USE <1>ReadersLeft
  <2>1. ReadGuards' = ReadGuards
    BY DEF ReadGuards
  <2> QED
    BY <2>1 DEF ProcessLock
<1>WriteStep. ASSUME LocksInv, NEW x \in Context, NEW c \in online, Write(x, c)
              PROVE  LocksInv'
  <2> USE <1>WriteStep
  <2> USE DEF LocksInv
  <2> DEFINE g == [guards[x] EXCEPT !.write = @ + 1]
  <2>1. /\ Executes(x, c, <<"write">>) /\ word.writer = Nobody /\ word.readers = 0
        /\ word' = [word EXCEPT !.writer = x]
        /\ UNCHANGED <<owner, on, saved, current, ready>>
    BY DEF Write
  <2>2. guards' = [guards EXCEPT ![x] = g]
    BY DEF Write
  <2>3. /\ x \in Thread /\ guards[x] \in [write : Nat, read : Nat] /\ Len(saved[x]) \in Nat
        /\ LocalOf(x) = L(Mutexes(x), Len(saved[x]), guards[x].read, guards[x].write)
        /\ UNCHANGED call
    BY <2>1, <1>WordExecuted DEF CallWord
  <2>4. g \in [write : Nat, read : Nat] /\ g.read = guards[x].read /\ g.write = guards[x].write + 1
    BY <2>3
  <2>5. guards'[x] = g /\ \A y \in Thread \ {x} : guards'[y] = guards[y]
    BY <2>2, <2>3 DEF TypeOK
  <2>6. /\ word' \in [writer : Thread \cup {Nobody}, readers : Nat]
        /\ word'.writer = x /\ word'.readers = word.readers
    <3>1. word \in [writer : Thread \cup {Nobody}, readers : Nat]
      BY DEF TypeOK
    <3> QED
      BY <2>1, <2>3, <3>1
  <2> HIDE DEF g
  <2>7. L(Mutexes(x), Len(saved[x]), g.read, g.write) = After(<<"write">>, LocalOf(x))
    BY <2>3, <2>4 DEF After, L
  <2>8. Counts(word'.readers, ReadGuards')
    <3>1. \A t \in Thread : guards'[t].read = guards[t].read
      BY <2>3, <2>4, <2>5
    <3> QED
      BY <2>6, <3>1, <1>ReadersLeft
  <2>9. ProcessLock'
    <3>1. (\A t \in Thread : call[t] # "heap_clear") => \A t \in Thread : guards[t].write = 0
      <4>1. \A t \in Thread : guards[t].write \in Nat /\ t # Nobody
        BY Apart DEF TypeOK
      <4> QED
        BY <2>1, <4>1 DEF ProcessLock
    <3>2. guards'[x].write > 0
      BY <2>3, <2>4, <2>5
    <3>3. (\A t \in Thread : call[t] # "heap_clear") =>
            \A t \in Thread : guards'[t].write > 0 => t = x /\ guards'[t].write = 1
      BY <2>3, <2>4, <2>5, <3>1
    <3> QED
      BY <2>1, <2>3, <2>6, <2>8, <3>2, <3>3 DEF ProcessLock
  <2> QED
    BY <2>1, <2>2, <2>3, <2>4, <2>6, <2>7, <2>9, <1>GuardStep, Zenon DEF CallWord
<1>DropWriteStep. ASSUME LocksInv, NEW x \in Context, NEW c \in online, DropWrite(x, c)
                  PROVE  LocksInv'
  <2> USE <1>DropWriteStep
  <2> USE DEF LocksInv
  <2> DEFINE g == [guards[x] EXCEPT !.write = @ - 1]
  <2>1. /\ Executes(x, c, <<"unwrite">>)
        /\ word' = [word EXCEPT !.writer = Nobody]
        /\ UNCHANGED <<owner, on, saved, current, ready>>
    BY DEF DropWrite
  <2>2. guards' = [guards EXCEPT ![x] = g]
    BY DEF DropWrite
  <2>3. /\ x \in Thread /\ guards[x] \in [write : Nat, read : Nat] /\ Len(saved[x]) \in Nat
        /\ LocalOf(x) = L(Mutexes(x), Len(saved[x]), guards[x].read, guards[x].write)
        /\ UNCHANGED call
    BY <2>1, <1>WordExecuted DEF CallWord
  <2>4. guards[x].write > 0
    <3>1. Allowed(call[x], <<"unwrite">>, LocalOf(x))
      BY <2>1, <1>WordExecuted DEF CallWord
    <3> QED
      BY <2>3, <3>1 DEF Allowed, L
  <2>5. g \in [write : Nat, read : Nat] /\ g.read = guards[x].read /\ g.write = guards[x].write - 1
    BY <2>3, <2>4
  <2>6. guards'[x] = g /\ \A y \in Thread \ {x} : guards'[y] = guards[y]
    BY <2>2, <2>3 DEF TypeOK
  <2>7. /\ word' \in [writer : Thread \cup {Nobody}, readers : Nat]
        /\ word'.writer = Nobody /\ word'.readers = word.readers
    <3>1. word \in [writer : Thread \cup {Nobody}, readers : Nat]
      BY DEF TypeOK
    <3> QED
      BY <2>1, <3>1
  <2> HIDE DEF g
  <2>8. L(Mutexes(x), Len(saved[x]), g.read, g.write) = After(<<"unwrite">>, LocalOf(x))
    BY <2>3, <2>5 DEF After, L
  <2>9. Counts(word'.readers, ReadGuards')
    <3>1. \A t \in Thread : guards'[t].read = guards[t].read
      BY <2>3, <2>5, <2>6
    <3> QED
      BY <2>7, <3>1, <1>ReadersLeft
  <2>10. ProcessLock'
    <3>1. (\A t \in Thread : call[t] # "heap_clear") => \A t \in Thread : guards'[t].write = 0
      <4>1. \A t \in Thread : guards[t].write \in Nat
        BY DEF TypeOK
      <4>2. (\A t \in Thread : call[t] # "heap_clear") =>
              guards[x].write = 1 /\ \A t \in Thread : guards[t].write > 0 => t = x
        BY <2>3, <2>4 DEF ProcessLock
      <4> QED
        BY <2>3, <2>5, <2>6, <4>1, <4>2
    <3>2. \A n : n = 0 => ~(n > 0)
      OBVIOUS
    <3>3. call' = call
      BY <2>1 DEF Executes
    <3> QED
      BY <2>7, <2>9, <3>1, <3>2, <3>3, Zenon DEF ProcessLock
  <2> QED
    BY <2>1, <2>2, <2>3, <2>5, <2>7, <2>8, <2>10, <1>GuardStep, Zenon DEF CallWord
<1>ForceWriteUnlockStep. ASSUME LocksInv, NEW x \in Context, NEW c \in online, ForceWriteUnlock(x, c)
                         PROVE  LocksInv'
  <2> USE <1>ForceWriteUnlockStep
  <2> USE DEF LocksInv
  <2> DEFINE g == guards[x]
  <2>1. /\ Executes(x, c, <<"force">>)
        /\ word' = [word EXCEPT !.writer = Nobody]
        /\ UNCHANGED <<owner, guards, on, saved, current, ready>>
    BY DEF ForceWriteUnlock
  <2>2. /\ x \in Thread /\ guards[x] \in [write : Nat, read : Nat] /\ Len(saved[x]) \in Nat
        /\ LocalOf(x) = L(Mutexes(x), Len(saved[x]), guards[x].read, guards[x].write)
        /\ UNCHANGED call
    BY <2>1, <1>WordExecuted DEF CallWord
  <2>3. call[x] = "heap_clear"
    <3>1. Allowed(call[x], <<"force">>, LocalOf(x))
      BY <2>1, <1>WordExecuted DEF CallWord
    <3> QED
      BY <3>1 DEF Allowed
  <2>4. guards' = [guards EXCEPT ![x] = g]
    BY <2>1, <2>2 DEF TypeOK
  <2>5. /\ word' \in [writer : Thread \cup {Nobody}, readers : Nat]
        /\ word'.writer = Nobody /\ word'.readers = word.readers
    <3>1. word \in [writer : Thread \cup {Nobody}, readers : Nat]
      BY DEF TypeOK
    <3> QED
      BY <2>1, <3>1
  <2>6. L(Mutexes(x), Len(saved[x]), g.read, g.write) = After(<<"force">>, LocalOf(x))
    BY <2>2 DEF After, L
  <2>7. Counts(word'.readers, ReadGuards')
    BY <2>1, <2>5, <1>ReadersLeft
  <2>8. ProcessLock'
    BY <2>2, <2>3, <2>5, <2>7 DEF ProcessLock
  <2> QED
    BY <2>1, <2>2, <2>4, <2>5, <2>6, <2>8, <1>GuardStep, Zenon DEF CallWord
\* The interrupt flag of the CPU a thread runs on is its own: who else has
\* masked interrupts runs on another CPU.
<1>FlagStep. ASSUME LocksInv, NEW x \in Thread, NEW c \in online, NEW v \in CallWord, Executes(x, c, <<v>>),
                    UNCHANGED <<owner, word, guards, current, ready>>,
                    NEW b \in BOOLEAN, on' = [on EXCEPT ![c] = b],
                    NEW s \in Seq(BOOLEAN), saved' = [saved EXCEPT ![x] = s],
                    L(Mutexes(x), Len(s), guards[x].read, guards[x].write) = After(<<v>>, LocalOf(x)),
                    s # << >> /\ call[x] # "syscall_switch_to" => ~b /\ \A i \in 1 .. Len(s) - 1 : ~s[i]
             PROVE  LocksInv'
  <2> USE <1>FlagStep
  <2> USE DEF LocksInv
  <2>1. x \in Context /\ UNCHANGED <<online, call, devices>> /\ current[c] = x /\ ~Handling(c)
    BY Apart, <1>WordExecuted, Zenon DEF Executes
  <2>2. saved'[x] = s /\ \A y \in Thread \ {x} : saved'[y] = saved[y]
    BY DEF TypeOK
  <2>3. on'[c] = b /\ \A d \in Cpu \ {c} : on'[d] = on[d]
    BY DEF TypeOK
  <2>4. rest' \in [Context -> Seq(Op)]
    BY <2>1, Executed
  <2>5. TypeOK'
    BY <2>1, <2>4, Zenon DEF TypeOK
  <2>6. \A y \in Context : Mutexes(y)' = Mutexes(y)
    BY DEF Mutexes
  <2>7. LocalOf(x)' = After(<<v>>, LocalOf(x))
    BY <2>1, <2>2, <2>6 DEF LocalOf
  <2>8. \A y \in Context \ {x} : LocalOf(y)' = LocalOf(y)
    BY <2>1, <2>2, <2>6 DEF LocalOf
  <2>9. Obeys'
    BY <2>1, <2>7, <2>8, ObeysKept
  <2>10. Placed'
    BY <2>1 DEF Placed
  <2>11. \A d \in online : Handling(d)' <=> Handling(d)
    BY <2>1, HandlingLeft
  <2>12. MaskedInside'
    <3>1. ASSUME NEW t \in Thread, saved'[t] # << >>, call'[t] # "syscall_switch_to"
          PROVE  Undisturbed(t)'
      <4>1. CASE t = x
        BY <2>1, <2>2, <2>3, <2>11, <3>1, <4>1 DEF Undisturbed
      <4>2. CASE t # x
        <5>1. Undisturbed(t)
          BY <2>1, <2>2, <3>1, <4>2, Zenon DEF MaskedInside
        <5>2. PICK d \in online : current[d] = t /\ ~Handling(d) /\ ~on[d]
          BY <5>1 DEF Undisturbed
        <5>3. d # c /\ on'[d] = on[d]
          BY <2>1, <2>3, <4>2, <5>2 DEF TypeOK
        <5> QED
          BY <2>1, <2>2, <2>11, <4>2, <5>1, <5>2, <5>3 DEF Undisturbed
      <4> QED
        BY <4>1, <4>2
    <3> QED
      BY <3>1 DEF MaskedInside
  <2>13. ProcessLock'
    BY <2>1, ProcessLockKept, Zenon
  <2> QED
    BY <2>5, <2>9, <2>10, <2>12, <2>13
\* A thread in a section finds interrupts off on the CPU it runs on.
<1>OffInside. ASSUME LocksInv, NEW x \in Thread, NEW c \in online, current[c] = x,
                     saved[x] # << >>, call[x] # "syscall_switch_to"
              PROVE  ~on[c] /\ \A i \in 1 .. Len(saved[x]) - 1 : ~saved[x][i]
  <2> USE <1>OffInside
  <2> USE DEF LocksInv
  <2>1. Undisturbed(x)
    BY DEF MaskedInside
  <2>2. PICK d \in online : current[d] = x /\ ~on[d]
    BY <2>1 DEF Undisturbed
  <2>3. d = c
    BY <2>2 DEF Placed
  <2> QED
    BY <2>1, <2>2, <2>3 DEF Undisturbed
<1>DisableStep. ASSUME LocksInv, NEW x \in Context, NEW c \in online, Disable(x, c)
                PROVE  LocksInv'
  <2> USE <1>DisableStep
  <2> USE DEF LocksInv
  <2> DEFINE s == <<on[c]>> \o saved[x]
  <2>1. /\ Executes(x, c, <<"disable">>) /\ saved' = [saved EXCEPT ![x] = s] /\ on' = [on EXCEPT ![c] = FALSE]
        /\ UNCHANGED <<owner, word, guards, current, ready>>
    BY DEF Disable
  <2>2. /\ x \in Thread /\ current[c] = x /\ guards[x] \in [write : Nat, read : Nat]
        /\ Len(saved[x]) \in Nat /\ saved[x] \in Seq(BOOLEAN)
        /\ LocalOf(x) = L(Mutexes(x), Len(saved[x]), guards[x].read, guards[x].write)
    BY <2>1, <1>WordExecuted DEF CallWord
  <2>3. on[c] \in BOOLEAN
    BY DEF TypeOK
  <2>4. /\ s \in Seq(BOOLEAN) /\ Len(s) = Len(saved[x]) + 1 /\ s[1] = on[c]
        /\ \A i \in 2 .. Len(s) : s[i] = saved[x][i - 1]
    BY <2>2, <2>3
  <2> HIDE DEF s
  <2>5. L(Mutexes(x), Len(s), guards[x].read, guards[x].write) = After(<<"disable">>, LocalOf(x))
    BY <2>2, <2>4 DEF After, L
  <2>6. ASSUME call[x] # "syscall_switch_to", NEW i \in 1 .. Len(s) - 1 PROVE ~s[i]
    <3>1. saved[x] # << >> /\ Len(saved[x]) >= 1
      BY <2>2, <2>4, <2>6
    <3>2. ~on[c] /\ \A j \in 1 .. Len(saved[x]) - 1 : ~saved[x][j]
      BY <2>2, <2>6, <3>1, <1>OffInside
    <3>3. CASE i = 1
      BY <2>4, <3>2, <3>3
    <3>4. CASE i # 1
      <4>1. i \in 2 .. Len(s) /\ i - 1 \in 1 .. Len(saved[x]) - 1
        BY <2>2, <2>4, <3>4
      <4> QED
        BY <2>4, <3>2, <4>1, SMTT(30)
    <3> QED
      BY <3>3, <3>4
  <2> QED
    BY <2>1, <2>2, <2>4, <2>5, <2>6, <1>FlagStep, Zenon DEF CallWord
<1>RestoreStep. ASSUME LocksInv, NEW x \in Context, NEW c \in online, Restore(x, c)
                PROVE  LocksInv'
  <2> USE <1>RestoreStep
  <2> USE DEF LocksInv
  <2> DEFINE s == Tail(saved[x])
             b == on[c] \/ Head(saved[x])
  <2>1. /\ Executes(x, c, <<"restore">>) /\ saved' = [saved EXCEPT ![x] = s]
        /\ UNCHANGED <<owner, word, guards, current, ready>>
    BY Zenon DEF Restore
  <2>2. on' = [on EXCEPT ![c] = b]
    BY Zenon DEF Restore
  <2>3. /\ x \in Thread /\ current[c] = x /\ guards[x] \in [write : Nat, read : Nat]
        /\ Len(saved[x]) \in Nat /\ saved[x] \in Seq(BOOLEAN)
        /\ LocalOf(x) = L(Mutexes(x), Len(saved[x]), guards[x].read, guards[x].write)
    BY <2>1, <1>WordExecuted DEF CallWord
  <2>4. Len(saved[x]) > 0 /\ saved[x] # << >>
    <3>1. Allowed(call[x], <<"restore">>, LocalOf(x))
      BY <2>1, <1>WordExecuted DEF CallWord
    <3> QED
      BY <2>3, <3>1 DEF Allowed, L
  <2>5. /\ s \in Seq(BOOLEAN) /\ Len(s) = Len(saved[x]) - 1 /\ Head(saved[x]) = saved[x][1]
        /\ \A i \in 1 .. Len(s) : s[i] = saved[x][i + 1]
    <3>1. \A q \in Seq(BOOLEAN) : q # << >> =>
              /\ Tail(q) \in Seq(BOOLEAN) /\ Len(Tail(q)) = Len(q) - 1 /\ Head(q) = q[1]
              /\ \A i \in 1 .. Len(Tail(q)) : Tail(q)[i] = q[i + 1]
      OBVIOUS
    <3> QED
      BY <2>3, <2>4, <3>1, Zenon
  <2>6. b \in BOOLEAN
    BY Zenon
  <2> HIDE DEF s
  <2>7. L(Mutexes(x), Len(s), guards[x].read, guards[x].write) = After(<<"restore">>, LocalOf(x))
    <3>1. \A h, d, r, w : L(h, d - 1, r, w) = After(<<"restore">>, L(h, d, r, w))
      BY DEF After, L
    <3>2. Len(s) = Len(saved[x]) - 1
      BY <2>5
    <3> QED
      BY <2>3, <3>1, <3>2
  <2>8. ASSUME s # << >>, call[x] # "syscall_switch_to" PROVE ~b /\ \A i \in 1 .. Len(s) - 1 : ~s[i]
    <3>1. ~on[c] /\ \A j \in 1 .. Len(saved[x]) - 1 : ~saved[x][j]
      BY <2>3, <2>4, <2>8, <1>OffInside
    <3>2. Len(s) >= 1 /\ 1 \in 1 .. Len(saved[x]) - 1
      BY <2>3, <2>5, <2>8
    <3>3. ~b
      BY <2>5, <3>1, <3>2, Zenon
    <3>4. \A i \in 1 .. Len(s) - 1 : i \in 1 .. Len(s) /\ i + 1 \in 1 .. Len(saved[x]) - 1
      BY <2>3, <2>5
    <3> QED
      BY <2>5, <3>1, <3>3, <3>4, Zenon
  <2> HIDE DEF b
  <2> QED
    BY <2>1, <2>2, <2>3, <2>5, <2>6, <2>7, <2>8, <1>FlagStep, Zenon DEF CallWord
<1>CliStep. ASSUME LocksInv, NEW x \in Context, NEW c \in online, Cli(x, c)
            PROVE  LocksInv'
  <2> USE <1>CliStep
  <2> USE DEF LocksInv
  <2>1. /\ Executes(x, c, <<"cli">>) /\ on' = [on EXCEPT ![c] = FALSE]
        /\ UNCHANGED <<owner, word, guards, saved, current, ready>>
    BY DEF Cli
  <2>2. /\ x \in Thread /\ current[c] = x /\ guards[x] \in [write : Nat, read : Nat]
        /\ Len(saved[x]) \in Nat /\ saved[x] \in Seq(BOOLEAN)
        /\ LocalOf(x) = L(Mutexes(x), Len(saved[x]), guards[x].read, guards[x].write)
    BY <2>1, <1>WordExecuted DEF CallWord
  <2>3. saved' = [saved EXCEPT ![x] = saved[x]]
    BY <2>1, <2>2 DEF TypeOK
  <2>4. L(Mutexes(x), Len(saved[x]), guards[x].read, guards[x].write) = After(<<"cli">>, LocalOf(x))
    BY <2>2 DEF After, L
  <2>5. saved[x] # << >> /\ call[x] # "syscall_switch_to" => \A i \in 1 .. Len(saved[x]) - 1 : ~saved[x][i]
    BY <2>2, <1>OffInside
  <2> QED
    BY <2>1, <2>2, <2>3, <2>4, <2>5, <1>FlagStep, Zenon DEF CallWord
<1>StiStep. ASSUME LocksInv, NEW x \in Context, NEW c \in online, Sti(x, c)
            PROVE  LocksInv'
  <2> USE <1>StiStep
  <2> USE DEF LocksInv
  <2>1. /\ Executes(x, c, <<"sti">>) /\ on' = [on EXCEPT ![c] = TRUE]
        /\ UNCHANGED <<owner, word, guards, saved, current, ready>>
    BY DEF Sti
  <2>2. /\ x \in Thread /\ current[c] = x /\ guards[x] \in [write : Nat, read : Nat]
        /\ Len(saved[x]) \in Nat /\ saved[x] \in Seq(BOOLEAN)
        /\ LocalOf(x) = L(Mutexes(x), Len(saved[x]), guards[x].read, guards[x].write)
        /\ Allowed(call[x], <<"sti">>, LocalOf(x))
    BY <2>1, <1>WordExecuted DEF CallWord
  <2>3. saved' = [saved EXCEPT ![x] = saved[x]]
    BY <2>1, <2>2 DEF TypeOK
  <2>4. L(Mutexes(x), Len(saved[x]), guards[x].read, guards[x].write) = After(<<"sti">>, LocalOf(x))
    BY <2>2 DEF After, L
  <2>5. call[x] = "syscall_switch_to" \/ Len(saved[x]) = 0
    BY <2>2 DEF Allowed, L
  <2>6. saved[x] # << >> => call[x] = "syscall_switch_to"
    BY <2>2, <2>5
  <2> QED
    BY <2>1, <2>2, <2>3, <2>4, <2>6, <1>FlagStep, Zenon DEF CallWord
\* A CPU that handles an interrupt runs no thread that masks them, so the handler
\* may end with interrupts on.
<1>HandlerLeaves. ASSUME LocksInv, NEW c \in online, c \in Context, NEW op, Executes(c, c, op),
                         on' = [on EXCEPT ![c] = TRUE], saved' = saved,
                         \A d \in online \ {c} : current'[d] = current[d]
                  PROVE  MaskedInside'
  <2> USE <1>HandlerLeaves
  <2> USE DEF LocksInv
  <2>1. UNCHANGED <<online, call>> /\ Handling(c)
    BY DEF Executes, Handling
  <2>2. \A d \in online : Handling(d)' => Handling(d)
    BY HandlingLeft
  <2>3. \A d \in online \ {c} : on'[d] = on[d]
    BY DEF TypeOK
  <2>4. ASSUME NEW t \in Thread, saved'[t] # << >>, call'[t] # "syscall_switch_to"
        PROVE  Undisturbed(t)'
    <3>1. Undisturbed(t)
      BY <2>1, <2>4 DEF MaskedInside
    <3>2. PICK d \in online : current[d] = t /\ ~Handling(d) /\ ~on[d]
      BY <3>1 DEF Undisturbed
    <3>3. d \in online \ {c}
      BY <2>1, <3>2
    <3> QED
      BY <2>1, <2>2, <2>3, <3>1, <3>2, <3>3 DEF Undisturbed
  <2> QED
    BY <2>4 DEF MaskedInside
<1>ReturnStep. ASSUME LocksInv, NEW x \in Context, NEW c \in online, Return(x, c)
               PROVE  LocksInv'
  <2> USE <1>ReturnStep
  <2> USE DEF LocksInv
  <2>1. /\ Executes(x, c, <<"return">>) /\ on' = [on EXCEPT ![c] = TRUE]
        /\ UNCHANGED <<online, call, devices, owner, word, guards, saved, current, ready>>
    BY DEF Return, Executes
  <2>2. x \in Cpu /\ x \notin Thread /\ x = c /\ rest' \in [Context -> Seq(Op)]
    BY <2>1, Executed DEF HandlerWord
  <2>3. TypeOK'
    BY <2>1, <2>2, Zenon DEF TypeOK
  <2>4. \A y \in Context : LocalOf(y)' = LocalOf(y)
    BY <2>1 DEF LocalOf, Mutexes
  <2>5. LocalOf(x)' = After(<<"return">>, LocalOf(x))
    BY <2>2, <2>4, Zenon DEF LocalOf, After, L
  <2>6. Obeys'
    BY <2>1, <2>4, <2>5, ObeysKept
  <2>7. Placed'
    BY <2>1 DEF Placed
  <2>8. MaskedInside'
    BY <2>1, <2>2, <1>HandlerLeaves, Zenon
  <2>9. ProcessLock'
    BY <2>1, ProcessLockKept
  <2> QED
    BY <2>3, <2>6, <2>7, <2>8, <2>9
<1>ScheduleStep. ASSUME LocksInv, NEW x \in Context, NEW c \in online, Schedule(x, c)
                 PROVE  LocksInv'
  <2> USE <1>ScheduleStep
  <2> USE DEF LocksInv
  <2> DEFINE queue == Append(ready, current[c])
  <2>1. /\ Executes(x, c, <<"schedule">>) /\ on' = [on EXCEPT ![c] = TRUE]
        /\ owner' = [owner EXCEPT !["SCHEDULER"] = Nobody]
        /\ current' = [current EXCEPT ![c] = Head(queue)] /\ ready' = Tail(queue)
        /\ UNCHANGED <<online, call, devices, word, guards, saved>>
    BY DEF Schedule, Executes
  <2>2. /\ x \in Cpu /\ x \notin Thread /\ x = c /\ rest' \in [Context -> Seq(Op)]
        /\ Allowed(CallOf(x), <<"schedule">>, LocalOf(x))
    BY <2>1, Executed DEF HandlerWord
  <2>3. owner["SCHEDULER"] = x
    BY <2>2, Zenon DEF Allowed, LocalOf, L, Mutexes
  <2>4. /\ queue \in Seq(Thread) /\ Len(queue) = Len(ready) + 1 /\ queue[Len(ready) + 1] = current[c]
        /\ \A i \in 1 .. Len(ready) : queue[i] = ready[i]
        /\ Len(ready) \in Nat /\ DOMAIN ready = 1 .. Len(ready)
    <3>1. \A q \in Seq(Thread), t \in Thread :
              /\ Append(q, t) \in Seq(Thread) /\ Len(Append(q, t)) = Len(q) + 1 /\ Append(q, t)[Len(q) + 1] = t
              /\ \A i \in 1 .. Len(q) : Append(q, t)[i] = q[i]
              /\ Len(q) \in Nat /\ DOMAIN q = 1 .. Len(q)
      OBVIOUS
    <3>2. ready \in Seq(Thread) /\ current[c] \in Thread
      BY DEF TypeOK
    <3> QED
      BY <3>1, <3>2, Zenon
  <2> HIDE DEF queue
  <2>5. \A q \in Seq(Thread) : Len(q) > 0 =>
            /\ Head(q) \in Thread /\ Tail(q) \in Seq(Thread) /\ Head(q) = q[1]
            /\ DOMAIN Tail(q) = 1 .. Len(q) - 1
            /\ \A i \in 1 .. Len(q) - 1 : Tail(q)[i] = q[i + 1]
    OBVIOUS
  <2>6. /\ Head(queue) \in Thread /\ ready' \in Seq(Thread) /\ Head(queue) = queue[1]
        /\ DOMAIN ready' = 1 .. Len(ready)
        /\ \A i \in 1 .. Len(ready) : ready'[i] = queue[i + 1]
    <3>1. Len(queue) > 0 /\ Len(queue) - 1 = Len(ready)
      BY <2>4
    <3> QED
      BY <2>1, <2>4, <2>5, <3>1
  <2>7. TypeOK'
    <3>1. owner' \in [Mutex -> Context \cup {Nobody}]
      BY <2>1, Zenon DEF TypeOK
    <3>2. current' \in [online -> Thread] /\ on' \in [Cpu -> BOOLEAN]
      BY <2>1, <2>6, Zenon DEF TypeOK
    <3> QED
      BY <2>1, <2>2, <2>6, <3>1, <3>2, Zenon DEF TypeOK
  <2>8. "SCHEDULER" \in Mutex
    BY DEF Mutex
  <2>9. Mutexes(x)' = Mutexes(x) \ {"SCHEDULER"} /\ \A y \in Context \ {x} : Mutexes(y)' = Mutexes(y)
    BY <2>1, <2>3, <2>8, Apart DEF Mutexes, TypeOK
  <2>10. LocalOf(x)' = After(<<"schedule">>, LocalOf(x))
    BY <2>2, <2>9, Zenon DEF LocalOf, After, L
  <2>11. \A y \in Context \ {x} : LocalOf(y)' = LocalOf(y)
    BY <2>1, <2>9 DEF LocalOf
  <2>12. Obeys'
    BY <2>1, <2>10, <2>11, ObeysKept
  <2>13. current'[c] = queue[1] /\ \A d \in online \ {c} : current'[d] = current[d]
    BY <2>1, <2>6 DEF TypeOK
  <2>14. \A i, j \in 1 .. Len(ready) + 1 : queue[i] = queue[j] => i = j
    <3>1. \A i \in 1 .. Len(ready) : queue[i] # current[c]
      BY <2>4 DEF Placed
    <3>2. \A i \in 1 .. Len(ready) + 1 : i \in 1 .. Len(ready) \/ i = Len(ready) + 1
      BY <2>4
    <3> QED
      BY <2>4, <3>1, <3>2 DEF Placed
  <2>15. \A i \in 1 .. Len(ready) + 1, d \in online \ {c} : queue[i] # current[d]
    <3>1. \A i \in 1 .. Len(ready) + 1 : i \in 1 .. Len(ready) \/ i = Len(ready) + 1
      BY <2>4
    <3> QED
      BY <2>4, <3>1 DEF Placed
  <2>16. Placed'
    <3>1. 1 \in 1 .. Len(ready) + 1
      BY <2>4
    <3>2. \A i \in 1 .. Len(ready) : i + 1 \in 1 .. Len(ready) + 1 /\ i + 1 # 1
      BY <2>4
    <3>3. \A i, j \in 1 .. Len(ready) : i + 1 = j + 1 => i = j
      BY <2>4
    <3>4. \A d, e \in online : current'[d] = current'[e] => d = e
      BY <2>13, <2>15, <3>1 DEF Placed
    <3>5. \A i, j \in 1 .. Len(ready) : ready'[i] = ready'[j] => i = j
      BY <2>6, <2>14, <3>2, <3>3
    <3>6. \A i \in 1 .. Len(ready), d \in online : ready'[i] # current'[d]
      BY <2>6, <2>13, <2>14, <2>15, <3>1, <3>2
    <3> QED
      BY <2>1, <2>6, <3>4, <3>5, <3>6, ZenonT(30) DEF Placed
  <2>17. MaskedInside'
    BY <2>1, <2>2, <2>13, <1>HandlerLeaves, Zenon
  <2>18. ProcessLock'
    BY <2>1, ProcessLockKept
  <2> QED
    BY <2>7, <2>12, <2>16, <2>17, <2>18
\* An interrupt comes only where interrupts are on, so to nobody who masks them.
<1>InterruptStep. ASSUME LocksInv, NEW c \in online, NEW handler, Outline(Handler, handler, Idle, Idle),
                         Interrupt(c, handler), devices' \in Nat
                  PROVE  LocksInv'
  <2> USE <1>InterruptStep
  <2> USE DEF LocksInv
  <2>1. /\ on[c] /\ ~Handling(c) /\ rest' = [rest EXCEPT ![c] = handler] /\ on' = [on EXCEPT ![c] = FALSE]
        /\ UNCHANGED <<online, call, owner, word, guards, saved, current, ready>>
    BY DEF Interrupt
  <2>2. c \in Cpu /\ c \in Context /\ c \notin Thread
    BY Apart DEF TypeOK
  <2>3. handler \in Seq(Op)
    BY OutlineStep
  <2>4. TypeOK'
    <3>1. rest' \in [Context -> Seq(Op)]
      BY <2>1, <2>2, <2>3 DEF TypeOK
    <3> QED
      BY <2>1, <3>1, SMTT(30) DEF TypeOK
  <2>5. /\ rest'[c] = handler /\ \A y \in Context \ {c} : rest'[y] = rest[y]
        /\ \A d \in Cpu \ {c} : on'[d] = on[d]
    BY <2>1, <2>2 DEF TypeOK
  <2>6. \A y \in Context : LocalOf(y)' = LocalOf(y) /\ CallOf(y)' = CallOf(y)
    BY <2>1 DEF LocalOf, Mutexes, CallOf
  <2>7. LocalOf(c) = Idle /\ CallOf(c) = Handler
    <3>1. Outline(CallOf(c), rest[c], LocalOf(c), Idle) /\ rest[c] = << >>
      BY <2>1, <2>2, Zenon DEF Obeys, Handling
    <3> QED
      BY <2>2, <3>1, OutlineStep, Zenon DEF CallOf
  <2>8. Obeys'
    <3>1. ASSUME NEW y \in Context PROVE Outline(CallOf(y)', rest'[y], LocalOf(y)', Idle)
      <4>1. CASE y = c
        BY <2>5, <2>6, <2>7, <4>1
      <4>2. CASE y # c
        BY <2>5, <2>6, <4>2 DEF Obeys
      <4> QED
        BY <4>1, <4>2
    <3> QED
      BY <3>1 DEF Obeys
  <2>9. Placed'
    BY <2>1 DEF Placed
  <2>10. MaskedInside'
    <3>1. ASSUME NEW t \in Thread, saved'[t] # << >>, call'[t] # "syscall_switch_to"
          PROVE  Undisturbed(t)'
      <4>1. Undisturbed(t)
        BY <2>1, <3>1 DEF MaskedInside
      <4>2. PICK d \in online : current[d] = t /\ ~Handling(d) /\ ~on[d]
        BY <4>1 DEF Undisturbed
      <4>3. d # c /\ d \in Cpu /\ d \in Context
        BY <2>1, <4>2, Apart DEF TypeOK
      <4>4. ~Handling(d)' /\ ~on'[d]
        BY <2>5, <4>2, <4>3 DEF Handling
      <4> QED
        BY <2>1, <4>1, <4>2, <4>4, Zenon DEF Undisturbed
    <3> QED
      BY <3>1 DEF MaskedInside
  <2>11. ProcessLock'
    BY <2>1, ProcessLockKept
  <2> QED
    BY <2>4, <2>8, <2>9, <2>10, <2>11
<1>1. ASSUME NEW x \in Context, NEW c \in online, Step(x, c) PROVE LocksInv'
  <2>1. ASSUME NEW m \in Mutex, TakeMutex(x, c, m) PROVE LocksInv'
    BY <2>1, <1>TakeMutexStep
  <2>2. CASE DropMutexes(x, c)
    BY <2>2, <1>DropMutexesStep
  <2>3. CASE Read(x, c)
    BY <2>3, <1>ReadStep
  <2>4. CASE DropRead(x, c)
    BY <2>4, <1>DropReadStep
  <2>5. CASE Write(x, c)
    BY <2>5, <1>WriteStep
  <2>6. CASE DropWrite(x, c)
    BY <2>6, <1>DropWriteStep
  <2>7. CASE ForceWriteUnlock(x, c)
    BY <2>7, <1>ForceWriteUnlockStep
  <2>8. CASE Disable(x, c)
    BY <2>8, <1>DisableStep
  <2>9. CASE Restore(x, c)
    BY <2>9, <1>RestoreStep
  <2>10. CASE Cli(x, c)
    BY <2>10, <1>CliStep
  <2>11. CASE Sti(x, c)
    BY <2>11, <1>StiStep
  <2>12. CASE Schedule(x, c)
    BY <2>12, <1>ScheduleStep
  <2>13. CASE Return(x, c)
    BY <2>13, <1>ReturnStep
  <2> QED
    BY <1>1, <2>1, <2>2, <2>3, <2>4, <2>5, <2>6, <2>7, <2>8, <2>9, <2>10, <2>11, <2>12, <2>13 DEF Step
<1>2. ASSUME NEW c \in online, timer_interrupt(c) PROVE LocksInv'
  <2>1. devices' \in Nat /\ Interrupt(c, timer_handler)
    BY <1>2 DEF timer_interrupt, LocksInv, TypeOK
  <2> QED
    BY <2>1, HandlersKept, <1>InterruptStep
<1>3. ASSUME NEW c \in online, device_interrupt(c) PROVE LocksInv'
  <2>1. devices' \in Nat /\ Interrupt(c, default_irq_handler)
    BY <1>3 DEF device_interrupt, LocksInv, TypeOK
  <2> QED
    BY <2>1, HandlersKept, <1>InterruptStep
<1> QED
  BY <1>1, <1>2, <1>3 DEF Next, Runs

LEMMA LocksStutter ==
    ASSUME LocksInv, UNCHANGED vars
    PROVE  LocksInv'
<1>1. UNCHANGED <<online, call, rest, owner, word, guards, on, saved, current, ready, devices>>
  BY DEF vars
<1>2. TypeOK' /\ Placed'
  BY <1>1 DEF LocksInv, TypeOK, Placed
<1>3. Obeys'
  BY <1>1, Zenon DEF LocksInv, Obeys, CallOf, LocalOf, Mutexes
<1>4. MaskedInside'
  BY <1>1 DEF LocksInv, MaskedInside, Undisturbed, Handling
<1>5. ProcessLock'
  BY <1>1, ProcessLockKept DEF LocksInv
<1> QED
  BY <1>2, <1>3, <1>4, <1>5 DEF LocksInv

\* Every context of the kernel keeps to the discipline of the locks in every
\* state, whatever the interrupts do: it gives back only what it holds, takes a
\* lock below one it holds only after the frames, and the lock words agree with
\* the guards.
THEOREM LocksSound == Spec => []LocksInv
<1>1. Init => LocksInv
  BY LocksInit
<1>2. LocksInv /\ [Next]_vars => LocksInv'
  BY LocksNext, LocksStutter
<1> QED
  BY <1>1, <1>2, PTL DEF Spec

-----------------------------------------------------------------------------
\* A thread that has masked interrupts is not interrupted.
LEMMA InvMasks == LocksInv => SectionsMasked
<1>1. ASSUME LocksInv, NEW t \in Thread, saved[t] # << >>, call[t] # "syscall_switch_to"
      PROVE  ~(Preempted(t) \/ \E c \in online : current[c] = t /\ Handling(c))
  <2>1. PICK c \in online : current[c] = t /\ ~Handling(c)
    BY <1>1 DEF LocksInv, MaskedInside, Undisturbed
  <2>2. \A d \in online : current[d] = t => d = c
    BY <1>1, <2>1 DEF LocksInv, Placed
  <2> QED
    BY <2>1, <2>2 DEF Preempted
<1> QED
  BY <1>1 DEF SectionsMasked

\* No interrupt enters a section of print, of create_page_table_from_kernel or of
\* a system call that has masked them, except after the sti of switch_to: for any
\* number of CPUs and threads and whatever they call.
THEOREM MaskingSound == Spec => []SectionsMasked
  BY LocksSound, InvMasks, PTL

\* Without heap_clear the process is its writer's alone.
LEMMA InvExcludes == LocksInv => WriterAlone
<1>1. ASSUME LocksInv, \A t \in Thread : call[t] # "heap_clear",
             NEW t \in Thread, NEW u \in Thread, t # u, guards[t].write > 0
      PROVE  guards[u] = [write |-> 0, read |-> 0]
  <2>1. guards[u] \in [write : Nat, read : Nat] /\ word.writer = t /\ t # Nobody
    <3>1. guards[u] \in [write : Nat, read : Nat]
      BY <1>1 DEF LocksInv, TypeOK
    <3>2. word.writer = t
      BY <1>1 DEF LocksInv, ProcessLock
    <3> QED
      BY <3>1, <3>2, Apart
  <2>2. Counts(0, ReadGuards)
    BY <1>1, <2>1 DEF LocksInv, ProcessLock
  <2>3. ReadGuards = {}
    BY <2>2, CountNone
  <2>4. guards[u].read = 0
    <3>1. <<u, 0>> \in Thread \X Nat /\ <<u, 0>>[1] = u /\ <<u, 0>>[2] = 0
      OBVIOUS
    <3>2. ~(0 < guards[u].read)
      BY <2>3, <3>1 DEF ReadGuards
    <3> QED
      BY <2>1, <3>2
  <2>5. ~(guards[u].write > 0)
    BY <1>1, <2>1 DEF LocksInv, ProcessLock
  <2>6. guards[u].write = 0
    BY <2>1, <2>5
  <2> QED
    BY <2>1, <2>4, <2>6
<1> QED
  BY <1>1 DEF WriterAlone

\* The write guard of the process's RwLock excludes every other guard, for any
\* number of threads, unless one of them clears the heap.
THEOREM WriterSound == Spec => []WriterAlone
  BY LocksSound, InvExcludes, PTL
-----------------------------------------------------------------------------
\* What a context waits for.
Waits(op) == op[1] \in {"lock", "read", "write"}

LEMMA OpWords ==
    ASSUME NEW op \in Op, op[1] = "lock"
    PROVE  \E m \in Mutex : op = Lock(m)
<1>1. CASE op \in {Unlock(ms) : ms \in SUBSET Mutex}
  BY <1>1 DEF Unlock
<1>2. CASE op \in {<<w>> : w \in CallWord \cup HandlerWord}
  <2>1. PICK w \in CallWord \cup HandlerWord : op = <<w>>
    BY <1>2
  <2>2. op[1] = w
    BY <2>1
  <2> QED
    BY <2>2 DEF CallWord, HandlerWord
<1> QED
  BY <1>1, <1>2 DEF Op

LEMMA LevelBound ==
    ASSUME NEW op \in Op, Waits(op)
    PROVE  Level(op) \in 0 .. 7
<1>1. \A m \in Mutex : Rank(m) \in 0 .. 7
  BY DEF Mutex, Rank
<1>2. CASE op[1] = "lock"
  <2>1. PICK m \in Mutex : op = Lock(m)
    BY <1>2, OpWords
  <2> QED
    BY <1>1, <2>1 DEF Level, Lock
<1>3. CASE op[1] # "lock"
  BY <1>3 DEF Waits, Level
<1> QED
  BY <1>2, <1>3

\* Whoever is waited for has what is asked for.
LEMMA Blocker ==
    ASSUME LocksInv, NEW x \in Context, NEW y \in BlockedBy(x)
    PROVE  /\ rest[x] # << >> /\ Head(rest[x]) \in Op /\ Waits(Head(rest[x])) /\ y \in Context
           /\ \/ Head(rest[x])[1] = "lock" /\ Head(rest[x])[2] \in Mutexes(y)
              \/ Head(rest[x])[1] = "read" /\ y \in Thread /\ guards[y].write > 0
              \/ Head(rest[x])[1] = "write" /\ y \in Thread /\ (guards[y].write > 0 \/ guards[y].read > 0)
<1> USE DEF LocksInv
<1> DEFINE op == Head(rest[x])
<1>1. rest[x] # << >> /\ Waits(op)
  BY DEF BlockedBy, Asks, Waits
<1>2. op \in Op
  <2>1. Outline(CallOf(x), rest[x], LocalOf(x), Idle)
    BY DEF Obeys
  <2> QED
    BY <1>1, <2>1, OutlineStep
<1>3. word.writer # Nobody => word.writer \in Thread /\ guards[word.writer].write > 0
  BY DEF TypeOK, ProcessLock
<1>4. CASE Asks(x, "lock")
  <2>1. y = owner[op[2]] /\ y # Nobody /\ op[1] = "lock"
    BY <1>4 DEF BlockedBy, Asks
  <2>2. PICK m \in Mutex : op = Lock(m)
    BY <1>2, <2>1, OpWords
  <2>3. op[2] = m /\ owner[m] \in Context \cup {Nobody}
    BY <2>2 DEF Lock, TypeOK
  <2> QED
    BY <1>1, <1>2, <2>1, <2>3 DEF Mutexes
<1>5. CASE Asks(x, "read")
  <2>1. y = word.writer /\ y # Nobody /\ op[1] = "read"
    BY <1>5 DEF BlockedBy, Asks
  <2> QED
    BY <1>1, <1>2, <1>3, <2>1, Apart
<1>6. CASE Asks(x, "write")
  <2>1. op[1] = "write" /\ ~Asks(x, "lock") /\ ~Asks(x, "read")
    BY <1>6 DEF Asks
  <2> HIDE DEF op
  <2>2. BlockedBy(x) = ({word.writer} \ {Nobody}) \cup {t \in Thread : guards[t].read > 0}
    BY <1>6, <2>1 DEF BlockedBy
  <2>3. (y = word.writer /\ y # Nobody) \/ (y \in Thread /\ guards[y].read > 0)
    BY <2>2
  <2>4. y \in Context /\ y \in Thread /\ (guards[y].write > 0 \/ guards[y].read > 0)
    BY <1>3, <2>3, Apart
  <2> QED
    BY <1>1, <1>2, <2>1, <2>4 DEF op
<1> QED
  BY <1>1, <1>4, <1>5, <1>6 DEF Waits, Asks

\* Who waits for a lock while another waits for it asks for more than the other,
\* except after the frames.
LEMMA Higher ==
    ASSUME LocksInv, NEW x \in Context, NEW y \in BlockedBy(x), BlockedBy(y) # {},
           ~FrameBeforeTable(y), ~FrameBeforeProcess(y)
    PROVE  Level(Head(rest[y])) > Level(Head(rest[x]))
<1> USE DEF LocksInv
<1> DEFINE op == Head(rest[y])
           a == LocalOf(y)
<1>1. y \in Context
  BY Blocker
<1>2. rest[y] # << >> /\ op \in Op /\ Waits(op)
  BY <1>1, Blocker
<1>3. Allowed(CallOf(y), op, a)
  <2>1. Outline(CallOf(y), rest[y], LocalOf(y), Idle)
    BY <1>1 DEF Obeys
  <2> QED
    BY <1>2, <2>1, OutlineStep
<1>4. a.held = Mutexes(y) /\ (y \in Thread => a.reads = guards[y].read /\ a.writes = guards[y].write)
  BY DEF LocalOf, L
<1>5. ~OutOfOrder(op, a)
  BY <1>2, <1>4 DEF OutOfOrder, FrameBeforeTable, FrameBeforeProcess, Asks, Waits, Mutexes
<1> HIDE DEF op, a
<1>6. InOrder(op, a)
  BY <1>2, <1>3, <1>5 DEF Allowed, Waits
<1>7. Level(op) \in 0 .. 7
  BY <1>2, LevelBound
<1>8. CASE Head(rest[x])[1] = "lock" /\ Head(rest[x])[2] \in Mutexes(y)
  <2>1. Level(Head(rest[x])) = Rank(Head(rest[x])[2])
    BY <1>8 DEF Level
  <2>2. Level(Head(rest[x])) < Level(op)
    BY <1>4, <1>6, <1>8, <2>1 DEF InOrder
  <2>3. Level(Head(rest[x])) \in 0 .. 7
    BY Blocker, LevelBound
  <2> QED
    BY <1>7, <2>2, <2>3 DEF op
<1>9. CASE Head(rest[x])[1] = "read" /\ y \in Thread /\ guards[y].write > 0
  <2>1. Level(Head(rest[x])) = 2 /\ Level(op) > 2
    BY <1>4, <1>6, <1>9 DEF Level, InOrder
  <2> QED
    BY <2>1 DEF op
<1>10. CASE Head(rest[x])[1] = "write" /\ y \in Thread /\ (guards[y].write > 0 \/ guards[y].read > 0)
  <2>1. Level(Head(rest[x])) = 0
    BY <1>10 DEF Level
  <2>2. Level(op) > 0
    BY <1>4, <1>6, <1>7, <1>10 DEF InOrder
  <2> QED
    BY <2>1, <2>2 DEF op
<1> QED
  BY <1>8, <1>9, <1>10, Blocker

\* A thread that is waited for and is not running has been interrupted with a
\* lock that is held openly.
LEMMA Openly ==
    ASSUME LocksInv, NEW x \in Context, NEW y \in BlockedBy(x), y \in Thread,
           Preempted(y) \/ \E c \in online : current[c] = y /\ Handling(c)
    PROVE  InterruptedHolder(y)
<1> USE DEF LocksInv
<1> DEFINE n == call[y]
<1>1. y \in Context /\ n \in Call
  BY Blocker, SMTT(30) DEF TypeOK
<1>2. CASE guards[y].write > 0 \/ guards[y].read > 0
  <2>1. guards[y] # [write |-> 0, read |-> 0]
    BY <1>2
  <2>2. "process" \in HeldOpenly(y)
    BY <2>1 DEF HeldOpenly, Holds
  <2> QED
    BY <2>2 DEF InterruptedHolder
<1>3. CASE Mutexes(y) # {}
  <2>1. PICK m \in Mutex : m \in Mutexes(y) /\ owner[m] = y
    BY <1>3 DEF Mutexes
  <2>2. m \notin Masked(n)
    <3>1. SUFFICES ASSUME m \in Masked(n) PROVE FALSE
      OBVIOUS
    <3>2. Proper(CallOf(y), LocalOf(y))
      BY <1>1, OutlineStep DEF Obeys
    <3>3. CallOf(y) = n /\ n # Handler
      BY <1>1, CallNames DEF CallOf
    <3>4. LocalOf(y).held = Mutexes(y) /\ LocalOf(y).depth = Len(saved[y])
      BY DEF LocalOf, L
    <3>5. Len(saved[y]) > 0 /\ n # "syscall_switch_to"
      BY <2>1, <3>1, <3>2, <3>3, <3>4, Zenon DEF Proper
    <3>6. saved[y] # << >>
      BY <3>5
    <3> QED
      BY <3>5, <3>6, InvMasks DEF SectionsMasked
  <2>3. m \in Holds(y)
    BY <2>1 DEF Holds
  <2>4. m \in HeldOpenly(y)
    BY <2>2, <2>3 DEF HeldOpenly, Masked, Mutex
  <2> QED
    BY <2>4 DEF InterruptedHolder
<1> QED
  BY <1>2, <1>3, Blocker

\* In a set that will not move somebody waits for somebody.
LEMMA SomebodyWaits ==
    ASSUME LocksInv, NEW X \in SUBSET Context, X # {}, Hopeless(X)
    PROVE  \E x \in X : BlockedBy(x) \cap X # {}
<1> USE DEF LocksInv
<1>1. ASSUME NEW c \in online \cap X PROVE BlockedBy(c) \cap X # {}
  <2>1. c \notin Thread /\ \A d \in online : current[d] \in Thread
    BY Apart DEF TypeOK
  <2> QED
    BY <2>1 DEF Hopeless, Preempted
<1>2. PICK x \in X : TRUE
  OBVIOUS
<1>3. CASE BlockedBy(x) \cap X # {} \/ \E c \in online \cap X : current[c] = x
  BY <1>1, <1>3
<1>4. CASE \A c \in online : Captured(c, X)
  <2>1. 1 \in online /\ Captured(1, X)
    BY <1>4 DEF TypeOK
  <2>2. CASE 1 \in X
    BY <1>1, <2>1, <2>2
  <2>3. CASE current[1] \in X
    <3>1. ~Preempted(current[1])
      BY <2>1 DEF Preempted
    <3> QED
      BY <1>1, <2>3, <3>1 DEF Hopeless
  <2> QED
    BY <2>1, <2>2, <2>3 DEF Captured
<1> QED
  BY <1>3, <1>4 DEF Hopeless

LEMMA Highest ==
    ASSUME NEW S, S \subseteq 0 .. 7, S # {}
    PROVE  \E m \in S : \A k \in S : k <= m
<1> SUFFICES ASSUME \A m \in S : \E k \in S : k > m
             PROVE  FALSE
  OBVIOUS
<1>1. S \subseteq 0 .. 6
  OBVIOUS
<1>2. S \subseteq 0 .. 5
  BY <1>1
<1>3. S \subseteq 0 .. 4
  BY <1>2
<1>4. S \subseteq 0 .. 3
  BY <1>3
<1>5. S \subseteq 0 .. 2
  BY <1>4
<1>6. S \subseteq 0 .. 1
  BY <1>5
<1>7. \A m \in S : m = 0
  BY <1>6
<1>8. PICK m \in S : TRUE
  BY Zenon
<1>9. PICK k \in S : k > m
  OBVIOUS
<1> QED
  BY <1>7, <1>8, <1>9

\* Among those who wait, whoever asks for the most waits for a thread that an
\* interrupt took off its CPU, unless the frames are locked first.
LEMMA InvHangs == LocksInv => HangHasCause
<1> SUFFICES ASSUME LocksInv, NEW X \in (SUBSET Context) \ {{}}, Hopeless(X),
                    \A x \in X : ~FrameBeforeTable(x) /\ ~FrameBeforeProcess(x) /\ ~InterruptedHolder(x)
             PROVE  FALSE
  BY DEF HangHasCause
<1>1. X \in SUBSET Context /\ X # {}
  OBVIOUS
<1> DEFINE B == {x \in X : BlockedBy(x) \cap X # {}}
           S == {Level(Head(rest[x])) : x \in B}
<1>2. B # {}
  BY <1>1, SomebodyWaits
<1>3. S \subseteq 0 .. 7
  <2>1. ASSUME NEW x \in B PROVE Level(Head(rest[x])) \in 0 .. 7
    <3>1. PICK y \in BlockedBy(x) : TRUE
      BY <2>1
    <3>2. Head(rest[x]) \in Op /\ Waits(Head(rest[x]))
      BY <1>1, <3>1, Blocker
    <3> QED
      BY <3>2, LevelBound
  <2> QED
    BY <2>1
<1>4. PICK m \in S : \A k \in S : k <= m
  BY <1>2, <1>3, Highest, Zenon
<1>5. PICK x \in B : m = Level(Head(rest[x]))
  OBVIOUS
<1>6. PICK y \in X : y \in BlockedBy(x)
  BY <1>5
<1>7. x \in Context /\ y \in Context
  BY <1>1, <1>5, <1>6
<1>8. CASE BlockedBy(y) \cap X # {}
  <2>1. Level(Head(rest[y])) > m
    BY <1>5, <1>6, <1>7, <1>8, Higher
  <2>2. Level(Head(rest[y])) \in S
    BY <1>6, <1>8
  <2>3. Level(Head(rest[y])) <= m
    BY <1>4, <2>2
  <2> QED
    BY <1>3, <2>1, <2>2, <2>3
<1>9. CASE \E c \in online \cap X : current[c] = y
  <2>1. PICK c \in online \cap X : current[c] = y
    BY <1>9
  <2>2. Handling(c) /\ y \in Thread
    BY <2>1 DEF Hopeless, Handling, LocksInv, TypeOK
  <2> QED
    BY <1>6, <1>7, <2>1, <2>2, Openly
<1>10. CASE Preempted(y)
  BY <1>6, <1>7, <1>10, Openly DEF Preempted
<1> QED
  BY <1>6, <1>8, <1>9, <1>10 DEF Hopeless

\* Contexts of the kernel wait for each other for ever only because the frames
\* were locked before the kernel's page table (create_page_table_from_kernel) or
\* before a process (the user heap), or because an interrupt took a thread off
\* its CPU with a lock it holds with interrupts on: for any number of CPUs and
\* threads, whatever calls they make.
THEOREM HangsExplained == Spec => []HangHasCause
  BY LocksSound, InvHangs, PTL

=============================================================================
