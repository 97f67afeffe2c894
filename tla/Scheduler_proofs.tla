--------------------------- MODULE Scheduler_proofs --------------------------
(***************************************************************************)
(* Proofs about Scheduler, for any number of CPUs and threads, and about   *)
(* SignalManager, for any types of signals.                                *)
(***************************************************************************)
EXTENDS Scheduler, FiniteSetTheorems, SequenceTheorems, TLAPS

\* push_front puts one thread into the queue.
LEMMA PushFront ==
    ASSUME NEW S, NEW q \in Seq(S), NEW t \in S
    PROVE  /\ <<t>> \o q \in Seq(S)
           /\ Entries(<<t>> \o q) = Entries(q) \cup {t}
           /\ Distinct(q) /\ t \notin Entries(q) => Distinct(<<t>> \o q)
<1> DEFINE r == <<t>> \o q
<1>1. /\ r \in Seq(S)
      /\ Len(r) = Len(q) + 1
      /\ r[1] = t
      /\ \A i \in 1 .. Len(q) : r[i + 1] = q[i]
  OBVIOUS
<1>2. \A i \in DOMAIN r : i = 1 \/ (i - 1 \in DOMAIN q /\ r[i] = q[i - 1])
  BY <1>1
<1>3. 1 \in DOMAIN r /\ \A i \in DOMAIN q : i + 1 \in DOMAIN r /\ r[i + 1] = q[i]
  BY <1>1
<1> HIDE DEF r
<1>4. Entries(r) = Entries(q) \cup {t}
  <2>1. Entries(r) \subseteq Entries(q) \cup {t}
    BY <1>1, <1>2 DEF Entries
  <2>2. Entries(q) \cup {t} \subseteq Entries(r)
    BY <1>1, <1>3 DEF Entries
  <2> QED
    BY <2>1, <2>2
<1>5. ASSUME Distinct(q), t \notin Entries(q)
      PROVE  Distinct(r)
  <2>1. \A i \in DOMAIN q : q[i] # t
    BY <1>5 DEF Entries
  <2>2. ASSUME NEW i \in DOMAIN r, NEW j \in DOMAIN r, i # j
        PROVE  r[i] # r[j]
    <3>1. CASE i = 1
      BY <1>1, <1>2, <2>1, <2>2, <3>1
    <3>2. CASE j = 1
      BY <1>1, <1>2, <2>1, <2>2, <3>2
    <3>3. CASE i # 1 /\ j # 1
      <4>1. i - 1 \in DOMAIN q /\ j - 1 \in DOMAIN q /\ r[i] = q[i - 1] /\ r[j] = q[j - 1]
        BY <1>2, <3>3
      <4>2. i \in Int /\ j \in Int
        BY <1>1
      <4>3. i - 1 # j - 1
        BY <2>2, <4>2
      <4> QED
        BY <1>5, <4>1, <4>3 DEF Distinct
    <3> QED
      BY <3>1, <3>2, <3>3
  <2> QED
    BY <2>2 DEF Distinct
<1> QED
  BY <1>1, <1>4, <1>5 DEF r

\* push_back puts one thread into the queue.
LEMMA PushBack ==
    ASSUME NEW S, NEW q \in Seq(S), NEW t \in S
    PROVE  /\ Append(q, t) \in Seq(S)
           /\ Entries(Append(q, t)) = Entries(q) \cup {t}
           /\ Distinct(q) /\ t \notin Entries(q) => Distinct(Append(q, t))
<1> DEFINE r == Append(q, t)
<1>1. /\ r \in Seq(S)
      /\ Len(r) = Len(q) + 1
      /\ r[Len(q) + 1] = t
      /\ \A i \in 1 .. Len(q) : r[i] = q[i]
  BY AppendProperties
<1>2. DOMAIN r = 1 .. Len(q) + 1 /\ DOMAIN q = 1 .. Len(q) /\ Len(q) \in Nat
  BY <1>1
<1> HIDE DEF r
<1>4. Entries(r) = Entries(q) \cup {t}
  BY <1>1, <1>2 DEF Entries
<1>5. Distinct(q) /\ t \notin Entries(q) => Distinct(r)
  BY <1>1, <1>2 DEF Entries, Distinct
<1> QED
  BY <1>1, <1>4, <1>5 DEF r

\* pop_front takes the first thread out of the queue.
LEMMA PopFront ==
    ASSUME NEW S, NEW q \in Seq(S), q # <<>>, Distinct(q)
    PROVE  /\ Tail(q) \in Seq(S)
           /\ Head(q) \in Entries(q)
           /\ Entries(Tail(q)) = Entries(q) \ {Head(q)}
           /\ Distinct(Tail(q))
<1> DEFINE r == Tail(q)
<1>1. /\ r \in Seq(S)
      /\ Len(r) = Len(q) - 1
      /\ Len(q) \in Nat \ {0}
      /\ DOMAIN q = 1 .. Len(q)
      /\ DOMAIN r = 1 .. Len(q) - 1
      /\ \A i \in 1 .. Len(q) - 1 : r[i] = q[i + 1]
      /\ Head(q) = q[1]
  BY HeadTailProperties, LenProperties, EmptySeq
<1> HIDE DEF r
<1>2. \A i \in DOMAIN r : i + 1 \in DOMAIN q /\ r[i] = q[i + 1]
  BY <1>1
<1>3. \A i \in DOMAIN q : i = 1 \/ (i - 1 \in DOMAIN r /\ r[i - 1] = q[i])
  BY <1>1
<1>4. Entries(r) \subseteq Entries(q) \ {Head(q)}
  BY <1>1, <1>2 DEF Entries, Distinct
<1>5. Entries(q) \ {Head(q)} \subseteq Entries(r)
  BY <1>1, <1>3 DEF Entries
<1>6. Distinct(r)
  BY <1>1, <1>2 DEF Distinct
<1>7. Head(q) \in Entries(q)
  BY <1>1 DEF Entries
<1> QED
  BY <1>1, <1>4, <1>5, <1>6, <1>7 DEF r

\* retain takes the given thread out of the queue and keeps the others.
LEMMA Retain ==
    ASSUME NEW S, NEW q \in Seq(S), NEW t, Distinct(q)
    PROVE  /\ Without(q, t) \in Seq(S)
           /\ Entries(Without(q, t)) = Entries(q) \ {t}
           /\ Distinct(Without(q, t))
<1>1. CASE t \notin Entries(q)
  BY <1>1 DEF Without
<1>2. CASE t \in Entries(q)
  <2> DEFINE at == CHOOSE i \in DOMAIN q : q[i] = t
             r == SubSeq(q, 1, at - 1) \o SubSeq(q, at + 1, Len(q))
  <2>1. Without(q, t) = r
    BY <1>2, Zenon DEF Without
  <2>2. at \in DOMAIN q /\ q[at] = t
    BY <1>2 DEF Entries
  <2> HIDE DEF at
  <2>3. Len(q) \in Nat /\ DOMAIN q = 1 .. Len(q) /\ \A i \in DOMAIN q : q[i] \in S
    OBVIOUS
  <2> DEFINE a == SubSeq(q, 1, at - 1)
             b == SubSeq(q, at + 1, Len(q))
  <2>4. at \in Nat /\ 1 <= at /\ at <= Len(q)
    BY <2>2, <2>3
  <2>5. a \in Seq(S) /\ Len(a) = at - 1 /\ \A i \in 1 .. at - 1 : a[i] = q[i]
    BY <2>2, <2>3
  <2>6. b \in Seq(S) /\ Len(b) = Len(q) - at /\ \A i \in 1 .. Len(q) - at : b[i] = q[at + i]
    <3> DEFINE m == at + 1
               n == Len(q)
    <3> HIDE DEF m, n
    <3>1. m \in Int /\ n \in Int /\ \A i \in m .. n : q[i] \in S
      BY <2>3, <2>4 DEF m, n
    <3>2. /\ SubSeq(q, m, n) \in Seq(S)
          /\ Len(SubSeq(q, m, n)) = IF m <= n THEN n - m + 1 ELSE 0
          /\ \A i \in 1 .. n - m + 1 : SubSeq(q, m, n)[i] = q[m + i - 1]
      BY <3>1, SubSeqProperties
    <3>3. b = SubSeq(q, m, n)
      BY DEF m, n
    <3> HIDE DEF a, b, r
    <3>4. Len(b) = Len(q) - at
      <4>1. Len(b) = IF m <= n THEN n - m + 1 ELSE 0
        BY <3>2, <3>3
      <4>2. Len(q) \in Nat
        BY <2>3
      <4> QED
        BY <2>4, <4>1, <4>2 DEF m, n
    <3>5. ASSUME NEW i \in 1 .. Len(q) - at
          PROVE  b[i] = q[at + i]
      <4>1. i \in 1 .. n - m + 1 /\ m + i - 1 = at + i
        BY <2>3, <2>4 DEF m, n
      <4> QED
        BY <3>2, <3>3, <4>1
    <3> QED
      BY <3>2, <3>3, <3>4, <3>5
  <2>7. /\ r \in Seq(S)
        /\ DOMAIN r = 1 .. Len(q) - 1
        /\ \A i \in 1 .. Len(q) - 1 : r[i] = IF i < at THEN q[i] ELSE q[i + 1]
    <3>1. r = a \o b
      OBVIOUS
    <3> HIDE DEF r, a, b
    <3>2. /\ a \o b \in Seq(S)
          /\ Len(a \o b) = Len(a) + Len(b)
          /\ \A i \in 1 .. Len(a) + Len(b) :
                 (a \o b)[i] = IF i <= Len(a) THEN a[i] ELSE b[i - Len(a)]
      BY <2>5, <2>6, ConcatProperties, Zenon
    <3>3. Len(q) \in Nat /\ Len(a) = at - 1 /\ Len(b) = Len(q) - at
      BY <2>3, <2>5, <2>6
    <3>4. at \in Nat /\ 1 <= at /\ at <= Len(q) /\ Len(a) + Len(b) = Len(q) - 1
      BY <2>4, <3>3
    <3>5. r \in Seq(S) /\ Len(r) = Len(q) - 1
      BY <3>1, <3>2, <3>4
    <3>6. DOMAIN r = 1 .. Len(q) - 1
      BY <3>5
    <3>7. ASSUME NEW i \in 1 .. Len(q) - 1
          PROVE  r[i] = IF i < at THEN q[i] ELSE q[i + 1]
      <4>1. r[i] = IF i <= Len(a) THEN a[i] ELSE b[i - Len(a)]
        BY <3>1, <3>2, <3>4
      <4>2. CASE i < at
        <5>1. i <= Len(a) /\ i \in 1 .. at - 1
          BY <2>4, <3>3, <4>2
        <5> QED
          BY <2>5, <4>1, <4>2, <5>1
      <4>3. CASE ~(i < at)
        <5>1. ~(i <= Len(a)) /\ i - Len(a) \in 1 .. Len(q) - at /\ at + (i - Len(a)) = i + 1
          BY <2>4, <3>3, <4>3
        <5> QED
          BY <2>6, <4>1, <4>3, <5>1
      <4> QED
        BY <4>2, <4>3
    <3> QED
      BY <3>5, <3>6, <3>7
  <2> HIDE DEF a, b, r
  <2>8. ASSUME NEW x \in Entries(r)
        PROVE  x \in Entries(q) \ {t}
    <3>1. PICK i \in 1 .. Len(q) - 1 : r[i] = x
      BY <2>7 DEF Entries
    <3> DEFINE from == IF i < at THEN i ELSE i + 1
    <3>2. from \in DOMAIN q /\ from # at
      BY <2>3, <2>4
    <3>3. q[from] = x
      BY <2>7, <3>1
    <3> HIDE DEF from
    <3> QED
      BY <2>2, <3>2, <3>3 DEF Entries, Distinct
  <2>9. ASSUME NEW x \in Entries(q) \ {t}
        PROVE  x \in Entries(r)
    <3>1. PICK i \in DOMAIN q : q[i] = x
      BY DEF Entries
    <3>2. i \in Nat /\ 1 <= i /\ i <= Len(q) /\ i # at
      BY <2>2, <2>3, <3>1
    <3>3. CASE i < at
      <4>1. i \in 1 .. Len(q) - 1
        BY <2>3, <2>4, <3>2, <3>3
      <4>2. r[i] = x
        BY <2>7, <3>1, <3>3, <4>1
      <4> QED
        BY <2>7, <4>1, <4>2 DEF Entries
    <3>4. CASE i > at
      <4> DEFINE k == i - 1
      <4>1. k \in 1 .. Len(q) - 1 /\ ~(k < at) /\ k + 1 = i
        BY <2>3, <2>4, <3>2, <3>4
      <4> HIDE DEF k
      <4>2. r[k] = x
        BY <2>7, <3>1, <4>1
      <4> QED
        BY <2>7, <4>1, <4>2, Zenon DEF Entries
    <3> QED
      BY <2>4, <3>2, <3>3, <3>4
  <2>10. Distinct(r)
    <3> DEFINE from(i) == IF i < at THEN i ELSE i + 1
    <3>1. SUFFICES ASSUME NEW i \in 1 .. Len(q) - 1, NEW j \in 1 .. Len(q) - 1, i # j
                   PROVE  r[i] # r[j]
      BY <2>7 DEF Distinct
    <3>2. from(i) \in DOMAIN q /\ from(j) \in DOMAIN q /\ from(i) # from(j)
      BY <2>2, <2>3, <3>1
    <3>3. r[i] = q[from(i)] /\ r[j] = q[from(j)]
      BY <2>7
    <3> HIDE DEF from
    <3> QED
      BY <3>2, <3>3 DEF Distinct
  <2> QED
    BY <2>1, <2>7, <2>8, <2>9, <2>10
<1> QED
  BY <1>1, <1>2
-----------------------------------------------------------------------------
LEMMA InitInvariant == Init => IndInv
<1> SUFFICES ASSUME Init PROVE IndInv
  OBVIOUS
<1> USE SchedulerAssumption DEF Init
<1>1. InitThreads \subseteq Thread /\ Entries(ready) = {} /\ OnCpu = InitThreads
  BY DEF InitThreads, Thread, Entries, OnCpu
<1>2. TypeOK
  <2>1. current \in [Cpu -> Thread] /\ stack \in [Cpu -> Thread] /\ ready \in Seq(Thread)
    BY <1>1
  <2>2. state \in [Thread -> ThreadState] /\ step \in [Cpu -> {"run", "switch"}]
    BY DEF ThreadState
  <2>3. life \in [Thread -> {"none", "creating", "owned", "dropped"}]
    OBVIOUS
  <2> QED
    BY <2>1, <2>2, <2>3, Zenon DEF TypeOK
<1>3. PlacedOnce
  BY <1>1 DEF PlacedOnce, Distinct, Queued
<1>4. NoThreadLost
  BY <1>1 DEF NoThreadLost, Alive
<1>5. NoPanic /\ RunsOnOwnStack
  BY DEF NoPanic, RunsOnOwnStack
<1>6. QueuedCanRun /\ RemovedStaysOut
  BY <1>1 DEF QueuedCanRun, RemovedStaysOut, Queued
<1>7. UncreatedIsNowhere /\ InitThreadsStay
  BY <1>1 DEF UncreatedIsNowhere, InitThreadsStay, Queued
<1> QED
  BY <1>2, <1>3, <1>4, <1>5, <1>6, <1>7 DEF IndInv

\* Creation: the new thread was nowhere, so it is at one place afterwards.
LEMMA AddStep ==
    ASSUME IndInv, NEW t \in KernelThread \cup UserThread, add(t)
    PROVE  IndInv'
<1> USE SchedulerAssumption DEF IndInv, add
<1>1. t \in Thread /\ t \notin InitThreads
  BY DEF Thread
<1>2. ready' \in Seq(Thread) /\ Queued' = Queued \cup {t} /\ (Distinct(ready))'
  BY <1>1, PushFront DEF TypeOK, PlacedOnce, UncreatedIsNowhere, Queued
<1>3. Alive' = Alive \cup {t} /\ OnCpu' = OnCpu
  BY <1>1 DEF Alive, OnCpu, TypeOK
<1>4. TypeOK'
  BY <1>1, <1>2 DEF TypeOK
<1>5. PlacedOnce'
  BY <1>1, <1>2, <1>3 DEF PlacedOnce, UncreatedIsNowhere
<1>6. NoThreadLost'
  BY <1>2, <1>3 DEF NoThreadLost
<1>7. NoPanic' /\ RunsOnOwnStack'
  BY DEF NoPanic, RunsOnOwnStack
<1>8. QueuedCanRun'
  BY <1>1, <1>2, <1>3 DEF QueuedCanRun, UncreatedIsNowhere
<1>9. RemovedStaysOut'
  BY <1>1, <1>2 DEF RemovedStaysOut, TypeOK
<1>10. UncreatedIsNowhere'
  BY <1>1, <1>2, <1>3 DEF UncreatedIsNowhere, TypeOK
<1>11. InitThreadsStay'
  BY <1>1 DEF InitThreadsStay, TypeOK
<1> QED
  BY <1>4, <1>5, <1>6, <1>7, <1>8, <1>9, <1>10, <1>11

LEMMA OwnStep ==
    ASSUME IndInv, NEW t \in KernelThread \cup UserThread, own(t)
    PROVE  IndInv'
<1> USE SchedulerAssumption DEF IndInv, own
<1>1. t \in Thread /\ t \notin InitThreads
  BY DEF Thread
<1>2. Alive' = Alive /\ OnCpu' = OnCpu /\ Queued' = Queued
  BY <1>1 DEF Alive, OnCpu, Queued, TypeOK
<1>3. TypeOK'
  BY <1>1 DEF TypeOK
<1>4. PlacedOnce' /\ NoThreadLost' /\ NoPanic' /\ RunsOnOwnStack'
  BY <1>2 DEF PlacedOnce, NoThreadLost, NoPanic, RunsOnOwnStack
<1>5. QueuedCanRun'
  BY <1>2 DEF QueuedCanRun
<1>6. RemovedStaysOut' /\ UncreatedIsNowhere'
  BY <1>1, <1>2 DEF RemovedStaysOut, UncreatedIsNowhere, TypeOK
<1>7. InitThreadsStay'
  BY <1>1 DEF InitThreadsStay, TypeOK
<1> QED
  BY <1>3, <1>4, <1>5, <1>6, <1>7

\* When a CPU runs something else than an initial thread, there are more
\* initial threads than other CPUs, so one of them waits in the queue.
LEMMA Successor ==
    ASSUME IndInv, NEW c \in Cpu, current[c] \notin InitThreads
    PROVE  ready # <<>>
<1> USE SchedulerAssumption DEF IndInv
<1>1. SUFFICES ASSUME ready = <<>> PROVE FALSE
  OBVIOUS
<1>2. InitThreads \subseteq Thread /\ Queued = {}
  BY <1>1 DEF Thread, Queued, Entries
<1>3. ASSUME NEW t \in InitThreads
      PROVE  \E d \in Cpu \ {c} : current[d] = t
  <2>1. t \in Alive /\ state[t] \notin Parked
    BY <1>2 DEF InitThreadsStay, Alive, Parked
  <2>2. t \in OnCpu
    BY <1>2, <2>1 DEF NoThreadLost
  <2> QED
    BY <2>2 DEF OnCpu
<1> DEFINE f == [d \in Cpu |-> CHOOSE e \in Cpu \ {c} : current[e] = InitThread[d]]
<1>4. \A d \in Cpu : f[d] \in Cpu \ {c} /\ current[f[d]] = InitThread[d]
  BY <1>3 DEF InitThreads
<1>5. f \in [Cpu -> Cpu \ {c}]
  BY <1>4
<1>6. \A d, e \in Cpu : f[d] = f[e] => d = e
  BY <1>4
<1> HIDE DEF f
<1>7. IsFiniteSet(Cpu \ {c}) /\ Cardinality(Cpu \ {c}) = Cardinality(Cpu) - 1
  BY FS_RemoveElement, Zenon
<1>8. Cardinality(Cpu) \in Nat
  BY FS_CardinalityType
<1>9. Cardinality(Cpu \ {c}) < Cardinality(Cpu)
  BY <1>7, <1>8
<1>10. \E d, e \in Cpu : d # e /\ f[d] = f[e]
  BY <1>5, <1>7, <1>9, FS_PigeonHole
<1> QED
  BY <1>6, <1>10

\* A round of the scheduler moves the front of the queue to the CPU and the
\* CPU's thread, if it can still run, to the back.
LEMMA ScheduleStep ==
    ASSUME IndInv, NEW c \in Cpu, schedule(c)
    PROVE  IndInv'
<1> USE SchedulerAssumption DEF IndInv
<1>1. /\ state' = state /\ life' = life /\ removed' = removed /\ stack' = stack
      /\ Alive' = Alive
      /\ step' = [step EXCEPT ![c] = "switch"]
  BY DEF schedule, Alive
<1>2. RunsOnOwnStack' /\ InitThreadsStay'
  <2>1. \A d \in Cpu \ {c} : current'[d] = current[d] /\ step'[d] = step[d]
    BY <1>1 DEF schedule, TypeOK
  <2>2. step'[c] = "switch"
    BY <1>1 DEF TypeOK
  <2> QED
    BY <1>1, <2>1, <2>2 DEF RunsOnOwnStack, InitThreadsStay
<1>3. CASE ready = <<>>
  <2>1. current' = current /\ ready' = ready /\ panicked' = (current[c] \notin Alive)
    BY <1>3 DEF schedule
  <2>2. OnCpu' = OnCpu /\ Queued' = Queued
    BY <2>1 DEF OnCpu, Queued
  <2>3. current[c] \in Alive
    BY <1>3, Successor DEF InitThreadsStay, Alive, Thread
  <2>4. TypeOK'
    BY <1>1, <2>1, <2>3 DEF TypeOK
  <2>5. NoPanic' /\ PlacedOnce' /\ NoThreadLost'
    BY <1>1, <2>1, <2>2, <2>3, Zenon DEF NoPanic, PlacedOnce, NoThreadLost
  <2>6. QueuedCanRun' /\ RemovedStaysOut' /\ UncreatedIsNowhere'
    BY <1>1, <2>2 DEF QueuedCanRun, RemovedStaysOut, UncreatedIsNowhere
  <2> QED
    BY <1>2, <2>4, <2>5, <2>6
<1>4. CASE ready # <<>>
  <2> DEFINE last == current[c]
             next == Head(ready)
             back == last \in Alive /\ state[last] \notin Parked
  <2>1. /\ current' = [current EXCEPT ![c] = next]
        /\ ready' = Rotated(last)
        /\ panicked' = (next \notin Alive)
    BY <1>4 DEF schedule, TypeOK
  <2>2. /\ Tail(ready) \in Seq(Thread) /\ Distinct(Tail(ready))
        /\ next \in Queued /\ Entries(Tail(ready)) = Queued \ {next}
    BY <1>4, PopFront DEF TypeOK, PlacedOnce, Queued
  <2>3. next \in Thread /\ last \in Thread /\ last \in OnCpu /\ last # next
    <3>1. Queued \subseteq Thread /\ last \in Thread
      BY DEF TypeOK, Queued, Entries
    <3>2. last \in OnCpu
      BY DEF OnCpu
    <3> HIDE DEF last, next
    <3> QED
      BY <2>2, <3>1, <3>2 DEF PlacedOnce
  <2>4. \A d \in Cpu \ {c} : current'[d] = current[d] /\ current[d] # last
    BY <2>1 DEF TypeOK, PlacedOnce
  <2>5. current'[c] = next
    BY <2>1 DEF TypeOK
  <2>6. OnCpu' = (OnCpu \ {last}) \cup {next}
    <3>1. OnCpu' \subseteq (OnCpu \ {last}) \cup {next}
      BY <2>4, <2>5 DEF OnCpu
    <3>2. (OnCpu \ {last}) \cup {next} \subseteq OnCpu'
      BY <2>4, <2>5 DEF OnCpu
    <3> QED
      BY <3>1, <3>2
  <2> HIDE DEF last, next
  <2>7. /\ ready' \in Seq(Thread) /\ Distinct(ready')
        /\ Queued' = (Queued \ {next}) \cup (IF back THEN {last} ELSE {})
    <3>1. last \notin Entries(Tail(ready))
      BY <2>2, <2>3 DEF PlacedOnce
    <3>2. CASE back
      <4> DEFINE rest == Tail(ready)
                 q == Append(rest, last)
      <4>1. ready' = q
        BY <2>1, <3>2 DEF Rotated
      <4>2. q \in Seq(Thread) /\ Entries(q) = Entries(rest) \cup {last} /\ Distinct(q)
        <5>1. rest \in Seq(Thread) /\ Distinct(rest) /\ last \in Thread /\ last \notin Entries(rest)
          BY ONLY <2>2, <2>3, <3>1
        <5> HIDE DEF rest
        <5> QED
          BY ONLY <5>1, PushBack
      <4> HIDE DEF q
      <4>3. ready' \in Seq(Thread) /\ Distinct(ready') /\ Queued' = Entries(Tail(ready)) \cup {last}
        BY ONLY <4>1, <4>2 DEF Queued
      <4> HIDE DEF back
      <4> QED
        BY ONLY <2>2, <3>2, <4>3
    <3>3. CASE ~back
      BY <2>1, <2>2, <3>3 DEF Rotated, Queued
    <3> QED
      BY <3>2, <3>3
  <2>8. TypeOK'
    <3>1. current' \in [Cpu -> Thread]
      BY <2>1, <2>3 DEF TypeOK
    <3>2. step' \in [Cpu -> {"run", "switch"}] /\ panicked' \in BOOLEAN
      BY <1>1, <2>1 DEF TypeOK
    <3> QED
      BY <1>1, <2>7, <3>1, <3>2 DEF TypeOK
  <2>9. PlacedOnce'
    <3>1. \A d, e \in Cpu : d # e => current'[d] # current'[e]
      BY <2>2, <2>4, <2>5 DEF PlacedOnce, OnCpu
    <3>2. OnCpu' \cap Queued' = {}
      BY <2>3, <2>6, <2>7 DEF PlacedOnce
    <3> QED
      BY <2>7, <3>1, <3>2 DEF PlacedOnce
  <2>10. NoThreadLost'
    BY <1>1, <2>6, <2>7 DEF NoThreadLost
  <2>11. NoPanic'
    <3>1. OrderlyExit => next \in Alive
      BY <2>2 DEF QueuedCanRun
    <3> QED
      BY ONLY <2>1, <3>1, Zenon DEF NoPanic
  <2>12. QueuedCanRun'
    BY <1>1, <2>7 DEF QueuedCanRun, Parked
  <2>13. RemovedStaysOut'
    BY <1>1, <2>7 DEF RemovedStaysOut, Parked
  <2>14. UncreatedIsNowhere'
    BY <1>1, <2>2, <2>3, <2>6, <2>7 DEF UncreatedIsNowhere
  <2> QED
    BY <1>2, <2>8, <2>9, <2>10, <2>11, <2>12, <2>13, <2>14
<1> QED
  BY <1>3, <1>4

LEMMA SwitchStep ==
    ASSUME IndInv, NEW c \in Cpu, switch(c)
    PROVE  IndInv'
<1> USE DEF IndInv, switch
<1>1. Alive' = Alive /\ OnCpu' = OnCpu /\ Queued' = Queued
  BY DEF Alive, OnCpu, Queued
<1>2. TypeOK'
  BY DEF TypeOK
<1>3. RunsOnOwnStack'
  BY DEF RunsOnOwnStack, TypeOK
<1>4. PlacedOnce' /\ NoThreadLost' /\ NoPanic'
  BY <1>1 DEF PlacedOnce, NoThreadLost, NoPanic
<1>5. QueuedCanRun' /\ RemovedStaysOut' /\ UncreatedIsNowhere' /\ InitThreadsStay'
  BY <1>1 DEF QueuedCanRun, RemovedStaysOut, UncreatedIsNowhere, InitThreadsStay
<1> QED
  BY <1>2, <1>3, <1>4, <1>5


\* The steps of the client that change a thread's state and nothing else.
LEMMA BlockStep ==
    ASSUME IndInv, NEW c \in Cpu, block(c)
    PROVE  IndInv'
<1> USE SchedulerAssumption DEF IndInv
<1> DEFINE t == current[c]
<1>1. t \in Thread /\ t \notin InitThreads /\ t \in OnCpu /\ t \notin Queued
  BY DEF block, Thread, OnCpu, PlacedOnce
<1>2. PICK s \in {"Blocked", "Waiting"} : state' = [state EXCEPT ![t] = s]
  BY Zenon DEF block
<1>3. /\ Alive' = Alive /\ OnCpu' = OnCpu /\ Queued' = Queued
      /\ UNCHANGED <<current, ready, life, removed, step, stack, panicked>>
      /\ state[t] \notin Parked
  BY DEF block, Alive, OnCpu, Queued
<1> HIDE DEF t
<1>4. /\ state' \in [Thread -> ThreadState] /\ state'[t] = s
      /\ \A u \in Thread \ {t} : state'[u] = state[u]
  BY <1>1, <1>2 DEF TypeOK, ThreadState
<1>5. Queued \subseteq Thread /\ removed \subseteq Thread /\ InitThreads \subseteq Thread
  BY DEF TypeOK, Queued, Entries, Thread
<1>6. TypeOK' /\ PlacedOnce' /\ NoPanic' /\ RunsOnOwnStack'
  BY <1>3, <1>4 DEF TypeOK, PlacedOnce, NoPanic, RunsOnOwnStack
<1>7. NoThreadLost'
  BY <1>1, <1>3, <1>4 DEF NoThreadLost, Alive
<1>8. QueuedCanRun'
  BY <1>1, <1>3, <1>4, <1>5 DEF QueuedCanRun
<1>9. RemovedStaysOut'
  BY <1>3, <1>4, <1>5 DEF RemovedStaysOut, Parked
<1>10. UncreatedIsNowhere' /\ InitThreadsStay'
  BY <1>1, <1>3, <1>4, <1>5 DEF UncreatedIsNowhere, InitThreadsStay
<1> QED
  BY <1>6, <1>7, <1>8, <1>9, <1>10

LEMMA TerminateStep ==
    ASSUME IndInv, NEW t \in UserThread, terminate(t)
    PROVE  IndInv'
<1> USE SchedulerAssumption DEF IndInv
<1>1. t \in Thread /\ t \notin InitThreads /\ t \in Alive
  BY DEF terminate, Thread
<1>2. /\ Alive' = Alive /\ OnCpu' = OnCpu /\ Queued' = Queued
      /\ UNCHANGED <<current, ready, life, removed, step, stack, panicked>>
  BY DEF terminate, Alive, OnCpu, Queued
<1>3. /\ state' \in [Thread -> ThreadState] /\ state'[t] = "Terminated"
      /\ \A u \in Thread \ {t} : state'[u] = state[u]
  BY <1>1 DEF terminate, TypeOK, ThreadState
<1>4. Queued \subseteq Thread /\ removed \subseteq Thread /\ InitThreads \subseteq Thread
  BY DEF TypeOK, Queued, Entries, Thread
<1>5. TypeOK' /\ PlacedOnce' /\ NoPanic' /\ RunsOnOwnStack'
  BY <1>2, <1>3 DEF TypeOK, PlacedOnce, NoPanic, RunsOnOwnStack
<1>6. NoThreadLost'
  BY <1>2, <1>3 DEF NoThreadLost, Parked, Alive
<1>7. QueuedCanRun'
  BY <1>2, <1>3, <1>4 DEF QueuedCanRun
<1>8. RemovedStaysOut'
  BY <1>2, <1>3, <1>4 DEF RemovedStaysOut
<1>9. UncreatedIsNowhere' /\ InitThreadsStay'
  BY <1>1, <1>2, <1>3, <1>4 DEF UncreatedIsNowhere, InitThreadsStay, Alive
<1> QED
  BY <1>5, <1>6, <1>7, <1>8, <1>9

\* A parked thread was neither queued nor current, so waking it places it once.
LEMMA WakeStep ==
    ASSUME IndInv, NEW t \in KernelThread \cup UserThread, wake(t)
    PROVE  IndInv'
<1> USE SchedulerAssumption DEF IndInv
<1>1. t \in Thread /\ t \in Alive /\ t \notin OnCpu /\ t \notin Queued /\ t \notin removed
  <2>1. t \in Thread /\ t \in Alive /\ t \notin OnCpu /\ state[t] \in {"Blocked", "Waiting"}
    BY DEF wake, Alive
  <2>2. t \notin Queued
    BY <2>1 DEF QueuedCanRun
  <2>3. t \notin removed
    BY <2>1 DEF RemovedStaysOut
  <2> QED
    BY <2>1, <2>2, <2>3
<1>2. /\ Alive' = Alive /\ OnCpu' = OnCpu
      /\ UNCHANGED <<current, life, removed, step, stack, panicked>>
  BY DEF wake, Alive, OnCpu
<1>3. ready' \in Seq(Thread) /\ Queued' = Queued \cup {t} /\ Distinct(ready')
  BY <1>1, PushFront DEF wake, TypeOK, PlacedOnce, Queued
<1>4. /\ state' \in [Thread -> ThreadState] /\ state'[t] = "Ready"
      /\ \A u \in Thread \ {t} : state'[u] = state[u]
  BY <1>1 DEF wake, TypeOK, ThreadState
<1>5. Queued \subseteq Thread /\ removed \subseteq Thread /\ InitThreads \subseteq Thread
  BY DEF TypeOK, Queued, Entries, Thread
<1>6. TypeOK' /\ PlacedOnce' /\ NoPanic' /\ RunsOnOwnStack'
  BY <1>1, <1>2, <1>3, <1>4 DEF TypeOK, PlacedOnce, NoPanic, RunsOnOwnStack
<1>7. NoThreadLost'
  BY <1>2, <1>3, <1>4 DEF NoThreadLost, Alive
<1>8. QueuedCanRun'
  BY <1>1, <1>2, <1>3, <1>4, <1>5 DEF QueuedCanRun
<1>9. RemovedStaysOut'
  BY <1>1, <1>2, <1>3, <1>4, <1>5 DEF RemovedStaysOut
<1>10. UncreatedIsNowhere' /\ InitThreadsStay'
  BY <1>1, <1>2, <1>3, <1>4, <1>5 DEF UncreatedIsNowhere, InitThreadsStay, Alive
<1> QED
  BY <1>6, <1>7, <1>8, <1>9, <1>10


\* remove takes an ended thread off the queue; with orderly exits every entry
\* it upgrades on the way is alive.
LEMMA RemoveStep ==
    ASSUME IndInv, NEW t \in UserThread, remove(t)
    PROVE  IndInv'
<1> USE SchedulerAssumption DEF IndInv
<1>1. t \in Thread /\ t \in Alive /\ state[t] = "Terminated" /\ life[t] # "none"
  BY DEF remove, Alive
<1>2. /\ Alive' = Alive /\ OnCpu' = OnCpu
      /\ UNCHANGED <<current, state, life, step, stack>>
      /\ removed' = removed \cup {t}
  BY DEF remove, Alive, OnCpu
<1>3. ready' \in Seq(Thread) /\ Queued' = Queued \ {t} /\ Distinct(ready')
  BY Retain DEF remove, TypeOK, PlacedOnce, Queued
<1>4. panicked' \in BOOLEAN /\ NoPanic'
  <2>1. OrderlyExit => Queued \subseteq Alive
    BY DEF QueuedCanRun
  <2>2. panicked' = ~(Queued \subseteq Alive)
    BY DEF remove
  <2> QED
    BY ONLY <2>1, <2>2, Zenon DEF NoPanic
<1>5. TypeOK'
  BY <1>2, <1>3, <1>4 DEF TypeOK
<1>6. PlacedOnce' /\ RunsOnOwnStack' /\ InitThreadsStay'
  BY <1>2, <1>3 DEF PlacedOnce, RunsOnOwnStack, InitThreadsStay
<1>7. NoThreadLost'
  BY <1>1, <1>2, <1>3 DEF NoThreadLost, Parked
<1>8. QueuedCanRun' /\ UncreatedIsNowhere'
  BY <1>2, <1>3 DEF QueuedCanRun, UncreatedIsNowhere
<1>9. RemovedStaysOut'
  BY <1>1, <1>2, <1>3 DEF RemovedStaysOut
<1> QED
  BY <1>4, <1>5, <1>6, <1>7, <1>8, <1>9

LEMMA ExitStep ==
    ASSUME IndInv, NEW t \in UserThread, exit_process(t)
    PROVE  IndInv'
<1> USE SchedulerAssumption DEF IndInv
<1>1. t \in Thread /\ t \notin InitThreads /\ InitThreads \subseteq Thread
  BY DEF Thread
<1>2. /\ OnCpu' = OnCpu /\ Queued' = Queued
      /\ UNCHANGED <<current, ready, state, removed, step, stack, panicked>>
      /\ OrderlyExit => t \notin Queued
  BY DEF exit_process, OnCpu, Queued, RemovedStaysOut
<1>3. /\ life' \in [Thread -> {"none", "creating", "owned", "dropped"}]
      /\ life'[t] = "dropped"
      /\ \A u \in Thread \ {t} : life'[u] = life[u]
  BY <1>1 DEF exit_process, TypeOK
<1>4. Alive' = Alive \ {t} /\ Queued \subseteq Thread /\ removed \subseteq Thread
  BY <1>1, <1>3 DEF Alive, TypeOK, Queued, Entries, Thread
<1>5. TypeOK' /\ PlacedOnce' /\ NoPanic' /\ RunsOnOwnStack'
  BY <1>2, <1>3 DEF TypeOK, PlacedOnce, NoPanic, RunsOnOwnStack
<1>6. NoThreadLost' /\ QueuedCanRun'
  BY <1>2, <1>4 DEF NoThreadLost, QueuedCanRun
<1>7. RemovedStaysOut' /\ UncreatedIsNowhere' /\ InitThreadsStay'
  BY <1>1, <1>2, <1>3, <1>4 DEF RemovedStaysOut, UncreatedIsNowhere, InitThreadsStay
<1> QED
  BY <1>5, <1>6, <1>7

LEMMA NextInvariant == IndInv /\ [Next]_vars => IndInv'
<1> SUFFICES ASSUME IndInv, [Next]_vars PROVE IndInv'
  OBVIOUS
<1>1. CASE UNCHANGED vars
  BY <1>1 DEF vars, IndInv, TypeOK, PlacedOnce, NoThreadLost, NoPanic, RunsOnOwnStack,
     QueuedCanRun, RemovedStaysOut, UncreatedIsNowhere, InitThreadsStay, Alive, Queued, OnCpu
<1>2. CASE Next
  BY <1>2, ScheduleStep, SwitchStep, BlockStep, AddStep, OwnStep, WakeStep,
     TerminateStep, RemoveStep, ExitStep DEF Next
<1> QED
  BY <1>1, <1>2

LEMMA Invariant == Spec => []IndInv
BY InitInvariant, NextInvariant, PTL DEF Spec
-----------------------------------------------------------------------------
\* The scheduler's fields keep their types on any number of CPUs.
THEOREM TypeCorrect == Spec => []TypeOK
<1>1. IndInv => TypeOK
  BY DEF IndInv
<1> QED
  BY <1>1, Invariant, PTL

\* However the timer interrupts of the CPUs interleave with creations,
\* wake-ups and exits, no thread is current on two CPUs, queued twice, or
\* queued while it runs.
THEOREM PlacedAtMostOnce == Spec => []PlacedOnce
<1>1. IndInv => PlacedOnce
  BY DEF IndInv
<1> QED
  BY <1>1, Invariant, PTL

\* schedule, add and remove never lose a thread that can run.
THEOREM NothingLost == Spec => []NoThreadLost
<1>1. IndInv => NoThreadLost
  BY DEF IndInv
<1> QED
  BY <1>1, Invariant, PTL

\* With orderly exits the unwraps of schedule and remove never fail.
THEOREM UnwrapsSucceed == Spec => []NoPanic
<1>1. IndInv => NoPanic
  BY DEF IndInv
<1> QED
  BY <1>1, Invariant, PTL

\* schedule always finds a thread for a CPU whose own thread may have ended:
\* there are as many initial threads as CPUs, and none of them is lost.
THEOREM SuccessorExists == Spec => []ParkedHasSuccessor
<1>1. IndInv => ParkedHasSuccessor
  BY Successor DEF ParkedHasSuccessor
<1> QED
  BY <1>1, Invariant, PTL

\* Two CPUs that have both left the timer handler are on different stacks.
THEOREM StacksDisjoint == Spec => []StackExclusive
<1>1. IndInv => StackExclusive
  BY DEF IndInv, StackExclusive, RunsOnOwnStack, PlacedOnce
<1> QED
  BY <1>1, Invariant, PTL
-----------------------------------------------------------------------------
(***************************************************************************)
(* The signals pending for a process, and the one its thread waits for.    *)
(***************************************************************************)
CONSTANTS SignalType, MaxPending

VARIABLES signal_bitmap, signals, waiting_for, arrived, signal_panic

Signal == INSTANCE SignalManager WITH panicked <- signal_panic

\* Signal type 0 is never pending and has never come.
SignalInv ==
    /\ signal_panic \in BOOLEAN
    /\ signals \in Seq(SignalType)
    /\ Signal!NoSignal \notin arrived
    /\ Signal!BitmapTells
    /\ Signal!NoMissedWake

LEMMA RegisterSignal ==
    ASSUME SignalInv, NEW t \in SignalType \cup {Signal!NoSignal}, Signal!register_signal(t)
    PROVE  SignalInv'
<1> USE DEF SignalInv
<1>1. /\ ~signal_panic /\ t # Signal!NoSignal /\ signal_panic' = signal_panic
      /\ signal_bitmap' = signal_bitmap \cup {t} /\ signals' = Append(signals, t)
      /\ waiting_for' = (IF t = waiting_for THEN Signal!NoSignal ELSE waiting_for)
      /\ arrived' = arrived \cup {t}
  BY DEF Signal!register_signal, Signal!Registers, Signal!Awaited
<1>2. t \in SignalType
  BY <1>1
<1>3. /\ signals' \in Seq(SignalType) /\ Len(signals) \in Nat
      /\ DOMAIN signals = 1 .. Len(signals) /\ DOMAIN signals' = 1 .. Len(signals) + 1
      /\ signals'[Len(signals) + 1] = t /\ \A i \in 1 .. Len(signals) : signals'[i] = signals[i]
  BY <1>1, <1>2
<1>4. {signals'[i] : i \in DOMAIN signals'} = {signals[i] : i \in DOMAIN signals} \cup {t}
  <2>1. 1 .. Len(signals) + 1 = (1 .. Len(signals)) \cup {Len(signals) + 1}
    BY <1>3
  <2> QED
    BY <1>3, <2>1
<1>5. Signal!BitmapTells'
  BY <1>1, <1>4 DEF Signal!BitmapTells, Signal!has_signal
<1>6. Signal!NoMissedWake'
  BY <1>1 DEF Signal!NoMissedWake
<1> QED
  BY <1>1, <1>3, <1>5, <1>6

LEMMA RegisterWait ==
    ASSUME SignalInv, NEW t \in SignalType \cup {Signal!NoSignal}, Signal!register_wait_for(t)
    PROVE  SignalInv'
  BY DEF SignalInv, Signal!register_wait_for, Signal!BitmapTells, Signal!NoMissedWake, Signal!has_signal

\* delete_signal removes the last signal of its type, or panics.
LEMMA DeleteSignal ==
    ASSUME SignalInv, NEW t \in SignalType \cup {Signal!NoSignal}, Signal!delete_signal(t)
    PROVE  SignalInv'
<1> USE DEF SignalInv
<1>1. signal_bitmap' = signal_bitmap \ {t} /\ UNCHANGED <<waiting_for, arrived>> /\ ~signal_panic
  BY DEF Signal!delete_signal, Signal!ClearBit
<1>2. Signal!NoMissedWake' /\ Signal!NoSignal \notin arrived'
  BY <1>1 DEF Signal!NoMissedWake
<1>3. PICK i \in DOMAIN signals :
         /\ signals[i] = t /\ \A j \in 1 .. i - 1 : signals[j] # t
         /\ \/ i = Len(signals) /\ signals' = SubSeq(signals, 1, i - 1) /\ UNCHANGED signal_panic
            \/ i < Len(signals) /\ signal_panic' = TRUE /\ UNCHANGED signals
  BY DEF Signal!delete_signal, Signal!get_signal
<1>4. CASE i = Len(signals) /\ signals' = SubSeq(signals, 1, i - 1) /\ UNCHANGED signal_panic
  <2>1. /\ signals' \in Seq(SignalType) /\ DOMAIN signals' = 1 .. i - 1 /\ DOMAIN signals = 1 .. i
        /\ i \in Nat /\ i >= 1
        /\ \A j \in 1 .. i - 1 : signals'[j] = signals[j]
    BY <1>3, <1>4
  <2>2. 1 .. i = (1 .. i - 1) \cup {i}
    BY <2>1
  <2>3. {signals'[j] : j \in DOMAIN signals'} = {signals[j] : j \in DOMAIN signals} \ {t}
    BY <1>3, <2>1, <2>2, Zenon
  <2>4. Signal!BitmapTells'
    BY <1>1, <1>4, <2>3, Zenon DEF Signal!BitmapTells, Signal!has_signal
  <2> QED
    BY <1>1, <1>2, <1>4, <2>1, <2>4
<1>5. CASE signal_panic' = TRUE /\ UNCHANGED signals
  BY <1>2, <1>5 DEF Signal!BitmapTells
<1> QED
  BY <1>3, <1>4, <1>5, Zenon

\* SignalInv holds from the start and through every call of the signal manager.
THEOREM SignalsSound == Signal!Spec => []SignalInv
<1>1. Signal!Init => SignalInv
  <2> SUFFICES ASSUME Signal!Init PROVE SignalInv
    OBVIOUS
  <2>1. /\ signal_bitmap = {} /\ signals = << >> /\ arrived = {} /\ signal_panic = FALSE
    BY DEF Signal!Init
  <2>2. signals \in Seq(SignalType) /\ {signals[i] : i \in DOMAIN signals} = {}
    BY <2>1
  <2> QED
    BY <2>1, <2>2, Zenon DEF SignalInv, Signal!BitmapTells, Signal!NoMissedWake, Signal!has_signal
<1>2. SignalInv /\ [Signal!Next]_Signal!vars => SignalInv'
  <2>1. ASSUME SignalInv, UNCHANGED Signal!vars PROVE SignalInv'
    BY <2>1 DEF SignalInv, Signal!vars, Signal!BitmapTells, Signal!NoMissedWake, Signal!has_signal
  <2> QED
    BY <2>1, RegisterSignal, RegisterWait, DeleteSignal DEF Signal!Next
<1> QED
  BY <1>1, <1>2, PTL DEF Signal!Spec

\* What has_signal promises, get_signal delivers, for any types of signals and
\* any number of them, as long as delete_signal has not panicked.
THEOREM SignalsFound == Signal!Spec => []Signal!BitmapTells
<1>1. SignalInv => Signal!BitmapTells
  BY DEF SignalInv
<1> QED
  BY <1>1, SignalsSound, PTL

\* No wakeup is used up without ending the wait: while a thread waits for a type
\* (register_wait_for), no signal of that type has been registered since.
THEOREM WaitsAnswered == Signal!Spec => []Signal!NoMissedWake
<1>1. SignalInv => Signal!NoMissedWake
  BY DEF SignalInv
<1> QED
  BY <1>1, SignalsSound, PTL

=============================================================================
