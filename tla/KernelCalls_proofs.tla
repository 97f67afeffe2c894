-------------------------- MODULE KernelCalls_proofs -------------------------
(***************************************************************************)
(* The calls that threads make of the kernel and its interrupt handlers    *)
(* keep to one discipline of its locks, each of them by itself: the order  *)
(* in which they take them, and that they give back what they took.        *)
(***************************************************************************)
EXTENDS KernelLocks, TLAPS

(***************************************************************************)
(* The discipline of the calls.  What a context has of the locks is its    *)
(* local state: the mutexes it holds, how often it has masked interrupts,  *)
(* and its guards on the process.  An operation is allowed in a local      *)
(* state if it keeps to the lock order and gives back only what is held.   *)
(***************************************************************************)
Handler == "handler"

Local == [held : SUBSET Mutex, depth : Nat, reads : Nat, writes : Nat]

Idle == [held |-> {}, depth |-> 0, reads |-> 0, writes |-> 0]

CallWord == {"read", "unread", "write", "unwrite", "force", "disable", "restore", "cli", "sti"}

HandlerWord == {"schedule", "return"}

Op ==
    {Lock(m) : m \in Mutex} \cup {Unlock(ms) : ms \in SUBSET Mutex}
    \cup {<<w>> : w \in CallWord \cup HandlerWord}

\* The order in which locks are taken, the process standing below the locks that
\* are taken under a guard on it: a reader of it waits only for a writer.
Rank(m) ==
    CASE m \in {"PROCESSES", "SYSCALL_HANDLER", "IRQ_HANDLER"} -> 1
      [] m = "KERNEL_PAGE_TABLE" -> 3
      [] m = "FRAME_ALLOCATOR" -> 4
      [] m \in {"SCHEDULER", "KERNEL_PROCESS"} -> 5
      [] m = "CONSOLE" -> 6
      [] m = "TTYS" -> 7

Level(op) == IF op[1] = "write" THEN 0 ELSE IF op[1] = "read" THEN 2 ELSE Rank(op[2])

\* The two places where the calls do not keep to it.
OutOfOrder(op, a) ==
    "FRAME_ALLOCATOR" \in a.held /\ (op[1] # "lock" \/ op[2] = "KERNEL_PAGE_TABLE")

InOrder(op, a) ==
    /\ \A m \in a.held : Rank(m) < Level(op)
    /\ a.reads > 0 => Level(op) > 0
    /\ a.writes > 0 => Level(op) > 2

Allowed(n, op, a) ==
    /\ op[1] \in {"lock", "unlock"} \cup (IF n = Handler THEN HandlerWord ELSE CallWord)
    /\ op[1] \in {"lock", "read", "write"} => OutOfOrder(op, a) \/ InOrder(op, a)
    /\ op[1] = "unlock" => op[2] \subseteq a.held
    /\ op[1] = "schedule" => "SCHEDULER" \in a.held
    /\ op[1] = "unread" => a.reads > 0
    /\ op[1] = "unwrite" => a.writes > 0
    /\ op[1] = "restore" => a.depth > 0
    /\ op[1] = "force" => n = "heap_clear"
    /\ op[1] = "sti" => n = "syscall_switch_to" \/ a.depth = 0

After(op, a) ==
    [held |-> IF op[1] = "lock" THEN a.held \cup {op[2]}
              ELSE IF op[1] = "unlock" THEN a.held \ op[2]
              ELSE IF op[1] = "schedule" THEN a.held \ {"SCHEDULER"}
              ELSE a.held,
     depth |-> IF op[1] = "disable" THEN a.depth + 1 ELSE IF op[1] = "restore" THEN a.depth - 1 ELSE a.depth,
     reads |-> IF op[1] = "read" THEN a.reads + 1 ELSE IF op[1] = "unread" THEN a.reads - 1 ELSE a.reads,
     writes |-> IF op[1] = "write" THEN a.writes + 1 ELSE IF op[1] = "unwrite" THEN a.writes - 1 ELSE a.writes]

\* The locks that call n holds only with interrupts masked.
Masked(n) ==
    {"CONSOLE", "TTYS", "SYSCALL_HANDLER"}
        \ ((IF n = "set_font" THEN {"CONSOLE"} ELSE {})
           \cup (IF n \in {"switch_to", "syscall_switch_to"} THEN {"TTYS", "SYSCALL_HANDLER"} ELSE {}))

Proper(n, a) == n # Handler /\ a.held \cap Masked(n) # {} => a.depth > 0 /\ n # "syscall_switch_to"

\* Sequence s of operations takes call n from local state a to b, allowed at
\* every step.
Outline(n, s, a, b) ==
    /\ s \in Seq(Op)
    /\ \E f \in [1 .. Len(s) + 1 -> Local] :
          /\ f[1] = a
          /\ f[Len(s) + 1] = b
          /\ \A i \in 1 .. Len(s) + 1 : Proper(n, f[i])
          /\ \A i \in 1 .. Len(s) : Allowed(n, s[i], f[i]) /\ f[i + 1] = After(s[i], f[i])
-----------------------------------------------------------------------------
\* Nothing to do leaves the local state as it is.
LEMMA OutlineEmpty ==
    ASSUME NEW n, NEW a \in Local, Proper(n, a)
    PROVE  Outline(n, << >>, a, a)
<1> DEFINE s == << >>
           f == [i \in 1 .. 1 |-> a]
<1>1. s \in Seq(Op) /\ Len(s) = 0
  OBVIOUS
<1>2. f \in [1 .. 1 -> Local] /\ f[1] = a
  OBVIOUS
<1> HIDE DEF s, f
<1>3. /\ f \in [1 .. Len(s) + 1 -> Local]
      /\ f[Len(s) + 1] = a
      /\ \A i \in 1 .. Len(s) + 1 : i = 1
      /\ \A i \in 1 .. Len(s) : FALSE
  BY <1>1, <1>2
<1>4. Outline(n, s, a, a)
  BY <1>1, <1>2, <1>3 DEF Outline
<1> QED
  BY <1>4 DEF s

\* One operation.
LEMMA OutlineOne ==
    ASSUME NEW n, NEW op \in Op, NEW a \in Local, NEW b \in Local,
           Proper(n, a), Proper(n, b), Allowed(n, op, a), b = After(op, a)
    PROVE  Outline(n, <<op>>, a, b)
<1> DEFINE s == <<op>>
           f == [i \in 1 .. 2 |-> IF i = 1 THEN a ELSE b]
<1>1. s \in Seq(Op) /\ Len(s) = 1 /\ s[1] = op
  OBVIOUS
<1>2. f \in [1 .. 2 -> Local] /\ f[1] = a /\ f[2] = b
  OBVIOUS
<1> HIDE DEF s, f
<1>3. /\ f \in [1 .. Len(s) + 1 -> Local]
      /\ f[1] = a
      /\ f[Len(s) + 1] = b
      /\ \A i \in 1 .. Len(s) + 1 : i = 1 \/ i = 2
      /\ \A i \in 1 .. Len(s) : i = 1
  BY <1>1, <1>2
<1>4. \A i \in 1 .. Len(s) + 1 : Proper(n, f[i])
  BY <1>2, <1>3
<1>5. \A i \in 1 .. Len(s) : Allowed(n, s[i], f[i]) /\ f[i + 1] = After(s[i], f[i])
  BY <1>1, <1>2, <1>3
<1>6. Outline(n, s, a, b)
  BY <1>1, <1>3, <1>4, <1>5 DEF Outline
<1> QED
  BY <1>6 DEF s

\* One sequence after another.
LEMMA OutlineJoin ==
    ASSUME NEW n, NEW s, NEW t, NEW a, NEW b, NEW c,
           Outline(n, s, a, b), Outline(n, t, b, c)
    PROVE  Outline(n, s \o t, a, c)
<1>1. s \in Seq(Op) /\ t \in Seq(Op)
  BY DEF Outline
<1>2. PICK f \in [1 .. Len(s) + 1 -> Local] :
        /\ f[1] = a
        /\ f[Len(s) + 1] = b
        /\ \A i \in 1 .. Len(s) + 1 : Proper(n, f[i])
        /\ \A i \in 1 .. Len(s) : Allowed(n, s[i], f[i]) /\ f[i + 1] = After(s[i], f[i])
  BY Zenon DEF Outline
<1>3. PICK g \in [1 .. Len(t) + 1 -> Local] :
        /\ g[1] = b
        /\ g[Len(t) + 1] = c
        /\ \A i \in 1 .. Len(t) + 1 : Proper(n, g[i])
        /\ \A i \in 1 .. Len(t) : Allowed(n, t[i], g[i]) /\ g[i + 1] = After(t[i], g[i])
  BY Zenon DEF Outline
<1> DEFINE u == s \o t
           h == [i \in 1 .. Len(u) + 1 |-> IF i <= Len(s) THEN f[i] ELSE g[i - Len(s)]]
<1>4. /\ u \in Seq(Op) /\ Len(u) = Len(s) + Len(t)
      /\ Len(s) \in Nat /\ Len(t) \in Nat
      /\ \A i \in 1 .. Len(s) : u[i] = s[i]
      /\ \A i \in 1 .. Len(u) : i > Len(s) => i - Len(s) \in 1 .. Len(t) /\ u[i] = t[i - Len(s)]
  BY <1>1
<1> HIDE DEF u
<1>5. /\ \A i \in 1 .. Len(s) + 1 : i \in 1 .. Len(u) + 1 /\ h[i] = f[i]
      /\ \A i \in 1 .. Len(u) + 1 : i > Len(s) => i - Len(s) \in 1 .. Len(t) + 1 /\ h[i] = g[i - Len(s)]
  BY <1>2, <1>3, <1>4, SMTT(30)
<1>6. h \in [1 .. Len(u) + 1 -> Local]
  BY <1>2, <1>3, <1>4
<1> HIDE DEF h
<1>7. h[1] = a /\ h[Len(u) + 1] = c
  <2>1. /\ 1 \in 1 .. Len(s) + 1
        /\ Len(u) + 1 \in 1 .. Len(u) + 1 /\ Len(u) + 1 > Len(s) /\ (Len(u) + 1) - Len(s) = Len(t) + 1
    BY <1>4
  <2> QED
    BY <1>2, <1>3, <1>5, <2>1
<1>8. \A i \in 1 .. Len(u) + 1 : Proper(n, h[i])
  <2>1. \A i \in 1 .. Len(u) + 1 : i \in 1 .. Len(s) + 1 \/ i > Len(s)
    BY <1>4
  <2> QED
    BY <1>2, <1>3, <1>5, <2>1
<1>9. ASSUME NEW i \in 1 .. Len(u)
      PROVE  Allowed(n, u[i], h[i]) /\ h[i + 1] = After(u[i], h[i])
  <2>1. CASE i <= Len(s)
    <3>1. i \in 1 .. Len(s) /\ i \in 1 .. Len(s) + 1 /\ i + 1 \in 1 .. Len(s) + 1
      BY <1>4, <2>1
    <3> QED
      BY <1>2, <1>4, <1>5, <3>1
  <2>2. CASE i > Len(s)
    <3>1. /\ i - Len(s) \in 1 .. Len(t)
          /\ i \in 1 .. Len(u) + 1 /\ i + 1 \in 1 .. Len(u) + 1
          /\ i + 1 > Len(s) /\ (i + 1) - Len(s) = (i - Len(s)) + 1
      BY <1>4, <2>2
    <3> QED
      BY <1>3, <1>4, <1>5, <2>2, <3>1, ZenonT(30)
  <2> QED
    BY <1>4, <2>1, <2>2
<1>10. Outline(n, u, a, c)
  BY <1>4, <1>6, <1>7, <1>8, <1>9, Zenon DEF Outline
<1> QED
  BY <1>10 DEF u

\* What may be said of a context that has something to do.
LEMMA OutlineStep ==
    ASSUME NEW n, NEW s, NEW a, NEW b, Outline(n, s, a, b)
    PROVE  /\ s \in Seq(Op) /\ a \in Local /\ Proper(n, a)
           /\ s = << >> => a = b
           /\ s # << >> => /\ Head(s) \in Op
                           /\ Allowed(n, Head(s), a)
                           /\ Outline(n, Tail(s), After(Head(s), a), b)
<1>1. s \in Seq(Op) /\ Len(s) \in Nat
  BY DEF Outline
<1>2. PICK f \in [1 .. Len(s) + 1 -> Local] :
        /\ f[1] = a
        /\ f[Len(s) + 1] = b
        /\ \A i \in 1 .. Len(s) + 1 : Proper(n, f[i])
        /\ \A i \in 1 .. Len(s) : Allowed(n, s[i], f[i]) /\ f[i + 1] = After(s[i], f[i])
  BY Zenon DEF Outline
<1>3. a \in Local /\ Proper(n, a)
  BY <1>1, <1>2
<1>4. ASSUME s = << >> PROVE a = b
  BY <1>2, <1>4
<1>5. ASSUME s # << >>
      PROVE  /\ Head(s) \in Op
             /\ Allowed(n, Head(s), a)
             /\ Outline(n, Tail(s), After(Head(s), a), b)
  <2> DEFINE t == Tail(s)
             g == [i \in 1 .. Len(t) + 1 |-> f[i + 1]]
  <2>1. /\ t \in Seq(Op) /\ Len(t) = Len(s) - 1 /\ Len(s) >= 1 /\ Len(t) \in Nat
        /\ Head(s) = s[1] /\ Head(s) \in Op
        /\ \A i \in 1 .. Len(t) : i + 1 \in 1 .. Len(s) /\ t[i] = s[i + 1]
    BY <1>1, <1>5
  <2> HIDE DEF t
  <2>2. \A i \in 1 .. Len(t) + 1 : i + 1 \in 1 .. Len(s) + 1 /\ g[i] = f[i + 1]
    BY <1>1, <2>1
  <2>3. g \in [1 .. Len(t) + 1 -> Local]
    BY <1>1, <1>2, <2>1
  <2> HIDE DEF g
  <2>4. Allowed(n, Head(s), a) /\ f[2] = After(Head(s), a)
    BY <1>1, <1>2, <2>1
  <2>5. g[1] = After(Head(s), a) /\ g[Len(t) + 1] = b
    BY <1>2, <2>1, <2>2, <2>4
  <2>6. \A i \in 1 .. Len(t) + 1 : Proper(n, g[i])
    BY <1>2, <2>2
  <2>7. \A i \in 1 .. Len(t) : Allowed(n, t[i], g[i]) /\ g[i + 1] = After(t[i], g[i])
    BY <1>2, <2>1, <2>2, SMTT(30)
  <2>8. Outline(n, t, After(Head(s), a), b)
    BY <2>1, <2>3, <2>5, <2>6, <2>7, Zenon DEF Outline
  <2> QED
    BY <2>1, <2>4, <2>8 DEF t
<1> QED
  BY <1>1, <1>3, <1>4, <1>5
-----------------------------------------------------------------------------
(* The pieces the calls are made of; what they do to the local state is    *)
(* undone when they are through.                                           *)

L(h, d, r, w) == [held |-> h, depth |-> d, reads |-> r, writes |-> w]

\* A lock is taken and a set of locks is given back.
LEMMA OutlineLock ==
    ASSUME NEW n, NEW h \in SUBSET Mutex, NEW d \in Nat, NEW r \in Nat, NEW w \in Nat, NEW m \in Mutex,
           Proper(n, L(h, d, r, w)), Proper(n, L(h \cup {m}, d, r, w)),
           OutOfOrder(Lock(m), L(h, d, r, w)) \/ InOrder(Lock(m), L(h, d, r, w))
    PROVE  Outline(n, <<Lock(m)>>, L(h, d, r, w), L(h \cup {m}, d, r, w))
<1>1. Lock(m) \in Op /\ Lock(m)[1] = "lock" /\ Lock(m)[2] = m
  BY DEF Op, Lock
<1>2. L(h, d, r, w) \in Local /\ L(h \cup {m}, d, r, w) \in Local
  BY DEF Local, L
<1>3. L(h \cup {m}, d, r, w) = After(Lock(m), L(h, d, r, w))
  BY <1>1 DEF After, L
<1>4. Allowed(n, Lock(m), L(h, d, r, w))
  BY <1>1 DEF Allowed
<1> QED
  BY <1>1, <1>2, <1>3, <1>4, OutlineOne

LEMMA OutlineUnlock ==
    ASSUME NEW n, NEW h \in SUBSET Mutex, NEW d \in Nat, NEW r \in Nat, NEW w \in Nat, NEW ms \in SUBSET h,
           Proper(n, L(h, d, r, w)), Proper(n, L(h \ ms, d, r, w))
    PROVE  Outline(n, <<Unlock(ms)>>, L(h, d, r, w), L(h \ ms, d, r, w))
<1>1. Unlock(ms) \in Op /\ Unlock(ms)[1] = "unlock" /\ Unlock(ms)[2] = ms
  BY DEF Op, Unlock
<1>2. L(h, d, r, w) \in Local /\ L(h \ ms, d, r, w) \in Local
  BY DEF Local, L
<1>3. L(h \ ms, d, r, w) = After(Unlock(ms), L(h, d, r, w))
  BY <1>1 DEF After, L
<1>4. Allowed(n, Unlock(ms), L(h, d, r, w))
  BY <1>1 DEF Allowed, L
<1> QED
  BY <1>1, <1>2, <1>3, <1>4, OutlineOne

\* An operation without an operand.
LEMMA OutlineWord ==
    ASSUME NEW n, NEW v \in CallWord \cup HandlerWord, NEW a \in Local, NEW b \in Local,
           Proper(n, a), Proper(n, b), Allowed(n, <<v>>, a), b = After(<<v>>, a)
    PROVE  Outline(n, <<<<v>>>>, a, b)
<1>1. <<v>> \in Op
  BY DEF Op
<1> QED
  BY <1>1, OutlineOne

\* Locks taken around a body, one, two or three of them.
LEMMA DuringOne ==
    ASSUME NEW n, NEW h \in SUBSET Mutex, NEW d \in Nat, NEW r \in Nat, NEW w \in Nat,
           NEW m \in Mutex \ h, NEW body,
           Proper(n, L(h, d, r, w)),
           OutOfOrder(Lock(m), L(h, d, r, w)) \/ InOrder(Lock(m), L(h, d, r, w)),
           Outline(n, body, L(h \cup {m}, d, r, w), L(h \cup {m}, d, r, w))
    PROVE  Outline(n, During(<<m>>, body), L(h, d, r, w), L(h, d, r, w))
<1> DEFINE ms == <<m>>
           locks == [i \in DOMAIN ms |-> Lock(ms[i])]
<1>1. locks = <<Lock(m)>>
  OBVIOUS
<1>2. {ms[i] : i \in DOMAIN ms} = {m}
  OBVIOUS
<1>3. During(<<m>>, body) = <<Lock(m)>> \o body \o <<Unlock({m})>>
  BY <1>1, <1>2, Zenon DEF During
<1>4. Proper(n, L(h \cup {m}, d, r, w))
  BY OutlineStep
<1>5. Outline(n, <<Lock(m)>>, L(h, d, r, w), L(h \cup {m}, d, r, w))
  BY <1>4, OutlineLock
<1>6. Outline(n, <<Lock(m)>> \o body, L(h, d, r, w), L(h \cup {m}, d, r, w))
  BY <1>5, OutlineJoin
<1>7. (h \cup {m}) \ {m} = h /\ h \cup {m} \in SUBSET Mutex /\ {m} \in SUBSET (h \cup {m})
  OBVIOUS
<1>8. Outline(n, <<Unlock({m})>>, L(h \cup {m}, d, r, w), L(h, d, r, w))
  <2>1. Outline(n, <<Unlock({m})>>, L(h \cup {m}, d, r, w), L((h \cup {m}) \ {m}, d, r, w))
    BY <1>4, <1>7, OutlineUnlock
  <2> QED
    BY <1>7, <2>1
<1> QED
  BY <1>3, <1>6, <1>8, OutlineJoin, Zenon

LEMMA DuringTwo ==
    ASSUME NEW n, NEW h \in SUBSET Mutex, NEW d \in Nat, NEW r \in Nat, NEW w \in Nat,
           NEW m1 \in Mutex \ h, NEW m2 \in Mutex \ h, m1 # m2, NEW body,
           Proper(n, L(h, d, r, w)), Proper(n, L(h \cup {m1}, d, r, w)),
           OutOfOrder(Lock(m1), L(h, d, r, w)) \/ InOrder(Lock(m1), L(h, d, r, w)),
           OutOfOrder(Lock(m2), L(h \cup {m1}, d, r, w)) \/ InOrder(Lock(m2), L(h \cup {m1}, d, r, w)),
           Outline(n, body, L(h \cup {m1, m2}, d, r, w), L(h \cup {m1, m2}, d, r, w))
    PROVE  Outline(n, During(<<m1, m2>>, body), L(h, d, r, w), L(h, d, r, w))
<1> DEFINE ms == <<m1, m2>>
           all == h \cup {m1, m2}
           locks == [i \in DOMAIN ms |-> Lock(ms[i])]
<1>1. locks = <<Lock(m1)>> \o <<Lock(m2)>>
  OBVIOUS
<1>2. {ms[i] : i \in DOMAIN ms} = {m1, m2}
  OBVIOUS
<1>3. During(<<m1, m2>>, body) = (<<Lock(m1)>> \o <<Lock(m2)>>) \o body \o <<Unlock({m1, m2})>>
  BY <1>1, <1>2, Zenon DEF During
<1>4. /\ h \cup {m1} \in SUBSET Mutex /\ (h \cup {m1}) \cup {m2} = all
      /\ all \in SUBSET Mutex /\ {m1, m2} \in SUBSET all /\ all \ {m1, m2} = h
  OBVIOUS
<1> HIDE DEF ms, locks, all
<1>5. Proper(n, L(all, d, r, w))
  BY OutlineStep DEF all
<1>6. Outline(n, <<Lock(m1)>>, L(h, d, r, w), L(h \cup {m1}, d, r, w))
  BY OutlineLock
<1>7. Outline(n, <<Lock(m2)>>, L(h \cup {m1}, d, r, w), L(all, d, r, w))
  <2>1. Outline(n, <<Lock(m2)>>, L(h \cup {m1}, d, r, w), L((h \cup {m1}) \cup {m2}, d, r, w))
    BY <1>4, <1>5, OutlineLock, Zenon
  <2> QED
    BY <1>4, <2>1
<1>8. Outline(n, <<Unlock({m1, m2})>>, L(all, d, r, w), L(h, d, r, w))
  <2>1. Outline(n, <<Unlock({m1, m2})>>, L(all, d, r, w), L(all \ {m1, m2}, d, r, w))
    BY <1>4, <1>5, OutlineUnlock
  <2> QED
    BY <1>4, <2>1
<1>9. Outline(n, <<Lock(m1)>> \o <<Lock(m2)>>, L(h, d, r, w), L(all, d, r, w))
  BY <1>6, <1>7, OutlineJoin
<1>10. Outline(n, body, L(all, d, r, w), L(all, d, r, w))
  BY DEF all
<1>11. Outline(n, (<<Lock(m1)>> \o <<Lock(m2)>>) \o body, L(h, d, r, w), L(all, d, r, w))
  BY <1>9, <1>10, OutlineJoin
<1> QED
  BY <1>3, <1>8, <1>11, OutlineJoin, Zenon

LEMMA DuringThree ==
    ASSUME NEW n, NEW h \in SUBSET Mutex, NEW d \in Nat, NEW r \in Nat, NEW w \in Nat,
           NEW m1 \in Mutex \ h, NEW m2 \in Mutex \ h, NEW m3 \in Mutex \ h,
           m1 # m2, m2 # m3, m1 # m3, NEW body,
           Proper(n, L(h, d, r, w)), Proper(n, L(h \cup {m1}, d, r, w)), Proper(n, L(h \cup {m1, m2}, d, r, w)),
           OutOfOrder(Lock(m1), L(h, d, r, w)) \/ InOrder(Lock(m1), L(h, d, r, w)),
           OutOfOrder(Lock(m2), L(h \cup {m1}, d, r, w)) \/ InOrder(Lock(m2), L(h \cup {m1}, d, r, w)),
           OutOfOrder(Lock(m3), L(h \cup {m1, m2}, d, r, w)) \/ InOrder(Lock(m3), L(h \cup {m1, m2}, d, r, w)),
           Outline(n, body, L(h \cup {m1, m2, m3}, d, r, w), L(h \cup {m1, m2, m3}, d, r, w))
    PROVE  Outline(n, During(<<m1, m2, m3>>, body), L(h, d, r, w), L(h, d, r, w))
<1> DEFINE ms == <<m1, m2, m3>>
           two == h \cup {m1, m2}
           all == h \cup {m1, m2, m3}
           locks == [i \in DOMAIN ms |-> Lock(ms[i])]
<1>1. locks = <<Lock(m1)>> \o <<Lock(m2)>> \o <<Lock(m3)>>
  OBVIOUS
<1>2. {ms[i] : i \in DOMAIN ms} = {m1, m2, m3}
  OBVIOUS
<1>3. During(<<m1, m2, m3>>, body)
        = (<<Lock(m1)>> \o <<Lock(m2)>> \o <<Lock(m3)>>) \o body \o <<Unlock({m1, m2, m3})>>
  BY <1>1, <1>2, Zenon DEF During
<1>4. /\ h \cup {m1} \in SUBSET Mutex /\ (h \cup {m1}) \cup {m2} = two
      /\ two \in SUBSET Mutex /\ two \cup {m3} = all
      /\ all \in SUBSET Mutex /\ {m1, m2, m3} \in SUBSET all /\ all \ {m1, m2, m3} = h
  OBVIOUS
<1>5. Proper(n, L(two, d, r, w)) /\ Proper(n, L(all, d, r, w))
  BY OutlineStep
<1>6. OutOfOrder(Lock(m3), L(two, d, r, w)) \/ InOrder(Lock(m3), L(two, d, r, w))
  OBVIOUS
<1>7. Outline(n, body, L(all, d, r, w), L(all, d, r, w))
  OBVIOUS
<1> HIDE DEF ms, locks, two, all
<1>8. Outline(n, <<Lock(m1)>>, L(h, d, r, w), L(h \cup {m1}, d, r, w))
  BY OutlineLock
<1>9. Outline(n, <<Lock(m2)>>, L(h \cup {m1}, d, r, w), L(two, d, r, w))
  <2>1. Outline(n, <<Lock(m2)>>, L(h \cup {m1}, d, r, w), L((h \cup {m1}) \cup {m2}, d, r, w))
    BY <1>4, <1>5, OutlineLock, Zenon
  <2> QED
    BY <1>4, <2>1
<1>10. Outline(n, <<Lock(m3)>>, L(two, d, r, w), L(all, d, r, w))
  <2>1. Outline(n, <<Lock(m3)>>, L(two, d, r, w), L(two \cup {m3}, d, r, w))
    BY <1>4, <1>5, <1>6, OutlineLock
  <2> QED
    BY <1>4, <2>1
<1>11. Outline(n, <<Unlock({m1, m2, m3})>>, L(all, d, r, w), L(h, d, r, w))
  <2>1. Outline(n, <<Unlock({m1, m2, m3})>>, L(all, d, r, w), L(all \ {m1, m2, m3}, d, r, w))
    BY <1>4, <1>5, OutlineUnlock
  <2> QED
    BY <1>4, <2>1
<1>12. Outline(n, <<Lock(m1)>> \o <<Lock(m2)>>, L(h, d, r, w), L(two, d, r, w))
  BY <1>8, <1>9, OutlineJoin
<1>13. Outline(n, <<Lock(m1)>> \o <<Lock(m2)>> \o <<Lock(m3)>>, L(h, d, r, w), L(all, d, r, w))
  BY <1>10, <1>12, OutlineJoin
<1>14. Outline(n, (<<Lock(m1)>> \o <<Lock(m2)>> \o <<Lock(m3)>>) \o body, L(h, d, r, w), L(all, d, r, w))
  BY <1>7, <1>13, OutlineJoin
<1> QED
  BY <1>3, <1>11, <1>14, OutlineJoin, Zenon

-----------------------------------------------------------------------------
(* Every call keeps to the discipline from beginning to end.               *)

LEMMA IdleIs == Idle = L({}, 0, 0, 0) /\ Idle \in Local /\ \A n : Proper(n, Idle)
  BY DEF Idle, L, Local, Proper

\* Names that calls have; none is the one of the handlers.
LEMMA CallNames ==
    /\ Call = {"new_user_process", "new_kernel_thread", "new_user_thread", "heap_allocate",
               "heap_allocate_writing", "heap_clear", "exit_process", "switch_to", "map_bar", "alloc_for_dma",
               "set_font", "register_irq_handler", "syscall_print", "syscall_switch_to"}
    /\ Handler \notin Call
<1>1. Call = {"new_user_process", "new_kernel_thread", "new_user_thread", "heap_allocate",
               "heap_allocate_writing", "heap_clear", "exit_process", "switch_to", "map_bar", "alloc_for_dma",
               "set_font", "register_irq_handler", "syscall_print", "syscall_switch_to"}
  BY DEF Call, Program
<1> QED
  BY <1>1 DEF Handler

LEMMA PairJoined ==
    ASSUME NEW x, NEW y
    PROVE  <<x>> \o <<y>> = <<x, y>>
<1> DEFINE s == <<x>> \o <<y>>
           t == <<x, y>>
<1>1. s \in Seq({x, y}) /\ Len(s) = 2 /\ s[1] = x /\ s[2] = y
  OBVIOUS
<1>2. t \in Seq({x, y}) /\ Len(t) = 2 /\ t[1] = x /\ t[2] = y
  OBVIOUS
<1> HIDE DEF s, t
<1>3. s = t
  BY <1>1, <1>2
<1> QED
  BY <1>3 DEF s, t

\* Every call of Program, taken by itself, keeps to the discipline: it takes locks
\* in the order of Level, except the kernel's page table or the process while it has
\* the frames (create_page_table_from_kernel and the user heap); it holds the
\* console, the consoles' list and the handler of system calls only with interrupts
\* masked (Masked: except in set_font and switch_to); it gives back only what it
\* has, and it ends with nothing.
THEOREM CallsKept == \A n \in Call : Outline(n, Program[n], Idle, Idle)
\* A body with interrupts masked, and under a guard on the process.
<1>OutlineWithout. ASSUME NEW n, n # Handler, NEW h \in SUBSET Mutex, NEW d \in Nat, NEW r \in Nat, NEW w \in Nat, NEW body,
                          Proper(n, L(h, d, r, w)),
                          Outline(n, body, L(h, d + 1, r, w), L(h, d + 1, r, w))
                   PROVE  Outline(n, without_interrupts(body), L(h, d, r, w), L(h, d, r, w))
  <2> USE <1>OutlineWithout
  <2>1. L(h, d, r, w) \in Local /\ L(h, d + 1, r, w) \in Local
    BY DEF Local, L
  <2>2. Proper(n, L(h, d + 1, r, w))
    BY OutlineStep
  <2>3. Outline(n, <<<<"disable">>>>, L(h, d, r, w), L(h, d + 1, r, w))
    <3>1. Allowed(n, <<"disable">>, L(h, d, r, w)) /\ L(h, d + 1, r, w) = After(<<"disable">>, L(h, d, r, w))
      BY DEF Allowed, After, L, CallWord
    <3> QED
      BY <2>1, <2>2, <3>1, OutlineWord DEF CallWord
  <2>4. Outline(n, <<<<"restore">>>>, L(h, d + 1, r, w), L(h, d, r, w))
    <3>1. Allowed(n, <<"restore">>, L(h, d + 1, r, w)) /\ L(h, d, r, w) = After(<<"restore">>, L(h, d + 1, r, w))
      BY DEF Allowed, After, L, CallWord
    <3> QED
      BY <2>1, <2>2, <3>1, OutlineWord DEF CallWord
  <2>5. Outline(n, <<<<"disable">>>> \o body, L(h, d, r, w), L(h, d + 1, r, w))
    BY <2>3, OutlineJoin
  <2> QED
    BY <2>4, <2>5, OutlineJoin DEF without_interrupts
<1>OutlineReading. ASSUME NEW n, n # Handler, NEW h \in SUBSET Mutex, NEW d \in Nat, NEW r \in Nat, NEW w \in Nat, NEW body,
                          Proper(n, L(h, d, r, w)),
                          OutOfOrder(<<"read">>, L(h, d, r, w)) \/ InOrder(<<"read">>, L(h, d, r, w)),
                          Outline(n, body, L(h, d, r + 1, w), L(h, d, r + 1, w))
                   PROVE  Outline(n, <<<<"read">>>> \o body \o <<<<"unread">>>>, L(h, d, r, w), L(h, d, r, w))
  <2> USE <1>OutlineReading
  <2>1. L(h, d, r, w) \in Local /\ L(h, d, r + 1, w) \in Local
    BY DEF Local, L
  <2>2. Proper(n, L(h, d, r + 1, w))
    BY OutlineStep
  <2>3. Outline(n, <<<<"read">>>>, L(h, d, r, w), L(h, d, r + 1, w))
    <3>1. Allowed(n, <<"read">>, L(h, d, r, w)) /\ L(h, d, r + 1, w) = After(<<"read">>, L(h, d, r, w))
      BY DEF Allowed, After, L, CallWord
    <3> QED
      BY <2>1, <2>2, <3>1, OutlineWord DEF CallWord
  <2>4. Outline(n, <<<<"unread">>>>, L(h, d, r + 1, w), L(h, d, r, w))
    <3>1. Allowed(n, <<"unread">>, L(h, d, r + 1, w)) /\ L(h, d, r, w) = After(<<"unread">>, L(h, d, r + 1, w))
      BY DEF Allowed, After, L, CallWord
    <3> QED
      BY <2>1, <2>2, <3>1, OutlineWord DEF CallWord
  <2>5. Outline(n, <<<<"read">>>> \o body, L(h, d, r, w), L(h, d, r + 1, w))
    BY <2>3, OutlineJoin
  <2> QED
    BY <2>4, <2>5, OutlineJoin
<1>WriteGuard. ASSUME NEW n, n # Handler, NEW h \in SUBSET Mutex, NEW d \in Nat, NEW r \in Nat, NEW w \in Nat,
                      Proper(n, L(h, d, r, w)), Proper(n, L(h, d, r, w + 1)),
                      OutOfOrder(<<"write">>, L(h, d, r, w)) \/ InOrder(<<"write">>, L(h, d, r, w))
               PROVE  /\ Outline(n, <<<<"write">>>>, L(h, d, r, w), L(h, d, r, w + 1))
                      /\ Outline(n, <<<<"unwrite">>>>, L(h, d, r, w + 1), L(h, d, r, w))
  <2> USE <1>WriteGuard
  <2>1. L(h, d, r, w) \in Local /\ L(h, d, r, w + 1) \in Local
    BY DEF Local, L
  <2>2. Outline(n, <<<<"write">>>>, L(h, d, r, w), L(h, d, r, w + 1))
    <3>1. Allowed(n, <<"write">>, L(h, d, r, w)) /\ L(h, d, r, w + 1) = After(<<"write">>, L(h, d, r, w))
      BY DEF Allowed, After, L, CallWord
    <3> QED
      BY <2>1, <3>1, OutlineWord DEF CallWord
  <2>3. Outline(n, <<<<"unwrite">>>>, L(h, d, r, w + 1), L(h, d, r, w))
    <3>1. Allowed(n, <<"unwrite">>, L(h, d, r, w + 1)) /\ L(h, d, r, w) = After(<<"unwrite">>, L(h, d, r, w + 1))
      BY DEF Allowed, After, L, CallWord
    <3> QED
      BY <2>1, <3>1, OutlineWord DEF CallWord
  <2> QED
    BY <2>2, <2>3
<1>OutlineWriting. ASSUME NEW n, n # Handler, NEW h \in SUBSET Mutex, NEW d \in Nat, NEW r \in Nat, NEW w \in Nat, NEW body,
                          Proper(n, L(h, d, r, w)),
                          OutOfOrder(<<"write">>, L(h, d, r, w)) \/ InOrder(<<"write">>, L(h, d, r, w)),
                          Outline(n, body, L(h, d, r, w + 1), L(h, d, r, w + 1))
                   PROVE  Outline(n, <<<<"write">>>> \o body \o <<<<"unwrite">>>>, L(h, d, r, w), L(h, d, r, w))
  <2> USE <1>OutlineWriting
  <2>1. Proper(n, L(h, d, r, w + 1))
    BY OutlineStep
  <2>2. Outline(n, <<<<"write">>>> \o body, L(h, d, r, w), L(h, d, r, w + 1))
    BY <2>1, <1>WriteGuard, OutlineJoin
  <2> QED
    BY <2>1, <2>2, <1>WriteGuard, OutlineJoin
\* A lock that is taken alone.
<1>TakenAlone. ASSUME NEW n, NEW m \in Mutex \ Masked(n), NEW d \in Nat, NEW r \in Nat, NEW w \in Nat,
                      w > 0 => Rank(m) > 2
               PROVE  Outline(n, During(<<m>>, << >>), L({}, d, r, w), L({}, d, r, w))
  <2> USE <1>TakenAlone
  <2>1. Proper(n, L({}, d, r, w)) /\ Proper(n, L({} \cup {m}, d, r, w))
    BY DEF Proper, L
  <2>2. L({} \cup {m}, d, r, w) \in Local
    BY DEF L, Local
  <2>3. Rank(m) > 0
    BY DEF Rank, Mutex
  <2>4. InOrder(Lock(m), L({}, d, r, w))
    BY <2>3 DEF InOrder, Level, Lock, L
  <2>5. Outline(n, << >>, L({} \cup {m}, d, r, w), L({} \cup {m}, d, r, w))
    BY <2>1, <2>2, OutlineEmpty
  <2> QED
    BY <2>1, <2>4, <2>5, DuringOne
\* print, by a call that holds no lock of the console.
<1>PrintKept. ASSUME NEW n, n # Handler, n # "syscall_switch_to", NEW h \in SUBSET Mutex, \A m \in h : Rank(m) < 6,
                     NEW d \in Nat, NEW r \in Nat, NEW w \in Nat, Proper(n, L(h, d, r, w))
              PROVE  Outline(n, print, L(h, d, r, w), L(h, d, r, w))
  <2> USE <1>PrintKept
  <2> DEFINE c == "CONSOLE"
             t == "TTYS"
  <2>1. Rank(c) = 6 /\ Rank(t) = 7 /\ c \in Mutex /\ t \in Mutex /\ c # t
    BY DEF Rank, Mutex
  <2>2. c \in Mutex \ h /\ t \in Mutex \ h
    BY <2>1
  <2>3. \A g : Proper(n, L(g, d + 1, r, w))
    BY DEF Proper, L
  <2>4. InOrder(Lock(c), L(h, d + 1, r, w))
    BY <2>1 DEF InOrder, Level, Lock, L
  <2>5. InOrder(Lock(t), L(h \cup {c}, d + 1, r, w))
    <3>1. \A m \in h \cup {c} : Rank(m) < 7
      BY <2>1 DEF Rank, Mutex
    <3> QED
      BY <2>1, <3>1 DEF InOrder, Level, Lock, L
  <2>6. L(h \cup {c, t}, d + 1, r, w) \in Local
    BY <2>1 DEF L, Local
  <2>7. Outline(n, << >>, L(h \cup {c, t}, d + 1, r, w), L(h \cup {c, t}, d + 1, r, w))
    BY <2>3, <2>6, OutlineEmpty
  <2>8. Outline(n, During(<<c, t>>, << >>), L(h, d + 1, r, w), L(h, d + 1, r, w))
    <3>1. d + 1 \in Nat
      OBVIOUS
    <3> HIDE DEF c, t
    <3> QED
      BY <2>1, <2>2, <2>3, <2>4, <2>5, <2>7, <3>1, DuringTwo, Zenon
  <2> QED
    BY <2>8, <1>OutlineWithout DEF print
<1>CopyTableKept. ASSUME NEW n, n # Handler
                  PROVE  Outline(n, create_page_table_from_kernel, Idle, Idle)
  <2> USE <1>CopyTableKept
  <2> DEFINE f == "FRAME_ALLOCATOR"
             k == "KERNEL_PAGE_TABLE"
  <2>1. f \in Mutex \ {} /\ k \in Mutex \ {} /\ f # k /\ {} \in SUBSET Mutex
    BY DEF Mutex
  <2>2. /\ Proper(n, L({}, 0, 0, 0)) /\ Proper(n, L({}, 1, 0, 0))
        /\ Proper(n, L({} \cup {f}, 1, 0, 0)) /\ Proper(n, L({} \cup {f, k}, 1, 0, 0))
    BY DEF Proper, L, Masked
  <2>3. InOrder(Lock(f), L({}, 1, 0, 0))
    BY DEF InOrder, Level, Lock, L, Rank
  <2>4. OutOfOrder(Lock(k), L({} \cup {f}, 1, 0, 0))
    BY DEF OutOfOrder, Lock, L
  <2>5. L({} \cup {f, k}, 1, 0, 0) \in Local
    BY DEF L, Local, Mutex
  <2>6. Outline(n, << >>, L({} \cup {f, k}, 1, 0, 0), L({} \cup {f, k}, 1, 0, 0))
    BY <2>2, <2>5, OutlineEmpty
  <2>7. Outline(n, During(<<f, k>>, << >>), L({}, 0 + 1, 0, 0), L({}, 0 + 1, 0, 0))
    <3>1. Outline(n, During(<<f, k>>, << >>), L({}, 1, 0, 0), L({}, 1, 0, 0))
      BY <2>1, <2>2, <2>3, <2>4, <2>6, DuringTwo, Zenon
    <3> QED
      BY <3>1
  <2>8. Outline(n, create_page_table_from_kernel, L({}, 0, 0, 0), L({}, 0, 0, 0))
    BY <2>1, <2>2, <2>7, <1>OutlineWithout DEF create_page_table_from_kernel
  <2> QED
    BY <2>8, IdleIs
<1>NewUserProcessKept. Outline("new_user_process", new_user_process, Idle, Idle)
  <2> DEFINE n == "new_user_process"
             frames == During(<<"FRAME_ALLOCATOR">>, << >>)
  <2>1. n # Handler
    BY DEF Handler
  <2>2. \A m \in {"FRAME_ALLOCATOR", "SCHEDULER", "PROCESSES"} : m \in Mutex \ Masked(n)
    BY DEF Mutex, Masked
  <2> HIDE DEF n
  <2>3. Outline(n, create_page_table_from_kernel, Idle, Idle)
    BY <2>1, <1>CopyTableKept
  <2>4. \A m \in {"FRAME_ALLOCATOR", "SCHEDULER", "PROCESSES"} : \A d \in Nat :
          Outline(n, During(<<m>>, << >>), L({}, d, 0, 0), L({}, d, 0, 0))
    BY <2>2, <1>TakenAlone
  <2>5. /\ Outline(n, frames, Idle, Idle)
        /\ Outline(n, During(<<"SCHEDULER">>, << >>), Idle, Idle)
        /\ Outline(n, During(<<"PROCESSES">>, << >>), Idle, Idle)
    BY <2>4, IdleIs
  <2>6. Outline(n, without_interrupts(frames), Idle, Idle)
    <3>1. Outline(n, frames, L({}, 0 + 1, 0, 0), L({}, 0 + 1, 0, 0))
      BY <2>4
    <3>2. Proper(n, L({}, 0, 0, 0)) /\ {} \in SUBSET Mutex
      BY IdleIs
    <3> HIDE DEF frames
    <3>3. Outline(n, without_interrupts(frames), L({}, 0, 0, 0), L({}, 0, 0, 0))
      BY <2>1, <3>1, <3>2, <1>OutlineWithout
    <3> QED
      BY <3>3, IdleIs
  <2> HIDE DEF frames
  <2>7. Outline(n, create_page_table_from_kernel \o frames, Idle, Idle)
    BY <2>3, <2>5, OutlineJoin
  <2>8. Outline(n, create_page_table_from_kernel \o frames \o without_interrupts(frames), Idle, Idle)
    BY <2>6, <2>7, OutlineJoin
  <2>9. Outline(n, create_page_table_from_kernel \o frames \o without_interrupts(frames)
                     \o During(<<"SCHEDULER">>, << >>), Idle, Idle)
    BY <2>5, <2>8, OutlineJoin
  <2>10. Outline(n, create_page_table_from_kernel \o frames \o without_interrupts(frames)
                     \o During(<<"SCHEDULER">>, << >>) \o During(<<"PROCESSES">>, << >>), Idle, Idle)
    BY <2>5, <2>9, OutlineJoin
  <2> QED
    BY <2>10 DEF new_user_process, frames, n
<1>NewKernelThreadKept. Outline("new_kernel_thread", new_kernel_thread, Idle, Idle)
  <2> DEFINE n == "new_kernel_thread"
  <2>1. \A m \in {"KERNEL_PAGE_TABLE", "SCHEDULER", "KERNEL_PROCESS"} : m \in Mutex \ Masked(n)
    BY DEF Mutex, Masked
  <2> HIDE DEF n
  <2>2. \A m \in {"KERNEL_PAGE_TABLE", "SCHEDULER", "KERNEL_PROCESS"} :
          Outline(n, During(<<m>>, << >>), Idle, Idle)
    BY <2>1, <1>TakenAlone, IdleIs
  <2>3. Outline(n, During(<<"KERNEL_PAGE_TABLE">>, << >>) \o During(<<"SCHEDULER">>, << >>), Idle, Idle)
    BY <2>2, OutlineJoin
  <2>4. Outline(n, During(<<"KERNEL_PAGE_TABLE">>, << >>) \o During(<<"SCHEDULER">>, << >>)
                     \o During(<<"KERNEL_PROCESS">>, << >>), Idle, Idle)
    BY <2>2, <2>3, OutlineJoin
  <2> QED
    BY <2>4 DEF new_kernel_thread, n
<1>NewUserThreadKept. Outline("new_user_thread", new_user_thread, Idle, Idle)
  <2> DEFINE n == "new_user_thread"
  <2>1. n # Handler
    BY DEF Handler
  <2>2. \A m \in {"FRAME_ALLOCATOR", "SCHEDULER"} : m \in Mutex \ Masked(n) /\ Rank(m) > 2
    BY DEF Mutex, Masked, Rank
  <2> HIDE DEF n
  <2>3. \A m \in {"FRAME_ALLOCATOR", "SCHEDULER"} :
          Outline(n, During(<<m>>, << >>), L({}, 0, 0, 0 + 1), L({}, 0, 0, 0 + 1))
    BY <2>2, <1>TakenAlone
  <2>4. /\ Outline(n, <<<<"write">>>>, L({}, 0, 0, 0), L({}, 0, 0, 0 + 1))
        /\ Outline(n, <<<<"unwrite">>>>, L({}, 0, 0, 0 + 1), L({}, 0, 0, 0))
    <3>1. Proper(n, L({}, 0, 0, 0)) /\ Proper(n, L({}, 0, 0, 0 + 1)) /\ {} \in SUBSET Mutex
      BY DEF Proper, L
    <3>2. InOrder(<<"write">>, L({}, 0, 0, 0))
      BY DEF InOrder, Level, L
    <3> QED
      BY <2>1, <3>1, <3>2, <1>WriteGuard, Zenon
  <2>5. Outline(n, <<<<"write">>>> \o During(<<"FRAME_ALLOCATOR">>, << >>), L({}, 0, 0, 0), L({}, 0, 0, 0 + 1))
    BY <2>3, <2>4, OutlineJoin
  <2>6. Outline(n, <<<<"write">>>> \o During(<<"FRAME_ALLOCATOR">>, << >>) \o During(<<"SCHEDULER">>, << >>),
                L({}, 0, 0, 0), L({}, 0, 0, 0 + 1))
    BY <2>3, <2>5, OutlineJoin
  <2>7. Outline(n, <<<<"write">>>> \o During(<<"FRAME_ALLOCATOR">>, << >>) \o During(<<"SCHEDULER">>, << >>)
                     \o <<<<"unwrite">>>>, L({}, 0, 0, 0), L({}, 0, 0, 0))
    BY <2>4, <2>6, OutlineJoin
  <2> QED
    BY <2>7, IdleIs DEF new_user_thread, n
\* The process is read and let go at once, under lock m.
<1>ReadUnder. ASSUME NEW n, n # Handler, NEW m \in Mutex \ Masked(n), NEW r \in Nat, NEW w \in Nat,
                     \/ m = "FRAME_ALLOCATOR"
                     \/ Rank(m) < 2 /\ w = 0,
                     w > 0 => Rank(m) > 2
              PROVE  Outline(n, During(<<m>>, <<<<"read">>, <<"unread">>>>), L({}, 0, r, w), L({}, 0, r, w))
  <2> USE <1>ReadUnder
  <2> DEFINE h == {} \cup {m}
  <2>1. Proper(n, L({}, 0, r, w)) /\ Proper(n, L(h, 0, r, w)) /\ Proper(n, L(h, 0, r + 1, w))
    BY DEF Proper, L
  <2>2. h \in SUBSET Mutex /\ L(h, 0, r + 1, w) \in Local
    BY DEF L, Local
  <2>3. OutOfOrder(<<"read">>, L(h, 0, r, w)) \/ InOrder(<<"read">>, L(h, 0, r, w))
    BY DEF OutOfOrder, InOrder, Level, L
  <2>4. Outline(n, << >>, L(h, 0, r + 1, w), L(h, 0, r + 1, w))
    BY <2>1, <2>2, OutlineEmpty
  <2>5. Outline(n, <<<<"read">>>> \o << >> \o <<<<"unread">>>>, L(h, 0, r, w), L(h, 0, r, w))
    <3> HIDE DEF h
    <3> QED
      BY <2>1, <2>2, <2>3, <2>4, <1>OutlineReading, Zenon
  <2>6. <<<<"read">>>> \o << >> \o <<<<"unread">>>> = <<<<"read">>, <<"unread">>>>
    <3>1. <<<<"read">>>> \o << >> = <<<<"read">>>>
      OBVIOUS
    <3> QED
      BY <3>1, PairJoined
  <2>7. InOrder(Lock(m), L({}, 0, r, w))
    BY DEF InOrder, Level, Lock, L, Rank, Mutex
  <2> QED
    BY <2>1, <2>5, <2>6, <2>7, DuringOne, Zenon
<1>HeapAllocateKept. Outline("heap_allocate", heap_allocate, Idle, Idle)
  <2> DEFINE n == "heap_allocate"
             body == During(<<"FRAME_ALLOCATOR">>, <<<<"read">>, <<"unread">>>>)
  <2>1. n # Handler /\ "FRAME_ALLOCATOR" \in Mutex \ Masked(n)
    BY DEF Handler, Mutex, Masked
  <2> HIDE DEF n
  <2>2. Outline(n, body, L({}, 0, 0 + 1, 0), L({}, 0, 0 + 1, 0))
    BY <2>1, <1>ReadUnder
  <2> HIDE DEF body
  <2>3. Proper(n, L({}, 0, 0, 0)) /\ {} \in SUBSET Mutex
    BY IdleIs
  <2>4. InOrder(<<"read">>, L({}, 0, 0, 0))
    BY DEF InOrder, Level, L
  <2>5. Outline(n, <<<<"read">>>> \o body \o <<<<"unread">>>>, L({}, 0, 0, 0), L({}, 0, 0, 0))
    BY <2>1, <2>2, <2>3, <2>4, <1>OutlineReading
  <2> QED
    BY <2>5, IdleIs DEF heap_allocate, n, body
<1>HeapAllocateWritingKept. Outline("heap_allocate_writing", heap_allocate_writing, Idle, Idle)
  <2> DEFINE n == "heap_allocate_writing"
             body == During(<<"FRAME_ALLOCATOR">>, <<<<"read">>, <<"unread">>>>)
  <2>1. n # Handler /\ "FRAME_ALLOCATOR" \in Mutex \ Masked(n) /\ Rank("FRAME_ALLOCATOR") > 2
    BY DEF Handler, Mutex, Masked, Rank
  <2> HIDE DEF n
  <2>2. Outline(n, body, L({}, 0, 0, 0 + 1), L({}, 0, 0, 0 + 1))
    BY <2>1, <1>ReadUnder
  <2> HIDE DEF body
  <2>3. Proper(n, L({}, 0, 0, 0)) /\ {} \in SUBSET Mutex
    BY IdleIs
  <2>4. InOrder(<<"write">>, L({}, 0, 0, 0))
    BY DEF InOrder, Level, L
  <2>5. Outline(n, <<<<"write">>>> \o body \o <<<<"unwrite">>>>, L({}, 0, 0, 0), L({}, 0, 0, 0))
    BY <2>1, <2>2, <2>3, <2>4, <1>OutlineWriting
  <2> QED
    BY <2>5, IdleIs DEF heap_allocate_writing, n, body
<1>HeapClearKept. Outline("heap_clear", heap_clear, Idle, Idle)
  <2> DEFINE n == "heap_clear"
             m == "FRAME_ALLOCATOR"
             h == {} \cup {m}
             inner == <<<<"force">>, <<"write">>, <<"unwrite">>>>
             body == During(<<m>>, inner)
  <2>1. n # Handler /\ m \in Mutex \ {} /\ {} \in SUBSET Mutex /\ h \in SUBSET Mutex
    BY DEF Handler, Mutex
  <2>2. /\ Proper(n, L({}, 0, 0, 0)) /\ Proper(n, L({}, 0, 0, 1))
        /\ Proper(n, L(h, 0, 0, 1)) /\ Proper(n, L(h, 0, 0, 1 + 1))
    BY DEF Proper, L, Masked
  <2>3. L(h, 0, 0, 1) \in Local /\ L(h, 0, 0, 1 + 1) \in Local
    BY DEF L, Local, Mutex
  <2>4. InOrder(Lock(m), L({}, 0, 0, 1)) /\ InOrder(<<"write">>, L({}, 0, 0, 0)) /\ OutOfOrder(<<"write">>, L(h, 0, 0, 1))
    BY DEF InOrder, OutOfOrder, Level, Lock, L, Rank
  <2>5. Outline(n, <<<<"force">>>>, L(h, 0, 0, 1), L(h, 0, 0, 1))
    <3>1. Allowed(n, <<"force">>, L(h, 0, 0, 1)) /\ L(h, 0, 0, 1) = After(<<"force">>, L(h, 0, 0, 1))
      BY DEF Allowed, After, L, CallWord, Handler
    <3> QED
      BY <2>2, <2>3, <3>1, OutlineWord DEF CallWord
  <2>6. inner = <<<<"force">>>> \o (<<<<"write">>>> \o << >> \o <<<<"unwrite">>>>)
    OBVIOUS
  <2> HIDE DEF n, m, h, inner
  <2>7. Outline(n, << >>, L(h, 0, 0, 1 + 1), L(h, 0, 0, 1 + 1))
    BY <2>2, <2>3, OutlineEmpty
  <2>8. Outline(n, <<<<"write">>>> \o << >> \o <<<<"unwrite">>>>, L(h, 0, 0, 1), L(h, 0, 0, 1))
    BY <2>1, <2>2, <2>4, <2>7, <1>OutlineWriting, Zenon
  <2>9. Outline(n, inner, L(h, 0, 0, 1), L(h, 0, 0, 1))
    BY <2>5, <2>6, <2>8, OutlineJoin
  <2>10. Outline(n, body, L({}, 0, 0, 0 + 1), L({}, 0, 0, 0 + 1))
    <3>1. Outline(n, body, L({}, 0, 0, 1), L({}, 0, 0, 1))
      BY <2>1, <2>2, <2>4, <2>9, DuringOne DEF h
    <3> QED
      BY <3>1
  <2> HIDE DEF body
  <2>11. Outline(n, <<<<"write">>>> \o body \o <<<<"unwrite">>>>, L({}, 0, 0, 0), L({}, 0, 0, 0))
    BY <2>1, <2>2, <2>4, <2>10, <1>OutlineWriting
  <2> QED
    BY <2>11, IdleIs DEF heap_clear, n, body, inner, m
<1>ExitProcessKept. Outline("exit_process", exit_process, Idle, Idle)
  <2> DEFINE n == "exit_process"
             body == During(<<"PROCESSES">>, <<<<"read">>, <<"unread">>>>)
  <2>1. n # Handler /\ "PROCESSES" \in Mutex \ Masked(n) /\ Rank("PROCESSES") < 2
    BY DEF Handler, Mutex, Masked, Rank
  <2> HIDE DEF n
  <2>2. Outline(n, body, L({}, 0, 0 + 1, 0), L({}, 0, 0 + 1, 0))
    BY <2>1, <1>ReadUnder
  <2> HIDE DEF body
  <2>3. Proper(n, L({}, 0, 0, 0)) /\ {} \in SUBSET Mutex
    BY IdleIs
  <2>4. InOrder(<<"read">>, L({}, 0, 0, 0))
    BY DEF InOrder, Level, L
  <2>5. Outline(n, <<<<"read">>>> \o body \o <<<<"unread">>>>, L({}, 0, 0, 0), L({}, 0, 0, 0))
    BY <2>1, <2>2, <2>3, <2>4, <1>OutlineReading
  <2> QED
    BY <2>5, IdleIs DEF exit_process, n, body
\* switch_to, called by itself or by a system call.
<1>SwitchKept. ASSUME NEW n \in {"switch_to", "syscall_switch_to"}, NEW h \in SUBSET {"SYSCALL_HANDLER"}, NEW d \in Nat,
                      n = "switch_to" => d = 0
               PROVE  Outline(n, switch_to, L(h, d, 0, 0), L(h, d, 0, 0))
  <2> USE <1>SwitchKept
  <2> DEFINE m1 == "KERNEL_PAGE_TABLE"
             m2 == "FRAME_ALLOCATOR"
             m3 == "TTYS"
             all == h \cup {m1, m2, m3}
             body == During(<<m1, m2, m3>>, <<<<"sti">>>>)
  <2>1. /\ n # Handler /\ h \in SUBSET Mutex /\ all \in SUBSET Mutex
        /\ m1 \in Mutex \ h /\ m2 \in Mutex \ h /\ m3 \in Mutex \ h /\ m1 # m2 /\ m2 # m3 /\ m1 # m3
    BY DEF Handler, Mutex
  <2>2. \A g \in SUBSET all : Proper(n, L(g, d, 0, 0))
    BY DEF Proper, L, Masked
  <2>3. L(h, d, 0, 0) \in Local /\ L(all, d, 0, 0) \in Local
    BY <2>1 DEF L, Local
  <2>4. InOrder(Lock(m1), L(h, d, 0, 0))
    BY DEF InOrder, Level, Lock, L, Rank
  <2>5. InOrder(Lock(m2), L(h \cup {m1}, d, 0, 0))
    BY DEF InOrder, Level, Lock, L, Rank
  <2>6. InOrder(Lock(m3), L(h \cup {m1, m2}, d, 0, 0))
    BY DEF InOrder, Level, Lock, L, Rank
  <2>7. Outline(n, <<<<"cli">>>>, L(h, d, 0, 0), L(h, d, 0, 0))
    <3>1. Allowed(n, <<"cli">>, L(h, d, 0, 0)) /\ L(h, d, 0, 0) = After(<<"cli">>, L(h, d, 0, 0))
      BY <2>1 DEF Allowed, After, L, CallWord
    <3> QED
      BY <2>2, <2>3, <3>1, OutlineWord DEF CallWord
  <2>8. Outline(n, <<<<"sti">>>>, L(all, d, 0, 0), L(all, d, 0, 0))
    <3> HIDE DEF all
    <3>1. Allowed(n, <<"sti">>, L(all, d, 0, 0)) /\ L(all, d, 0, 0) = After(<<"sti">>, L(all, d, 0, 0))
      BY <2>1 DEF Allowed, After, L, CallWord
    <3> QED
      BY <2>2, <2>3, <3>1, OutlineWord DEF CallWord
  <2>9. Outline(n, body, L(h, d, 0, 0), L(h, d, 0, 0))
    <3>1. Proper(n, L(h, d, 0, 0)) /\ Proper(n, L(h \cup {m1}, d, 0, 0)) /\ Proper(n, L(h \cup {m1, m2}, d, 0, 0))
      BY <2>2
    <3> HIDE DEF m1, m2, m3
    <3> QED
      BY <2>1, <2>4, <2>5, <2>6, <2>8, <3>1, DuringThree
  <2> HIDE DEF body
  <2>10. Outline(n, <<<<"cli">>>> \o body, L(h, d, 0, 0), L(h, d, 0, 0))
    BY <2>7, <2>9, OutlineJoin
  <2> QED
    BY <2>10 DEF switch_to, body
<1>MapBarKept. Outline("map_bar", map_bar, Idle, Idle)
  <2> DEFINE n == "map_bar"
             k == "KERNEL_PAGE_TABLE"
             f == "FRAME_ALLOCATOR"
  <2>1. f \in Mutex \ {} /\ k \in Mutex \ {} /\ f # k /\ {} \in SUBSET Mutex
    BY DEF Mutex
  <2>2. /\ Proper(n, L({}, 0, 0, 0)) /\ Proper(n, L({} \cup {k}, 0, 0, 0))
        /\ Proper(n, L({} \cup {k, f}, 0, 0, 0))
    BY DEF Proper, L, Masked
  <2>3. InOrder(Lock(k), L({}, 0, 0, 0)) /\ InOrder(Lock(f), L({} \cup {k}, 0, 0, 0))
    BY DEF InOrder, Level, Lock, L, Rank
  <2>4. L({} \cup {k, f}, 0, 0, 0) \in Local
    BY DEF L, Local, Mutex
  <2> HIDE DEF n, k, f
  <2>5. Outline(n, << >>, L({} \cup {k, f}, 0, 0, 0), L({} \cup {k, f}, 0, 0, 0))
    BY <2>2, <2>4, OutlineEmpty
  <2>6. Outline(n, During(<<k, f>>, << >>), L({}, 0, 0, 0), L({}, 0, 0, 0))
    BY <2>1, <2>2, <2>3, <2>5, DuringTwo, Zenon
  <2> QED
    BY <2>6, IdleIs DEF map_bar, n, k, f
<1>AllocForDmaKept. Outline("alloc_for_dma", alloc_for_dma, Idle, Idle)
  <2> DEFINE n == "alloc_for_dma"
             f == "FRAME_ALLOCATOR"
             h == {} \cup {f}
  <2>1. n # Handler /\ n # "syscall_switch_to" /\ f \in Mutex \ {} /\ {} \in SUBSET Mutex /\ h \in SUBSET Mutex
    BY DEF Handler, Mutex
  <2>2. Proper(n, L({}, 0, 0, 0)) /\ Proper(n, L(h, 0, 0, 0))
    BY DEF Proper, L, Masked
  <2>3. InOrder(Lock(f), L({}, 0, 0, 0)) /\ \A m \in h : Rank(m) < 6
    BY DEF InOrder, Level, Lock, L, Rank
  <2> HIDE DEF n, f
  <2>4. Outline(n, print, L(h, 0, 0, 0), L(h, 0, 0, 0))
    <3> HIDE DEF h
    <3> QED
      BY <2>1, <2>2, <2>3, <1>PrintKept
  <2>5. Outline(n, During(<<f>>, print), L({}, 0, 0, 0), L({}, 0, 0, 0))
    BY <2>1, <2>2, <2>3, <2>4, DuringOne
  <2> QED
    BY <2>5, IdleIs DEF alloc_for_dma, n, f
<1>OneLockKept. /\ Outline("set_font", set_font, Idle, Idle)
                /\ Outline("register_irq_handler", register_irq_handler, Idle, Idle)
  <2>1. "CONSOLE" \in Mutex \ Masked("set_font") /\ "IRQ_HANDLER" \in Mutex \ Masked("register_irq_handler")
    BY DEF Mutex, Masked
  <2>2. Outline("set_font", During(<<"CONSOLE">>, << >>), L({}, 0, 0, 0), L({}, 0, 0, 0))
    BY <2>1, <1>TakenAlone
  <2>3. Outline("register_irq_handler", During(<<"IRQ_HANDLER">>, << >>), L({}, 0, 0, 0), L({}, 0, 0, 0))
    BY <2>1, <1>TakenAlone
  <2> QED
    BY <2>2, <2>3, IdleIs DEF set_font, register_irq_handler
\* A system call, and what it does under the lock of the handler.
<1>SyscallKept. ASSUME NEW n \in {"syscall_print", "syscall_switch_to"}, NEW body,
                       Outline(n, body, L({} \cup {"SYSCALL_HANDLER"}, 1, 0, 0), L({} \cup {"SYSCALL_HANDLER"}, 1, 0, 0))
                PROVE  Outline(n, syscall(body), Idle, Idle)
  <2> USE <1>SyscallKept
  <2> DEFINE m == "SYSCALL_HANDLER"
  <2>1. n # Handler /\ m \in Mutex \ {} /\ {} \in SUBSET Mutex
    BY DEF Handler, Mutex
  <2>2. Proper(n, L({}, 0, 0, 0)) /\ Proper(n, L({}, 1, 0, 0))
    BY DEF Proper, L
  <2>3. InOrder(Lock(m), L({}, 1, 0, 0))
    BY DEF InOrder, Level, Lock, L, Rank
  <2>4. Outline(n, During(<<m>>, body), L({}, 0 + 1, 0, 0), L({}, 0 + 1, 0, 0))
    <3>1. Outline(n, During(<<m>>, body), L({}, 1, 0, 0), L({}, 1, 0, 0))
      BY <2>1, <2>2, <2>3, DuringOne
    <3> QED
      BY <3>1
  <2>5. Outline(n, without_interrupts(During(<<m>>, body)), L({}, 0, 0, 0), L({}, 0, 0, 0))
    BY <2>1, <2>2, <2>4, <1>OutlineWithout
  <2> QED
    BY <2>5, IdleIs DEF syscall
<1>SyscallsKept. /\ Outline("syscall_print", syscall(print), Idle, Idle)
                 /\ Outline("syscall_switch_to", syscall(switch_to), Idle, Idle)
  <2> DEFINE h == {} \cup {"SYSCALL_HANDLER"}
  <2>1. h \in SUBSET Mutex /\ h \in SUBSET {"SYSCALL_HANDLER"} /\ \A m \in h : Rank(m) < 6
    BY DEF Mutex, Rank
  <2>2. "syscall_print" # Handler /\ Proper("syscall_print", L(h, 1, 0, 0))
    BY DEF Handler, Proper, L
  <2> HIDE DEF h
  <2>3. Outline("syscall_print", print, L(h, 1, 0, 0), L(h, 1, 0, 0))
    BY <2>1, <2>2, <1>PrintKept
  <2>4. Outline("syscall_switch_to", switch_to, L(h, 1, 0, 0), L(h, 1, 0, 0))
    BY <2>1, <1>SwitchKept
  <2> QED
    BY <2>3, <2>4, <1>SyscallKept DEF h
<1> DEFINE Kept(n) == Outline(n, Program[n], Idle, Idle)
<1>1. Kept("new_user_process")
  BY <1>NewUserProcessKept DEF Program
<1>2. Kept("new_kernel_thread")
  BY <1>NewKernelThreadKept DEF Program
<1>3. Kept("new_user_thread")
  BY <1>NewUserThreadKept DEF Program
<1>4. Kept("heap_allocate") /\ Kept("heap_allocate_writing")
  BY <1>HeapAllocateKept, <1>HeapAllocateWritingKept DEF Program
<1>5. Kept("heap_clear")
  BY <1>HeapClearKept DEF Program
<1>6. Kept("exit_process")
  BY <1>ExitProcessKept DEF Program
<1>7. Kept("switch_to")
  <2>1. Outline("switch_to", switch_to, L({}, 0, 0, 0), L({}, 0, 0, 0))
    BY <1>SwitchKept
  <2> QED
    BY <2>1, IdleIs DEF Program
<1>8. Kept("map_bar") /\ Kept("alloc_for_dma")
  BY <1>MapBarKept, <1>AllocForDmaKept DEF Program
<1>9. Kept("set_font") /\ Kept("register_irq_handler")
  BY <1>OneLockKept DEF Program
<1>10. Kept("syscall_print") /\ Kept("syscall_switch_to")
  BY <1>SyscallsKept DEF Program
<1> HIDE DEF Kept
<1>11. \A n \in Call : Kept(n)
  BY <1>1, <1>2, <1>3, <1>4, <1>5, <1>6, <1>7, <1>8, <1>9, <1>10, CallNames
<1> QED
  BY <1>11 DEF Kept

\* So do the handlers of interrupts.
LEMMA HandlersKept ==
    /\ Outline(Handler, timer_handler, Idle, Idle)
    /\ Outline(Handler, default_irq_handler, Idle, Idle)
<1>1. \A g \in SUBSET Mutex : Proper(Handler, L(g, 0, 0, 0)) /\ L(g, 0, 0, 0) \in Local
  BY DEF Proper, L, Local
<1>2. Outline(Handler, timer_handler, Idle, Idle)
  <2> DEFINE m == "SCHEDULER"
             h == {} \cup {m}
  <2>1. m \in Mutex /\ h \in SUBSET Mutex /\ {} \in SUBSET Mutex
    BY DEF Mutex
  <2>2. InOrder(Lock(m), L({}, 0, 0, 0))
    BY DEF InOrder, Level, Lock, L, Rank
  <2>3. Allowed(Handler, <<"schedule">>, L(h, 0, 0, 0)) /\ L({}, 0, 0, 0) = After(<<"schedule">>, L(h, 0, 0, 0))
    BY DEF Allowed, After, L, HandlerWord
  <2>4. Outline(Handler, <<Lock(m)>>, L({}, 0, 0, 0), L(h, 0, 0, 0))
    BY <1>1, <2>1, <2>2, OutlineLock
  <2>5. Outline(Handler, <<<<"schedule">>>>, L(h, 0, 0, 0), L({}, 0, 0, 0))
    BY <1>1, <2>1, <2>3, OutlineWord DEF HandlerWord
  <2>6. Outline(Handler, <<Lock(m)>> \o <<<<"schedule">>>>, L({}, 0, 0, 0), L({}, 0, 0, 0))
    BY <2>4, <2>5, OutlineJoin
  <2>7. <<Lock(m)>> \o <<<<"schedule">>>> = timer_handler
    BY PairJoined DEF timer_handler
  <2> QED
    BY <2>6, <2>7, IdleIs, Zenon
<1>3. Outline(Handler, default_irq_handler, Idle, Idle)
  <2> DEFINE m1 == "IRQ_HANDLER"
             m2 == "CONSOLE"
             m3 == "TTYS"
             all == {} \cup {m1, m2, m3}
             body == During(<<m1, m2, m3>>, << >>)
  <2>1. /\ m1 \in Mutex \ {} /\ m2 \in Mutex \ {} /\ m3 \in Mutex \ {} /\ m1 # m2 /\ m2 # m3 /\ m1 # m3
        /\ {} \in SUBSET Mutex /\ all \in SUBSET Mutex
    BY DEF Mutex
  <2>2. /\ InOrder(Lock(m1), L({}, 0, 0, 0))
        /\ InOrder(Lock(m2), L({} \cup {m1}, 0, 0, 0))
        /\ InOrder(Lock(m3), L({} \cup {m1, m2}, 0, 0, 0))
    BY DEF InOrder, Level, Lock, L, Rank
  <2>3. Allowed(Handler, <<"return">>, L({}, 0, 0, 0)) /\ L({}, 0, 0, 0) = After(<<"return">>, L({}, 0, 0, 0))
    BY DEF Allowed, After, L, HandlerWord
  <2> HIDE DEF m1, m2, m3
  <2>4. Outline(Handler, << >>, L(all, 0, 0, 0), L(all, 0, 0, 0))
    BY <1>1, <2>1, OutlineEmpty
  <2>5. Proper(Handler, L({}, 0, 0, 0)) /\ Proper(Handler, L({} \cup {m1}, 0, 0, 0)) /\ Proper(Handler, L({} \cup {m1, m2}, 0, 0, 0))
    BY <1>1, <2>1
  <2>6. Outline(Handler, body, L({}, 0, 0, 0), L({}, 0, 0, 0))
    BY <2>1, <2>2, <2>4, <2>5, DuringThree, Zenon
  <2>7. Outline(Handler, <<<<"return">>>>, L({}, 0, 0, 0), L({}, 0, 0, 0))
    BY <1>1, <2>1, <2>3, OutlineWord DEF HandlerWord
  <2>8. Outline(Handler, body \o <<<<"return">>>>, L({}, 0, 0, 0), L({}, 0, 0, 0))
    BY <2>6, <2>7, OutlineJoin
  <2> QED
    BY <2>8, IdleIs DEF default_irq_handler, m1, m2, m3
<1> QED
  BY <1>2, <1>3
=============================================================================
