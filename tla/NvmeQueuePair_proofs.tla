------------------------ MODULE NvmeQueuePair_proofs ------------------------
(***************************************************************************)
(* What NvmeQueuePair promises for queues of any length and any set of     *)
(* commands: the phase bit tells the truth, the count of open requests is  *)
(* exact, and the rings implement CommandContract.                         *)
(***************************************************************************)
EXTENDS NvmeQueuePair, FiniteSetTheorems, TLAPS

Completion == [phase : BOOLEAN, cmd : Command \cup {NoCommand}, sq_head : Slot]

TypeOK ==
    /\ commands \in [Slot -> Command \cup {NoCommand}]
    /\ completions \in [Slot -> Completion]
    /\ head \in Slot /\ tail \in Slot /\ fetched \in Slot
    /\ comp_head \in Slot /\ cq_doorbell \in Slot /\ posted \in Slot
    /\ sq_doorbell = tail
    /\ phase \in BOOLEAN /\ posted_phase \in BOOLEAN
    /\ reqs \in Nat /\ batch \in 0 .. BatchMax
    /\ executing \in SUBSET Command

\* The head the host has seen, the controller's and the tail follow each other
\* around the submission queue.
HeadsOrdered == Dist(head, fetched) + Dist(fetched, tail) = Dist(head, tail)

\* The heads reported in the completions that are not collected yet lie between
\* the one the host has seen and the controller's, in the order of the entries.
ReportsOrdered ==
    \A i \in Window(cq_doorbell, posted) :
        /\ Dist(head, completions[i].sq_head) <= Dist(head, fetched)
        /\ \A j \in Window(cq_doorbell, posted) :
              Dist(cq_doorbell, i) <= Dist(cq_doorbell, j) =>
                  Dist(head, completions[i].sq_head) <= Dist(head, completions[j].sq_head)

\* A command waits in one slot or is being executed, not both.
CommandsApart ==
    \A i \in Window(fetched, tail) :
        /\ commands[i] \in Command \ executing
        /\ \A j \in Window(fetched, tail) : i # j => commands[i] # commands[j]

\* Where complete_n has moved the head to.
Skipped == IF batch = 0 THEN 0 ELSE batch - 1

HeadSkips == Dist(cq_doorbell, comp_head) = Skipped

\* The entries before the controller's tail have the phase of its current pass,
\* the others that of the pass before.
PhaseWritten ==
    \A i \in Slot : completions[i].phase = IF i < posted THEN posted_phase ELSE ~posted_phase

\* The host expects the phase of the controller's pass exactly if the way from
\* the doorbell to its head and the way to the controller's tail wrap both or
\* neither.
PhaseExpected ==
    (phase = posted_phase) <=> ((cq_doorbell <= comp_head) <=> (cq_doorbell <= posted))

\* reqs counts the commands in the submission queue, in the controller and in
\* the completion queue: it is never taken below zero.
RequestsCounted ==
    /\ reqs = Dist(fetched, tail) + Cardinality(executing) + Dist(cq_doorbell, posted)
    /\ batch <= reqs

IndInv ==
    /\ TypeOK
    /\ HeadsOrdered
    /\ ReportsOrdered
    /\ CommandsApart
    /\ HeadSkips
    /\ PhaseWritten
    /\ PhaseExpected
    /\ RequestsCounted
-----------------------------------------------------------------------------
\* The next slot of a ring, without the remainder.
LEMMA SuccValue ==
    ASSUME NEW i \in Slot
    PROVE  /\ Succ(i) \in Slot
           /\ Succ(i) = IF i + 1 = QueueLen THEN 0 ELSE i + 1
  BY QueueAssumption DEF Slot, Succ

LEMMA DistRange ==
    ASSUME NEW a \in Slot, NEW b \in Slot
    PROVE  Dist(a, b) \in Slot /\ Dist(a, b) \in Nat /\ (Dist(a, b) = 0 <=> a = b)
  BY QueueAssumption DEF Slot, Dist

\* Distances from a slot on the way.
LEMMA DistFrom ==
    ASSUME NEW a \in Slot, NEW b \in Slot, NEW c \in Slot, Dist(a, b) <= Dist(a, c)
    PROVE  Dist(b, c) = Dist(a, c) - Dist(a, b)
  BY QueueAssumption DEF Slot, Dist

\* A window that has room grows by the slot at its end.
LEMMA WindowGrows ==
    ASSUME NEW a \in Slot, NEW b \in Slot, Succ(b) # a
    PROVE  /\ Dist(a, Succ(b)) = Dist(a, b) + 1
           /\ Window(a, Succ(b)) = Window(a, b) \cup {b}
           /\ b \notin Window(a, b)
<1>1. Dist(a, Succ(b)) = Dist(a, b) + 1
  BY SuccValue, QueueAssumption DEF Slot, Dist
<1>2. \A i \in Slot : Dist(a, i) < Dist(a, b) + 1 <=> Dist(a, i) < Dist(a, b) \/ i = b
  BY QueueAssumption DEF Slot, Dist
<1>3. Dist(a, b) \in Nat
  BY DistRange
<1>4. Window(a, Succ(b)) = Window(a, b) \cup {b}
  BY <1>1, <1>2 DEF Window
<1>5. b \notin Window(a, b)
  BY <1>3 DEF Window
<1> QED
  BY <1>1, <1>4, <1>5

\* A window that is not empty loses the slot at its start.
LEMMA WindowShrinks ==
    ASSUME NEW a \in Slot, NEW b \in Slot, a # b
    PROVE  /\ Dist(Succ(a), b) = Dist(a, b) - 1
           /\ Window(Succ(a), b) = Window(a, b) \ {a}
           /\ a \in Window(a, b)
<1>1. Dist(Succ(a), b) = Dist(a, b) - 1
  BY SuccValue, QueueAssumption DEF Slot, Dist
<1>2. \A i \in Slot : Dist(Succ(a), i) < Dist(a, b) - 1 <=> Dist(a, i) < Dist(a, b) /\ i # a
  BY SuccValue, QueueAssumption DEF Slot, Dist
<1>3. Dist(a, a) < Dist(a, b)
  BY QueueAssumption DEF Slot, Dist
<1> QED
  BY <1>1, <1>2, <1>3 DEF Window

\* Behind one of its slots a window keeps the slots that come later.
LEMMA WindowSuffix ==
    ASSUME NEW a \in Slot, NEW b \in Slot, NEW c \in Slot, Dist(a, c) < Dist(a, b)
    PROVE  /\ Dist(Succ(c), b) = Dist(a, b) - Dist(a, c) - 1
           /\ \A i \in Window(Succ(c), b) :
                 /\ i \in Window(a, b)
                 /\ Dist(Succ(c), i) = Dist(a, i) - Dist(a, c) - 1
                 /\ Dist(a, c) < Dist(a, i)
<1>1. Dist(Succ(c), b) = Dist(a, b) - Dist(a, c) - 1
  BY SuccValue, QueueAssumption DEF Slot, Dist
<1>2. ASSUME NEW i \in Slot, Dist(Succ(c), i) < Dist(Succ(c), b)
      PROVE  /\ Dist(a, i) < Dist(a, b)
             /\ Dist(Succ(c), i) = Dist(a, i) - Dist(a, c) - 1
             /\ Dist(a, c) < Dist(a, i)
  BY <1>2, SuccValue, QueueAssumption DEF Slot, Dist
<1> QED
  BY <1>1, <1>2 DEF Window

LEMMA ExecutingFinite ==
    ASSUME TypeOK
    PROVE  IsFiniteSet(executing) /\ Cardinality(executing) \in Nat
  BY QueueAssumption, FS_Subset, FS_CardinalityType DEF TypeOK
-----------------------------------------------------------------------------
LEMMA InitInv == Init => IndInv
<1> SUFFICES ASSUME Init
             PROVE  IndInv
  OBVIOUS
<1>1. 0 \in Slot /\ Dist(0, 0) = 0 /\ Window(0, 0) = {}
  BY QueueAssumption DEF Slot, Dist, Window
<1>2. TypeOK
  BY <1>1, QueueAssumption DEF Init, TypeOK, Completion, NoCompletion
<1>3. HeadsOrdered /\ ReportsOrdered /\ CommandsApart /\ HeadSkips
  BY <1>1 DEF Init, HeadsOrdered, ReportsOrdered, CommandsApart, HeadSkips, Skipped
<1>4. PhaseWritten /\ PhaseExpected
  <2>1. \A i \in Slot : ~(i < 0) /\ completions[i].phase = FALSE
    BY QueueAssumption DEF Init, NoCompletion, Slot
  <2> QED
    BY <1>1, <2>1, Zenon DEF Init, PhaseWritten, PhaseExpected
<1>5. RequestsCounted
  BY <1>1, FS_EmptySet DEF Init, RequestsCounted
<1> QED
  BY <1>2, <1>3, <1>4, <1>5 DEF IndInv

\* A submission queue that is not full for the host is not full for the controller.
LEMMA RoomToSubmit ==
    ASSUME TypeOK, HeadsOrdered, ~is_full
    PROVE  /\ Succ(tail) # head
           /\ Succ(tail) # fetched
  BY SuccValue, QueueAssumption, SMTT(30) DEF TypeOK, HeadsOrdered, is_full, Dist, Slot

LEMMA SubmitInv ==
    ASSUME IndInv, NEW c \in Command \ (Held \cup Done), submit_io(c)
    PROVE  IndInv'
<1> USE DEF IndInv
<1>1. /\ ~is_full /\ batch = 0
      /\ commands' = [commands EXCEPT ![tail] = c]
      /\ tail' = Succ(tail) /\ sq_doorbell' = Succ(tail)
      /\ reqs' = reqs + 1
      /\ UNCHANGED <<head, comp_head, phase, cq_doorbell, batch,
                     completions, fetched, executing, posted, posted_phase>>
  BY DEF submit_io, submit, controller
<1>2. /\ Dist(fetched, Succ(tail)) = Dist(fetched, tail) + 1
      /\ Window(fetched, Succ(tail)) = Window(fetched, tail) \cup {tail}
      /\ tail \notin Window(fetched, tail)
      /\ Dist(head, Succ(tail)) = Dist(head, tail) + 1
  BY <1>1, RoomToSubmit, WindowGrows DEF TypeOK
<1>3. TypeOK'
  BY <1>1, SuccValue DEF TypeOK
<1>4. HeadsOrdered'
  <2>1. Dist(head, fetched) \in Nat /\ Dist(fetched, tail) \in Nat /\ Dist(head, tail) \in Nat
    BY DistRange DEF TypeOK
  <2> QED
    BY <1>1, <1>2, <2>1 DEF HeadsOrdered
<1>5. ReportsOrdered'
  BY <1>1 DEF ReportsOrdered
<1>6. CommandsApart'
  <2>1. c \notin executing /\ \A i \in Window(fetched, tail) : commands[i] # c
    BY DEF Held
  <2>2. \A i \in Window(fetched, tail) : i \in Slot /\ commands'[i] = commands[i]
    BY <1>1, <1>2 DEF Window, TypeOK
  <2>3. commands'[tail] = c
    BY <1>1 DEF TypeOK
  <2> QED
    BY <1>1, <1>2, <2>1, <2>2, <2>3 DEF CommandsApart
<1>7. HeadSkips' /\ PhaseWritten' /\ PhaseExpected'
  BY <1>1 DEF HeadSkips, Skipped, PhaseWritten, PhaseExpected
<1>8. RequestsCounted'
  <2>1. Dist(fetched, tail) \in Nat /\ Dist(cq_doorbell, posted) \in Nat /\ Cardinality(executing) \in Nat
    BY DistRange, ExecutingFinite DEF TypeOK
  <2> QED
    BY <1>1, <1>2, <2>1 DEF RequestsCounted, TypeOK
<1> QED
  BY <1>3, <1>4, <1>5, <1>6, <1>7, <1>8

\* complete_n passes over the entries before the last of its batch.
LEMMA CompleteInv ==
    ASSUME IndInv, NEW n \in 1 .. BatchMax, complete_io(n)
    PROVE  IndInv'
<1> USE DEF IndInv
<1>1. /\ batch = 0 /\ n <= reqs /\ batch' = n
      /\ comp_head' = LastOf(n) % QueueLen
      /\ phase' = PassPhase(LastOf(n))
      /\ UNCHANGED <<commands, head, tail, sq_doorbell, cq_doorbell, reqs,
                     completions, fetched, executing, posted, posted_phase>>
  BY DEF complete_io, controller
<1>2. comp_head = cq_doorbell
  BY <1>1, DistRange DEF HeadSkips, Skipped, TypeOK
<1>3. /\ comp_head' \in Slot
      /\ comp_head' = IF LastOf(n) >= QueueLen THEN LastOf(n) - QueueLen ELSE LastOf(n)
  BY <1>1, QueueAssumption DEF TypeOK, LastOf, Slot
<1>4. TypeOK'
  <2>1. phase' \in BOOLEAN
    BY <1>1, Zenon DEF TypeOK, PassPhase
  <2>2. batch' \in 0 .. BatchMax
    BY <1>1, QueueAssumption
  <2> QED
    BY <1>1, <1>3, <2>1, <2>2 DEF TypeOK
<1>5. HeadsOrdered' /\ ReportsOrdered' /\ CommandsApart' /\ PhaseWritten'
  BY <1>1 DEF HeadsOrdered, ReportsOrdered, CommandsApart, PhaseWritten
<1>6. HeadSkips'
  BY <1>1, <1>2, <1>3, QueueAssumption DEF HeadSkips, Skipped, Dist, LastOf, TypeOK, Slot
<1>7. PhaseExpected'
  BY <1>1, <1>2, <1>3, QueueAssumption DEF PhaseExpected, PassPhase, LastOf, TypeOK, Slot
<1>8. RequestsCounted'
  BY <1>1 DEF RequestsCounted
<1> QED
  BY <1>4, <1>5, <1>6, <1>7, <1>8

\* The entry at the head has the expected phase exactly if it was posted.
LEMMA PhaseTruth ==
    ASSUME IndInv
    PROVE  completions[comp_head].phase = phase <=> Skipped < Dist(cq_doorbell, posted)
<1> USE DEF IndInv
<1>1. completions[comp_head].phase = posted_phase <=> comp_head < posted
  <2>1. completions[comp_head].phase = IF comp_head < posted THEN posted_phase ELSE ~posted_phase
    BY DEF PhaseWritten, TypeOK
  <2> QED
    BY <2>1 DEF TypeOK
<1>2. completions[comp_head].phase \in BOOLEAN /\ phase \in BOOLEAN /\ posted_phase \in BOOLEAN
  BY DEF TypeOK, Completion
<1>3. completions[comp_head].phase = phase <=>
          (comp_head < posted <=> (cq_doorbell <= comp_head <=> cq_doorbell <= posted))
  BY <1>1, <1>2 DEF PhaseExpected
<1>4. (comp_head < posted <=> (cq_doorbell <= comp_head <=> cq_doorbell <= posted))
          <=> Dist(cq_doorbell, comp_head) < Dist(cq_doorbell, posted)
  BY QueueAssumption DEF Dist, TypeOK, Slot
<1> QED
  BY <1>3, <1>4 DEF HeadSkips

\* complete_spin and quick_poll take the entry at the head.
LEMMA CollectInv ==
    ASSUME IndInv, NEW n \in Nat, n = Skipped + 1, complete(n), n <= reqs
    PROVE  IndInv'
<1> USE DEF IndInv
<1>1. /\ comp_head' = Succ(comp_head) /\ cq_doorbell' = Succ(comp_head)
      /\ phase' = PassPhase(comp_head + 1)
      /\ head' = completions[comp_head].sq_head
      /\ reqs' = reqs - n /\ batch' = 0
      /\ UNCHANGED <<commands, tail, sq_doorbell, completions, fetched, executing, posted, posted_phase>>
  BY DEF complete, collect, RingCompletion, LearnHead, controller
<1>2. Dist(cq_doorbell, comp_head) < Dist(cq_doorbell, posted)
  BY PhaseTruth DEF complete, HeadSkips
<1>3. /\ Dist(Succ(comp_head), posted) = Dist(cq_doorbell, posted) - n
      /\ \A i \in Window(Succ(comp_head), posted) :
            /\ i \in Window(cq_doorbell, posted)
            /\ Dist(Succ(comp_head), i) = Dist(cq_doorbell, i) - n
            /\ Dist(cq_doorbell, comp_head) < Dist(cq_doorbell, i)
  <2>1. Dist(cq_doorbell, comp_head) = n - 1
    BY DEF HeadSkips, Skipped, TypeOK
  <2>2. /\ Dist(Succ(comp_head), posted) = Dist(cq_doorbell, posted) - Dist(cq_doorbell, comp_head) - 1
        /\ \A i \in Window(Succ(comp_head), posted) :
              /\ i \in Window(cq_doorbell, posted)
              /\ Dist(Succ(comp_head), i) = Dist(cq_doorbell, i) - Dist(cq_doorbell, comp_head) - 1
              /\ Dist(cq_doorbell, comp_head) < Dist(cq_doorbell, i)
    BY <1>2, WindowSuffix DEF TypeOK
  <2>3. Dist(cq_doorbell, posted) \in Nat /\ \A i \in Window(Succ(comp_head), posted) : Dist(cq_doorbell, i) \in Nat
    BY DistRange DEF TypeOK, Window
  <2> QED
    BY <2>1, <2>2, <2>3
<1>4. comp_head \in Window(cq_doorbell, posted)
  BY <1>2 DEF Window, TypeOK
<1>5. head' \in Slot /\ Dist(head, head') <= Dist(head, fetched)
  BY <1>1, <1>4 DEF TypeOK, Completion, ReportsOrdered
<1>6. TypeOK'
  <2>1. phase' \in BOOLEAN
    BY <1>1, Zenon DEF TypeOK, PassPhase
  <2>2. reqs' \in Nat /\ batch' \in 0 .. BatchMax
    BY <1>1, QueueAssumption DEF TypeOK
  <2> QED
    BY <1>1, <1>5, <2>1, <2>2, SuccValue DEF TypeOK
<1>7. HeadsOrdered'
  <2>1. /\ Dist(head, fetched) \in Nat /\ Dist(fetched, tail) \in Nat /\ Dist(head, tail) \in Nat
        /\ Dist(head, head') \in Nat
    BY <1>5, DistRange DEF TypeOK
  <2>2. Dist(head, head') <= Dist(head, tail)
    BY <1>5, <2>1 DEF HeadsOrdered
  <2>3. /\ Dist(head', fetched) = Dist(head, fetched) - Dist(head, head')
        /\ Dist(head', tail) = Dist(head, tail) - Dist(head, head')
    BY <1>5, <2>2, DistFrom DEF TypeOK
  <2> QED
    BY <1>1, <2>1, <2>3 DEF HeadsOrdered
<1>8. ReportsOrdered'
  <2>1. \A s \in Slot : Dist(head, head') <= Dist(head, s) => Dist(head', s) = Dist(head, s) - Dist(head, head')
    BY <1>5, DistFrom DEF TypeOK
  <2>2. ASSUME NEW i \in Window(Succ(comp_head), posted)
        PROVE  /\ completions[i].sq_head \in Slot
               /\ i \in Window(cq_doorbell, posted)
               /\ Dist(head', completions[i].sq_head) = Dist(head, completions[i].sq_head) - Dist(head, head')
    <3>1. i \in Window(cq_doorbell, posted) /\ i \in Slot /\ Dist(cq_doorbell, comp_head) < Dist(cq_doorbell, i)
      BY <1>3 DEF Window
    <3>2. Dist(cq_doorbell, comp_head) <= Dist(cq_doorbell, i)
      BY <3>1, DistRange DEF TypeOK
    <3>3. Dist(head, head') <= Dist(head, completions[i].sq_head)
      BY <1>1, <1>4, <3>1, <3>2 DEF ReportsOrdered
    <3>4. completions[i].sq_head \in Slot
      BY <3>1 DEF TypeOK, Completion
    <3> QED
      BY <2>1, <3>1, <3>3, <3>4
  <2>3. Dist(head', fetched) = Dist(head, fetched) - Dist(head, head')
    BY <1>5, <2>1 DEF TypeOK
  <2>4. \A a, b \in Slot : Dist(a, b) \in Nat
    BY DistRange
  <2>5. ASSUME NEW i \in Window(Succ(comp_head), posted)
        PROVE  Dist(head', completions[i].sq_head) <= Dist(head', fetched)
    <3>1. Dist(head, completions[i].sq_head) <= Dist(head, fetched)
      BY <2>2 DEF ReportsOrdered
    <3> QED
      BY <1>5, <2>2, <2>3, <2>4, <3>1 DEF TypeOK
  <2>6. ASSUME NEW i \in Window(Succ(comp_head), posted), NEW j \in Window(Succ(comp_head), posted),
               Dist(Succ(comp_head), i) <= Dist(Succ(comp_head), j)
        PROVE  Dist(head', completions[i].sq_head) <= Dist(head', completions[j].sq_head)
    <3>1. Dist(cq_doorbell, i) <= Dist(cq_doorbell, j)
      BY <1>3, <2>4, <2>6 DEF TypeOK, Window
    <3>2. Dist(head, completions[i].sq_head) <= Dist(head, completions[j].sq_head)
      BY <2>2, <3>1 DEF ReportsOrdered
    <3> QED
      BY <1>5, <2>2, <2>4, <3>2 DEF TypeOK
  <2> QED
    BY <1>1, <2>5, <2>6 DEF ReportsOrdered
<1>9. CommandsApart' /\ PhaseWritten'
  BY <1>1 DEF CommandsApart, PhaseWritten
<1>10. HeadSkips'
  BY <1>1, SuccValue, DistRange DEF HeadSkips, Skipped, TypeOK
<1>11. PhaseExpected'
  <2>1. (phase' = posted_phase) <=> Succ(comp_head) <= posted
    <3>1. phase' = IF comp_head + 1 >= QueueLen THEN ~phase ELSE phase
      BY <1>1 DEF PassPhase
    <3>2. (comp_head + 1 >= QueueLen) <=> Succ(comp_head) = 0
      BY SuccValue, QueueAssumption DEF TypeOK, Slot
    <3>3. CASE Succ(comp_head) = 0
      <4>1. ~(cq_doorbell <= comp_head <=> cq_doorbell <= posted)
        BY <1>2, <3>3, SuccValue, QueueAssumption DEF TypeOK, Slot, Dist
      <4>2. 0 <= posted
        BY QueueAssumption DEF TypeOK, Slot
      <4> QED
        BY <3>1, <3>2, <3>3, <4>1, <4>2 DEF PhaseExpected, TypeOK
    <3>4. CASE Succ(comp_head) # 0
      <4>1. (cq_doorbell <= comp_head <=> cq_doorbell <= posted) <=> Succ(comp_head) <= posted
        BY <1>2, <3>4, SuccValue, QueueAssumption, SMTT(30) DEF TypeOK, Slot, Dist
      <4> QED
        BY <3>1, <3>2, <3>4, <4>1 DEF PhaseExpected, TypeOK
    <3> QED
      BY <3>3, <3>4
  <2>2. Succ(comp_head) <= Succ(comp_head)
    BY SuccValue, SMTT(30) DEF TypeOK, Slot
  <2> QED
    BY <1>1, <2>1, <2>2 DEF PhaseExpected
<1>12. RequestsCounted'
  <2>1. Dist(fetched, tail) \in Nat /\ Dist(cq_doorbell, posted) \in Nat /\ Cardinality(executing) \in Nat
    BY DistRange, ExecutingFinite DEF TypeOK
  <2> QED
    BY <1>1, <1>3, <2>1 DEF RequestsCounted, TypeOK
<1> QED
  BY <1>6, <1>7, <1>8, <1>9, <1>10, <1>11, <1>12

\* The controller takes a command that is in one slot only.
LEMMA FetchInv ==
    ASSUME IndInv, fetch
    PROVE  IndInv'
<1> USE DEF IndInv
<1>1. /\ fetched # tail
      /\ executing' = executing \cup {commands[fetched]}
      /\ fetched' = Succ(fetched)
      /\ UNCHANGED <<commands, head, tail, comp_head, phase, sq_doorbell, cq_doorbell, reqs, batch,
                     completions, posted, posted_phase>>
  BY DEF fetch, host, TypeOK
<1>2. /\ Dist(Succ(fetched), tail) = Dist(fetched, tail) - 1
      /\ Window(Succ(fetched), tail) = Window(fetched, tail) \ {fetched}
      /\ fetched \in Window(fetched, tail)
  BY <1>1, WindowShrinks DEF TypeOK
<1>3. commands[fetched] \in Command \ executing
  BY <1>2 DEF CommandsApart
<1>4. TypeOK'
  BY <1>1, <1>3, SuccValue DEF TypeOK
<1>5. /\ Dist(head, fetched) \in Nat /\ Dist(fetched, tail) \in Nat /\ Dist(head, tail) \in Nat
      /\ Dist(cq_doorbell, posted) \in Nat
  BY DistRange DEF TypeOK
<1>6. Dist(head, Succ(fetched)) = Dist(head, fetched) + 1
  <2>1. Succ(fetched) # head
    BY <1>1, SuccValue, QueueAssumption DEF HeadsOrdered, TypeOK, Dist, Slot
  <2> QED
    BY <2>1, WindowGrows DEF TypeOK
<1>7. HeadsOrdered'
  BY <1>1, <1>2, <1>5, <1>6 DEF HeadsOrdered
<1>8. ReportsOrdered'
  <2>1. ASSUME NEW i \in Window(cq_doorbell, posted)
        PROVE  Dist(head, completions[i].sq_head) <= Dist(head, Succ(fetched))
    <3>1. i \in Slot /\ Dist(head, completions[i].sq_head) \in Nat
      BY DistRange DEF Window, TypeOK, Completion
    <3>2. Dist(head, completions[i].sq_head) <= Dist(head, fetched)
      BY DEF ReportsOrdered
    <3> QED
      BY <1>5, <1>6, <3>1, <3>2
  <2> QED
    BY <1>1, <2>1 DEF ReportsOrdered
<1>9. CommandsApart'
  BY <1>1, <1>2 DEF CommandsApart
<1>10. HeadSkips' /\ PhaseWritten' /\ PhaseExpected'
  BY <1>1 DEF HeadSkips, Skipped, PhaseWritten, PhaseExpected
<1>11. RequestsCounted'
  <2>1. Cardinality(executing') = Cardinality(executing) + 1
    BY <1>1, <1>3, ExecutingFinite, FS_AddElement, Zenon
  <2> QED
    BY <1>1, <1>2, <1>5, <2>1, ExecutingFinite DEF RequestsCounted, TypeOK
<1> QED
  BY <1>4, <1>7, <1>8, <1>9, <1>10, <1>11

\* The controller completes a command in the slot behind the entries posted before.
LEMMA PostInv ==
    ASSUME IndInv, NEW c \in executing, post(c)
    PROVE  IndInv'
<1> USE DEF IndInv
<1> DEFINE new == [phase |-> posted_phase, cmd |-> c, sq_head |-> fetched]
<1>1. /\ Succ(posted) # cq_doorbell
      /\ completions' = [completions EXCEPT ![posted] = new]
      /\ executing' = executing \ {c}
      /\ posted' = Succ(posted)
      /\ posted_phase' = IF Succ(posted) = 0 THEN ~posted_phase ELSE posted_phase
      /\ UNCHANGED <<commands, head, tail, comp_head, phase, sq_doorbell, cq_doorbell, reqs, batch, fetched>>
  BY DEF post, host
<1>2. /\ Dist(cq_doorbell, Succ(posted)) = Dist(cq_doorbell, posted) + 1
      /\ Window(cq_doorbell, Succ(posted)) = Window(cq_doorbell, posted) \cup {posted}
      /\ posted \notin Window(cq_doorbell, posted)
  BY <1>1, WindowGrows DEF TypeOK
<1>3. /\ new \in Completion /\ new.phase = posted_phase /\ new.sq_head = fetched
  BY DEF TypeOK, Completion
<1> HIDE DEF new
<1>4. /\ completions' \in [Slot -> Completion]
      /\ completions'[posted] = new
      /\ \A i \in Slot : i # posted => completions'[i] = completions[i]
  BY <1>1, <1>3 DEF TypeOK
<1>5. TypeOK'
  <2>1. posted_phase' \in BOOLEAN
    BY <1>1, Zenon DEF TypeOK
  <2> QED
    BY <1>1, <1>4, <2>1, SuccValue DEF TypeOK
<1>6. HeadsOrdered' /\ HeadSkips'
  BY <1>1 DEF HeadsOrdered, HeadSkips, Skipped
<1>7. ReportsOrdered'
  <2>1. ASSUME NEW i \in Window(cq_doorbell, posted)
        PROVE  i \in Slot /\ completions'[i] = completions[i] /\ Dist(cq_doorbell, i) < Dist(cq_doorbell, posted)
    BY <1>2, <1>4 DEF Window
  <2>2. completions'[posted].sq_head = fetched
    BY <1>3, <1>4
  <2>3. Dist(head, fetched) \in Nat /\ Dist(cq_doorbell, posted) \in Nat
    BY DistRange DEF TypeOK
  <2>4. ASSUME NEW i \in Window(cq_doorbell, posted) \cup {posted}
        PROVE  Dist(head, completions'[i].sq_head) <= Dist(head, fetched)
    BY <2>1, <2>2, <2>3 DEF ReportsOrdered
  <2>5. ASSUME NEW i \in Window(cq_doorbell, posted) \cup {posted},
               NEW j \in Window(cq_doorbell, posted) \cup {posted},
               Dist(cq_doorbell, i) <= Dist(cq_doorbell, j)
        PROVE  Dist(head, completions'[i].sq_head) <= Dist(head, completions'[j].sq_head)
    <3>1. CASE j = posted
      BY <2>2, <2>4, <3>1
    <3>2. CASE j # posted /\ i # posted
      BY <2>1, <2>5, <3>2 DEF ReportsOrdered
    <3>3. CASE j # posted /\ i = posted
      <4>1. Dist(cq_doorbell, j) \in Nat /\ Dist(cq_doorbell, j) < Dist(cq_doorbell, posted)
        BY <2>1, <3>3, DistRange DEF TypeOK
      <4> QED
        BY <2>3, <2>5, <3>3, <4>1
    <3> QED
      BY <3>1, <3>2, <3>3
  <2> QED
    BY <1>1, <1>2, <2>4, <2>5 DEF ReportsOrdered
<1>8. CommandsApart'
  BY <1>1 DEF CommandsApart
<1>9. PhaseWritten'
  <2>1. CASE Succ(posted) = 0
    <3>1. \A i \in Slot : completions'[i].phase = posted_phase
      <4>1. posted + 1 = QueueLen
        BY <2>1, SuccValue, QueueAssumption DEF TypeOK, Slot
      <4>2. \A i \in Slot : i = posted \/ i < posted
        BY <4>1, QueueAssumption DEF TypeOK, Slot
      <4> QED
        BY <1>3, <1>4, <4>2 DEF PhaseWritten
    <3>2. \A i \in Slot : ~(i < 0)
      BY QueueAssumption DEF Slot
    <3>3. posted' = 0 /\ posted_phase = ~posted_phase'
      BY <1>1, <2>1, Zenon DEF TypeOK
    <3> QED
      BY <3>1, <3>2, <3>3 DEF PhaseWritten
  <2>2. CASE Succ(posted) # 0
    <3>1. posted' = posted + 1 /\ posted_phase' = posted_phase
      BY <1>1, <2>2, SuccValue DEF TypeOK
    <3>2. \A i \in Slot : i < posted + 1 <=> i < posted \/ i = posted
      BY QueueAssumption DEF TypeOK, Slot
    <3>3. ~(posted < posted)
      BY QueueAssumption DEF TypeOK, Slot
    <3> QED
      BY <1>3, <1>4, <3>1, <3>2, <3>3 DEF PhaseWritten
  <2> QED
    BY <2>1, <2>2
<1>10. PhaseExpected'
  <2>1. CASE Succ(posted) = 0
    <3>1. cq_doorbell <= posted /\ ~(cq_doorbell <= 0)
      BY <1>1, <2>1, SuccValue, QueueAssumption DEF TypeOK, Slot
    <3> QED
      BY <1>1, <2>1, <3>1 DEF PhaseExpected, TypeOK
  <2>2. CASE Succ(posted) # 0
    <3>1. cq_doorbell <= posted <=> cq_doorbell <= Succ(posted)
      BY <1>1, <2>2, SuccValue, QueueAssumption DEF TypeOK, Slot
    <3> QED
      BY <1>1, <2>2, <3>1 DEF PhaseExpected, TypeOK
  <2> QED
    BY <2>1, <2>2
<1>11. RequestsCounted'
  <2>1. Cardinality(executing') = Cardinality(executing) - 1
    BY <1>1, ExecutingFinite, FS_RemoveElement
  <2>2. Dist(fetched, tail) \in Nat /\ Dist(cq_doorbell, posted) \in Nat
    BY DistRange DEF TypeOK
  <2> QED
    BY <1>1, <1>2, <2>1, <2>2, ExecutingFinite DEF RequestsCounted, TypeOK
<1> QED
  BY <1>5, <1>6, <1>7, <1>8, <1>9, <1>10, <1>11
-----------------------------------------------------------------------------
\* complete_spin and quick_poll take the entry the skipped ones end with, and
\* there is a request for each of them.
LEMMA CollectCounted ==
    ASSUME IndInv, NEW n \in Nat, complete(n), n = Skipped + 1
    PROVE  n <= reqs
<1>1. Skipped < Dist(cq_doorbell, posted)
  BY PhaseTruth DEF complete
<1>2. Dist(fetched, tail) \in Nat /\ Dist(cq_doorbell, posted) \in Nat /\ Cardinality(executing) \in Nat
  BY DistRange, ExecutingFinite DEF IndInv, TypeOK
<1>3. Skipped \in Nat
  BY QueueAssumption DEF IndInv, TypeOK, Skipped
<1> QED
  BY <1>1, <1>2, <1>3 DEF IndInv, RequestsCounted

\* What complete_spin or quick_poll takes is a complete(n) for the entries up to
\* the head.
LEMMA CollectCase ==
    ASSUME IndInv, complete_spin \/ quick_poll
    PROVE  \E n \in Nat : n = Skipped + 1 /\ complete(n)
<1>1. batch \in Nat
  BY QueueAssumption DEF IndInv, TypeOK
<1>2. CASE complete_spin
  BY <1>1, <1>2 DEF complete_spin, Skipped
<1>3. CASE quick_poll
  BY <1>3 DEF quick_poll, Skipped
<1> QED
  BY <1>2, <1>3

LEMMA NextInv == IndInv /\ [Next]_vars => IndInv'
<1> SUFFICES ASSUME IndInv, [Next]_vars
             PROVE  IndInv'
  OBVIOUS
<1>1. CASE \E c \in Command \ (Held \cup Done) : submit_io(c)
  BY <1>1, SubmitInv
<1>2. CASE \E n \in 1 .. BatchMax : complete_io(n)
  BY <1>2, CompleteInv
<1>3. CASE complete_spin \/ quick_poll
  BY <1>3, CollectCase, CollectCounted, CollectInv
<1>4. CASE fetch
  BY <1>4, FetchInv
<1>5. CASE \E c \in executing : post(c)
  BY <1>5, PostInv
<1>6. CASE complete_none \/ UNCHANGED vars
  <2>1. UNCHANGED vars
    BY <1>6 DEF complete_none
  <2> QED
    BY <2>1 DEF vars, host, controller, IndInv, TypeOK, HeadsOrdered, ReportsOrdered, CommandsApart,
                HeadSkips, Skipped, PhaseWritten, PhaseExpected, RequestsCounted, Window
<1> QED
  BY <1>1, <1>2, <1>3, <1>4, <1>5, <1>6 DEF Next

\* The rings stay what NvmeSubQueue and NvmeCompQueue take them for, and the
\* invariant the other results rest on holds.
THEOREM QueuesSound == Spec => []IndInv
  BY InitInv, NextInv, PTL DEF Spec

\* The phase bit NvmeCompQueue::complete tests tells the truth in queues of any
\* length, with batches of any size the completion queue has room for: it sees
\* an entry exactly when the controller has posted it.
THEOREM PhaseTrue == Spec => []PhaseTellsPosted
<1>1. IndInv => PhaseTellsPosted
  <2> SUFFICES ASSUME IndInv
               PROVE  PhaseTellsPosted
    OBVIOUS
  <2>1. Skipped \in Nat /\ Dist(cq_doorbell, posted) \in Nat
    BY DistRange, QueueAssumption DEF IndInv, TypeOK, Skipped
  <2> QED
    BY <2>1, PhaseTruth DEF PhaseTellsPosted, Skipped
<1> QED
  BY <1>1, QueuesSound, PTL

\* The requests counted as open are those in one of the queues or in the
\* controller: the subtraction in complete_n never wraps.
THEOREM NoRequestLost == Spec => []RequestsCounted
<1>1. IndInv => RequestsCounted
  BY DEF IndInv
<1> QED
  BY <1>1, QueuesSound, PTL
-----------------------------------------------------------------------------
LEMMA SubmitRefines ==
    ASSUME IndInv, NEW c \in Command \ (Held \cup Done), submit_io(c)
    PROVE  Held' = Held \cup {c} /\ Done' = Done
<1>1. /\ ~is_full
      /\ commands' = [commands EXCEPT ![tail] = c]
      /\ tail' = Succ(tail)
      /\ UNCHANGED <<cq_doorbell, completions, fetched, executing, posted>>
  BY DEF submit_io, submit, controller
<1>2. /\ Window(fetched, Succ(tail)) = Window(fetched, tail) \cup {tail}
      /\ tail \notin Window(fetched, tail)
  BY <1>1, RoomToSubmit, WindowGrows DEF IndInv, TypeOK
<1>3. commands'[tail] = c /\ \A i \in Window(fetched, tail) : commands'[i] = commands[i]
  BY <1>1, <1>2 DEF IndInv, TypeOK, Window
<1>4. Window(fetched', tail') = Window(fetched, tail) \cup {tail}
  BY <1>1, <1>2
<1>5. Held' = Held \cup {c}
  BY <1>1, <1>3, <1>4 DEF Held
<1> QED
  BY <1>1, <1>5 DEF Done, Window

\* Taking a command out of its slot leaves it with the controller.
LEMMA FetchRefines ==
    ASSUME IndInv, fetch
    PROVE  Held' = Held /\ Done' = Done
<1>1. /\ fetched # tail
      /\ executing' = executing \cup {commands[fetched]}
      /\ fetched' = Succ(fetched)
      /\ UNCHANGED <<commands, tail, cq_doorbell, completions, posted>>
  BY DEF fetch, host, IndInv, TypeOK
<1>2. /\ Window(Succ(fetched), tail) = Window(fetched, tail) \ {fetched}
      /\ fetched \in Window(fetched, tail)
  BY <1>1, WindowShrinks DEF IndInv, TypeOK
<1>3. Window(fetched', tail') = Window(fetched, tail) \ {fetched}
  BY <1>1, <1>2
<1>4. Held' = Held
  BY <1>1, <1>2, <1>3 DEF Held
<1> QED
  BY <1>1, <1>4 DEF Done, Window

LEMMA PostRefines ==
    ASSUME IndInv, NEW c \in executing, post(c)
    PROVE  c \in Held /\ Held' = Held \ {c} /\ Done' = Done \cup {c}
<1>1. /\ Succ(posted) # cq_doorbell
      /\ completions' = [completions EXCEPT ![posted] =
                            [phase |-> posted_phase, cmd |-> c, sq_head |-> fetched]]
      /\ executing' = executing \ {c}
      /\ posted' = Succ(posted)
      /\ UNCHANGED <<commands, tail, cq_doorbell, fetched>>
  BY DEF post, host
<1>2. /\ Window(cq_doorbell, Succ(posted)) = Window(cq_doorbell, posted) \cup {posted}
      /\ posted \notin Window(cq_doorbell, posted)
  BY <1>1, WindowGrows DEF IndInv, TypeOK
<1>3. /\ completions'[posted].cmd = c
      /\ \A i \in Window(cq_doorbell, posted) : completions'[i] = completions[i]
  BY <1>1, <1>2 DEF IndInv, TypeOK, Window
<1>4. Window(cq_doorbell', posted') = Window(cq_doorbell, posted) \cup {posted}
  BY <1>1, <1>2
<1>5. Done' = Done \cup {c}
  BY <1>3, <1>4 DEF Done
<1>6. Window(fetched', tail') = Window(fetched, tail)
  BY <1>1
<1>7. \A i \in Window(fetched, tail) : commands[i] # c
  BY DEF IndInv, CommandsApart
<1>8. Held' = Held \ {c}
  BY <1>1, <1>6, <1>7 DEF Held
<1> QED
  BY <1>5, <1>8 DEF Held

LEMMA CollectRefines ==
    ASSUME IndInv, complete_spin \/ quick_poll
    PROVE  Held' = Held /\ Done' \in SUBSET Done
<1>1. /\ Skipped < Dist(cq_doorbell, posted)
      /\ cq_doorbell' = Succ(comp_head)
      /\ UNCHANGED <<commands, tail, fetched, executing, completions, posted>>
  BY PhaseTruth DEF complete_spin, quick_poll, complete, collect, RingCompletion, controller
<1>2. Dist(cq_doorbell, comp_head) < Dist(cq_doorbell, posted)
  BY <1>1 DEF IndInv, HeadSkips
<1>3. \A i \in Window(Succ(comp_head), posted) : i \in Window(cq_doorbell, posted)
  BY <1>2, WindowSuffix DEF IndInv, TypeOK
<1>4. Window(cq_doorbell', posted') \in SUBSET Window(cq_doorbell, posted)
  BY <1>1, <1>3
<1>5. Done' \in SUBSET Done
  BY <1>1, <1>4 DEF Done
<1>6. Window(fetched', tail') = Window(fetched, tail)
  BY <1>1
<1> QED
  BY <1>1, <1>5, <1>6 DEF Held

\* Every step of the rings is a step of the contract or none.
LEMMA NextRefines == IndInv /\ [Next]_vars => [Contract!Next]_<<Held, Done>>
<1> SUFFICES ASSUME IndInv, [Next]_vars
             PROVE  [Contract!Next]_<<Held, Done>>
  OBVIOUS
<1>1. CASE \E c \in Command \ (Held \cup Done) : submit_io(c)
  BY <1>1, SubmitRefines DEF Contract!Next, Contract!Submit
<1>2. CASE complete_spin \/ quick_poll
  <2>1. Held' = Held /\ Done' \in SUBSET Done
    BY <1>2, CollectRefines
  <2>2. CASE Done' = Done
    BY <2>1, <2>2
  <2>3. CASE Done' # Done
    <3>1. Done \ Done' \in (SUBSET Done) \ {{}} /\ Done' = Done \ (Done \ Done')
      BY <2>1, <2>3
    <3> QED
      BY <2>1, <3>1 DEF Contract!Next, Contract!Collect
  <2> QED
    BY <2>2, <2>3
<1>3. CASE fetch
  BY <1>3, FetchRefines
<1>4. CASE \E c \in executing : post(c)
  BY <1>4, PostRefines DEF Contract!Next, Contract!Finish
<1>5. CASE (\E n \in 1 .. BatchMax : complete_io(n)) \/ complete_none \/ UNCHANGED vars
  <2>1. UNCHANGED <<commands, tail, fetched, executing, completions, posted, cq_doorbell>>
    BY <1>5 DEF complete_io, complete_none, vars, host, controller
  <2> QED
    BY <2>1 DEF Held, Done, Window
<1> QED
  BY <1>1, <1>2, <1>3, <1>4, <1>5 DEF Next

\* The rings implement CommandContract, whatever the length of the queues and
\* the commands: a command handed in by submit_io is with the controller until
\* the controller finishes it, once, and complete_n takes only commands that
\* were finished.
THEOREM RingsImplementContract == Spec => ImplementsContract
<1>1. Init => Contract!Init
  <2> SUFFICES ASSUME Init
               PROVE  Held = {} /\ Done = {}
    BY DEF Contract!Init
  <2>1. Window(0, 0) = {}
    BY QueueAssumption DEF Window, Dist, Slot
  <2> QED
    BY <2>1 DEF Init, Held, Done
<1> QED
  BY <1>1, NextRefines, QueuesSound, PTL DEF Spec, ImplementsContract, Contract!Spec
=============================================================================
