---------------------------- MODULE NvmeQueuePair ----------------------------
(***************************************************************************)
(* An NVMe submission and completion queue (src/drivers/nvme/queues.rs)    *)
(* used as a pair by one host (NvmeQueuePair in src/drivers/nvme/nvme.rs), *)
(* with the controller at the other end, which is external: it fetches     *)
(* commands in order and posts completions in any order.                   *)
(*                                                                         *)
(* A call of submit_io with k chunks is k steps here, since the controller *)
(* works between the chunks.  complete_io moves the head first and then    *)
(* spins; what it waits for is one completion, the last of the batch.      *)
(* The status of a completion only decides what complete_io returns.       *)
(***************************************************************************)
EXTENDS Integers, FiniteSets

CONSTANTS
    QueueLen,   \* len of both queues
    Command,    \* the commands that may be open at the same time
    BatchMax    \* the largest n that complete_io is called with

\* The completion queue holds QueueLen - 1 entries, and complete_io frees none of
\* them before the last of its batch is there.
ASSUME QueueAssumption ==
    /\ QueueLen \in Nat /\ QueueLen >= 2
    /\ IsFiniteSet(Command)
    /\ BatchMax \in 1 .. QueueLen - 1

VARIABLES
    commands,       \* NvmeSubQueue::commands
    head,           \* NvmeSubQueue::head, the last sq_head the host has seen
    tail,           \* NvmeSubQueue::tail
    completions,    \* NvmeCompQueue::commands
    comp_head,      \* NvmeCompQueue::head
    phase,          \* NvmeCompQueue::phase
    sq_doorbell,    \* the submission queue's tail doorbell
    cq_doorbell,    \* the completion queue's head doorbell
    reqs,           \* the requests pushed and not yet reported complete
    batch,          \* the argument of the complete_io that spins, or 0
    fetched,        \* the controller's head of the submission queue
    executing,      \* the commands it fetched and has not completed
    posted,         \* its tail of the completion queue
    posted_phase    \* the phase bit of its current pass

host == <<commands, head, tail, comp_head, phase, sq_doorbell, cq_doorbell, reqs, batch>>

controller == <<completions, fetched, executing, posted, posted_phase>>

vars == <<host, controller>>

Slot == 0 .. QueueLen - 1

NoCommand == "none"

NoCompletion == [phase |-> FALSE, cmd |-> NoCommand, sq_head |-> 0]

\* The next slot of a ring.
Succ(i) == (i + 1) % QueueLen

\* The steps from slot a forward to slot b.
Dist(a, b) == IF a <= b THEN b - a ELSE b - a + QueueLen

\* The slots from a up to, but not including, b.
Window(a, b) == {i \in Slot : Dist(a, i) < Dist(a, b)}

\* The commands the controller may still touch, and those it has completed
\* and the host has not collected.
Held == {commands[i] : i \in Window(fetched, tail)} \cup executing

Done == {completions[i].cmd : i \in Window(cq_doorbell, posted)}

\* new does not clear the memory of the completion queue: the phase bits start
\* at zero because the frames it gets are zero.
Init ==
    /\ commands = [i \in Slot |-> NoCommand]
    /\ head = 0 /\ tail = 0 /\ sq_doorbell = 0
    /\ completions = [i \in Slot |-> NoCompletion]
    /\ comp_head = 0 /\ cq_doorbell = 0
    /\ phase = TRUE
    /\ reqs = 0 /\ batch = 0
    /\ fetched = 0 /\ posted = 0
    /\ executing = {}
    /\ posted_phase = TRUE
-----------------------------------------------------------------------------
is_full == head = Succ(tail)

\* The entry is written and the tail moves; submit_io then rings the doorbell.
submit(c) ==
    /\ commands' = [commands EXCEPT ![tail] = c]
    /\ tail' = Succ(tail)
    /\ sq_doorbell' = Succ(tail)
    /\ reqs' = reqs + 1
    /\ UNCHANGED <<head, comp_head, phase, cq_doorbell, batch, controller>>

submit_unchecked(c) == batch = 0 /\ submit(c)

\* submit_checked for one chunk; a full queue ends submit_io and changes nothing.
submit_io(c) == batch = 0 /\ ~is_full /\ submit(c)

\* Where complete_n looks for the last of n entries, before the wrap.
LastOf(n) == comp_head + n - 1

PassPhaseKept(h) == phase
PassPhase(h) == IF h >= QueueLen THEN ~phase ELSE phase

\* complete_n up to its loop: the head passes over all but the last entry.
complete_io(n) ==
    /\ batch = 0
    /\ n <= reqs
    /\ batch' = n
    /\ comp_head' = LastOf(n) % QueueLen
    /\ phase' = PassPhase(LastOf(n))
    /\ UNCHANGED <<commands, head, tail, sq_doorbell, cq_doorbell, reqs, controller>>

RingCompletionLate == cq_doorbell' = comp_head
RingCompletion == cq_doorbell' = Succ(comp_head)

LearnHead == head' = completions[comp_head].sq_head

\* The entry at the head is taken: the head moves past it, the doorbell is
\* rung, the submission queue learns how far the controller got.
collect(n) ==
    /\ comp_head' = Succ(comp_head)
    /\ phase' = PassPhase(comp_head + 1)
    /\ RingCompletion
    /\ LearnHead
    /\ reqs' = reqs - n
    /\ batch' = 0
    /\ UNCHANGED <<commands, tail, sq_doorbell, controller>>

\* NvmeCompQueue::complete: the entry counts when it has the phase of this pass.
complete(n) == completions[comp_head].phase = phase /\ collect(n)

\* ... and otherwise nothing happens: quick_poll returns, complete_spin tries again.
complete_none == completions[comp_head].phase # phase /\ UNCHANGED vars

complete_spin == batch > 0 /\ complete(batch)

quick_poll == batch = 0 /\ complete(1)
-----------------------------------------------------------------------------
\* The controller takes the next command behind the doorbell.
fetch ==
    /\ fetched # sq_doorbell
    /\ executing' = executing \cup {commands[fetched]}
    /\ fetched' = Succ(fetched)
    /\ UNCHANGED <<completions, posted, posted_phase, host>>

\* The controller posts a completion, when the queue has room for it.
post(c) ==
    /\ Succ(posted) # cq_doorbell
    /\ completions' = [completions EXCEPT ![posted] =
                          [phase |-> posted_phase, cmd |-> c, sq_head |-> fetched]]
    /\ executing' = executing \ {c}
    /\ posted' = Succ(posted)
    /\ posted_phase' = IF Succ(posted) = 0 THEN ~posted_phase ELSE posted_phase
    /\ UNCHANGED <<fetched, host>>

Next ==
    \/ \E c \in Command \ (Held \cup Done) : submit_io(c)
    \/ \E n \in 1 .. BatchMax : complete_io(n)
    \/ complete_spin
    \/ quick_poll
    \/ complete_none
    \/ fetch
    \/ \E c \in executing : post(c)

Spec == Init /\ [][Next]_vars

\* The host spins until it sees its entry; the controller fetches what the
\* doorbell announces and completes every command it fetched.
Fairness ==
    /\ WF_vars(complete_spin)
    /\ WF_vars(fetch)
    /\ \A c \in Command : WF_vars(c \in executing /\ post(c))

FairSpec == Spec /\ Fairness
-----------------------------------------------------------------------------
\* The phase bit at the head tells the truth: the host sees a completion there
\* exactly when the controller has posted one that was not collected, also
\* after complete_n has moved the head over entries it did not look at.
PhaseTellsPosted ==
    completions[comp_head].phase = phase <=>
        Dist(cq_doorbell, posted) > IF batch = 0 THEN 0 ELSE batch - 1

\* A batch that is no longer than the completion queue returns.
BatchReturns == batch > 0 ~> batch = 0

Contract == INSTANCE CommandContract WITH held <- Held, done <- Done

\* The two rings with their phase bits, doorbells and skipped entries implement
\* the contract: every command handed in is finished once and collected once.
ImplementsContract == Contract!Spec
=============================================================================
