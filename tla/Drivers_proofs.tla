--------------------------- MODULE Drivers_proofs ---------------------------
(***************************************************************************)
(* Proofs about three drivers.  NvmeDevice, of any number of doorbells and *)
(* namespaces and of any controller, whatever it refuses: commands go to a *)
(* controller that is up, every queue pair that is held exists, no command *)
(* comes out of order, and namespaces are recorded from what was read of   *)
(* them.  NvmeTransfer, of reads and writes of any length.  And the        *)
(* keyboard's side of Ps2.                                                 *)
(***************************************************************************)
EXTENDS NvmeDevice, Sequences, TLAPS

Resetting == {"start", "disabled"}

Enabling == {"configured", "prepared", "enabled"}

\* The driver has waited for CSTS.RDY.
Up == {"bring_up", "failed", "idle", "creating", "deleting", "clearing", "panicked"}

TypeOK ==
    /\ stage \in Resetting \cup Enabling \cup Up
    /\ q_id \in Nat /\ q_id >= OwnQueue
    /\ pairs \in SUBSET (2 .. q_id - 1)
    /\ namespaces \in SUBSET (Namespace \X {"data", "junk"})
    /\ unread \in SUBSET Namespace
    /\ op \in [cmd : Opcode \cup {"none"}, id : Nat \cup Namespace]
    /\ reply \in {"none", "ok", "invalid", "refused"}
    /\ cc_en \in BOOLEAN /\ csts_rdy \in BOOLEAN
    /\ cqs \in SUBSET Nat
    /\ sqs \in SUBSET (Nat \X Nat)

\* How far the reset and the enabling of the controller are.
ResetSeen ==
    /\ stage \in {"disabled", "configured", "prepared"} => ~cc_en
    /\ stage \in {"enabled"} \cup Up => cc_en
    /\ stage \in {"configured", "prepared"} => ~csts_rdy
    /\ stage \in Up => csts_rdy
    /\ stage \in {"prepared", "enabled"} \cup Up => asq = "driver"
    /\ stage \in {"enabled"} \cup Up /\ csts_rdy => rings = "driver"
    /\ stage \in Enabling \/ ~csts_rdy => cqs = {} /\ sqs = {}

\* The commands the driver waits for in a stage.
Commands(s) ==
    CASE s = "bring_up" -> {"create_cq", "create_sq", "identify_controller",
                            "identify_list", "identify_namespace"}
      [] s = "creating" -> {"create_cq", "create_sq"}
      [] s = "deleting" -> {"delete_sq", "delete_cq"}
      [] s = "clearing" -> {"format"}
      [] OTHER -> {"none"}

OpOfStage ==
    /\ op.cmd \in Commands(stage)
    /\ op.cmd = "none" => op = NoOp /\ reply = "none"
    /\ reply = "refused" => op.cmd \in refusable
    /\ reply = "invalid" => op.cmd = "create_cq" /\ q_id \in cqs

\* The device has its own queue pair before anything else is asked for.
OwnFirst ==
    /\ stage \notin Up \/ (stage = "bring_up" /\ op.cmd \in {"create_cq", "create_sq"}) => q_id = OwnQueue
    /\ \/ stage \in {"idle", "creating", "deleting", "clearing"}
       \/ stage = "bring_up" /\ op.cmd \notin {"create_cq", "create_sq"}
       => q_id > OwnQueue

Backed(q) == q \in cqs /\ <<q, q>> \in sqs

NoSq(q) == \A s \in sqs : s[1] # q /\ s[2] # q

\* Queues have ids that were given out, and the next id has no submission queue
\* before one is asked for; it has a completion queue only if one was left behind.
IdsFresh ==
    stage \in Up =>
        /\ \A q \in cqs : q <= q_id
        /\ \A s \in sqs : s[1] = s[2] /\ s[1] <= q_id
        /\ op.cmd # "create_sq" => NoSq(q_id)
        /\ q_id \in cqs => "create_sq" \in refusable \/ op.cmd = "create_sq"
                           \/ (op.cmd = "create_cq" /\ reply = "ok")

\* What is there while a command is on its way.
OpFits ==
    /\ op.cmd \in {"create_cq", "create_sq"} => op.id = q_id
    /\ op.cmd = "create_cq" /\ reply = "ok" => q_id \in cqs
    /\ op.cmd = "create_sq" =>
          q_id \in cqs /\ IF reply = "ok" THEN <<q_id, q_id>> \in sqs ELSE NoSq(q_id)
    /\ op.cmd \in {"delete_sq", "delete_cq"} => op.id \in (2 .. q_id - 1) \ pairs
    /\ op.cmd = "delete_sq" =>
          op.id \in cqs /\ IF reply = "ok" THEN NoSq(op.id) ELSE <<op.id, op.id>> \in sqs
    /\ op.cmd = "delete_cq" => NoSq(op.id) /\ (reply = "none" => op.id \in cqs)
    /\ op.cmd = "identify_namespace" => op.id \in Namespace /\ (reply = "ok" => buffer = op)

Invariant ==
    /\ TypeOK
    /\ ResetSeen
    /\ OpOfStage
    /\ OwnFirst
    /\ IdsFresh
    /\ OpFits
    /\ PairsBacked
    /\ NamespacesReal
-----------------------------------------------------------------------------
LEMMA InitInv == Init => Invariant
<1> SUFFICES ASSUME Init
             PROVE  Invariant
  OBVIOUS
<1> USE DEF Init, NoOp, OwnQueue, Resetting, Enabling, Up
<1>1. TypeOK
  BY DEF TypeOK
<1>2. ResetSeen /\ OpOfStage /\ OwnFirst /\ IdsFresh /\ OpFits
  BY DEF ResetSeen, OpOfStage, Commands, OwnFirst, IdsFresh, OpFits
<1>3. PairsBacked /\ NamespacesReal
  BY DEF PairsBacked, NamespacesReal
<1> QED
  BY <1>1, <1>2, <1>3 DEF Invariant

\* A driver that stays behind the bring-up finds the controller as it was.
LEMMA StaysUp ==
    ASSUME ResetSeen, stage \in Up, stage' \in Up, UNCHANGED <<cc_en, asq, csts_rdy, rings>>
    PROVE  ResetSeen'
  BY DEF ResetSeen, Up, Enabling

LEMMA BringUpInv ==
    ASSUME Invariant, Bring_up
    PROVE  Invariant'
<1> USE DEF Invariant, TypeOK, Resetting, Enabling, Up, OwnQueue, NoOp
<1>1. CASE disable \/ wait_not_ready \/ configure \/ enable
  <2>1. /\ stage \in {"start", "disabled", "configured", "prepared"}
        /\ stage' \in {"disabled", "configured", "prepared", "enabled"}
        /\ UNCHANGED <<q_id, pairs, namespaces, unread, buffer, op, reply, controller>>
        /\ cc_en' \in BOOLEAN
    BY <1>1, Zenon DEF disable, wait_not_ready, configure, enable, Goto, registers
  <2>2. TypeOK'
    BY <2>1 DEF controller
  <2>3. ResetSeen'
    <3> USE DEF ResetSeen, Goto, registers, controller
    <3>1. CASE disable
      BY <3>1 DEF disable
    <3>2. CASE wait_not_ready
      BY <3>2 DEF wait_not_ready
    <3>3. CASE configure
      BY <3>3 DEF configure
    <3>4. CASE enable
      BY <3>4 DEF enable
    <3> QED
      BY <1>1, <3>1, <3>2, <3>3, <3>4
  <2>4. OpOfStage' /\ OwnFirst' /\ IdsFresh' /\ OpFits'
    BY <2>1 DEF OpOfStage, Commands, OwnFirst, IdsFresh, OpFits, controller
  <2>5. PairsBacked' /\ NamespacesReal'
    BY <2>1 DEF PairsBacked, NamespacesReal, controller
  <2> QED
    BY <2>2, <2>3, <2>4, <2>5, Zenon
<1>2. CASE wait_ready
  <2>1. /\ csts_rdy /\ stage = "enabled" /\ stage' = "bring_up"
        /\ op' = [cmd |-> "create_cq", id |-> q_id] /\ reply' = "none"
        /\ UNCHANGED <<q_id, pairs, namespaces, unread, buffer, cc_en, asq, csts_rdy, rings, refusable, cqs, sqs>>
    BY <1>2 DEF wait_ready, Goto, Admin, registers, controller
  <2>2. cqs = {} /\ sqs = {} /\ q_id = OwnQueue
    BY <2>1 DEF ResetSeen, OwnFirst
  <2>3. TypeOK'
    BY <2>1 DEF Opcode
  <2>4. ResetSeen'
    BY <2>1 DEF ResetSeen
  <2>5. OpOfStage' /\ OwnFirst' /\ IdsFresh' /\ OpFits'
    BY <2>1, <2>2 DEF OpOfStage, Commands, OwnFirst, IdsFresh, NoSq, OpFits
  <2>6. PairsBacked' /\ NamespacesReal'
    BY <2>1, Zenon DEF PairsBacked, NamespacesReal
  <2> QED
    BY <2>3, <2>4, <2>5, <2>6, Zenon
<1> QED
  BY <1>1, <1>2 DEF Bring_up
-----------------------------------------------------------------------------
\* A refused creation: the next id may keep a completion queue without a
\* submission queue.
LEMMA RefusedInv ==
    ASSUME Invariant, op.cmd \in {"create_cq", "create_sq"}, reply \in {"invalid", "refused"}, Refused,
           UNCHANGED <<q_id, pairs, namespaces, unread, buffer, registers, controller>>
    PROVE  Invariant'
<1> USE DEF Invariant, TypeOK, Resetting, Enabling, Up, OwnQueue, NoOp
<1>1. /\ stage \in {"bring_up", "creating"}
      /\ stage' = IF stage = "bring_up" THEN "failed" ELSE "idle"
      /\ op' = NoOp /\ reply' = "none"
      /\ UNCHANGED <<cc_en, asq, csts_rdy, rings, refusable, cqs, sqs>>
  BY DEF OpOfStage, Commands, Refused, Goto, NoAdmin, registers, controller
<1>2. TypeOK'
  BY <1>1
<1>3. ResetSeen'
  BY <1>1, StaysUp
<1>4. NoSq(q_id) /\ (q_id \in cqs => "create_sq" \in refusable)
  BY <1>1 DEF IdsFresh, OpFits, OpOfStage
<1>5. OpOfStage' /\ OwnFirst' /\ OpFits'
  BY <1>1 DEF OpOfStage, Commands, OwnFirst, OpFits
<1>6. IdsFresh'
  BY <1>1, <1>4 DEF IdsFresh, NoSq
<1>7. PairsBacked' /\ NamespacesReal'
  BY <1>1 DEF PairsBacked, NamespacesReal
<1> QED
  BY <1>2, <1>3, <1>5, <1>6, <1>7

LEMMA CreateSqInv ==
    ASSUME Invariant, create_sq
    PROVE  Invariant'
<1> USE DEF Invariant, TypeOK, Resetting, Enabling, Up, OwnQueue, NoOp
<1>1. CASE Erred
  BY <1>1, RefusedInv DEF create_sq, Answered, Succeeded, Erred
<1>2. CASE Succeeded
  <2>1. /\ op.cmd = "create_cq" /\ reply = "ok" /\ stage \in {"bring_up", "creating"}
        /\ op' = [cmd |-> "create_sq", id |-> op.id] /\ reply' = "none"
        /\ UNCHANGED <<stage, q_id, pairs, namespaces, unread, buffer>>
        /\ UNCHANGED <<cc_en, asq, csts_rdy, rings, refusable, cqs, sqs>>
    BY <1>2 DEF create_sq, Answered, Succeeded, Erred, Admin, registers, controller, OpOfStage, Commands
  <2>2. op.id = q_id /\ q_id \in cqs /\ NoSq(q_id)
    BY <2>1 DEF OpFits, IdsFresh
  <2>3. TypeOK'
    BY <2>1 DEF Opcode
  <2>4. ResetSeen'
    BY <2>1, StaysUp
  <2>5. OpOfStage' /\ OwnFirst'
    BY <2>1 DEF OpOfStage, Commands, OwnFirst
  <2>6. IdsFresh' /\ OpFits'
    BY <2>1, <2>2 DEF IdsFresh, OpFits, NoSq
  <2>7. PairsBacked' /\ NamespacesReal'
    BY <2>1 DEF PairsBacked, NamespacesReal
  <2> QED
    BY <2>3, <2>4, <2>5, <2>6, <2>7, Zenon
<1> QED
  BY <1>1, <1>2 DEF create_sq

LEMMA PairCreatedInv ==
    ASSUME Invariant, pair_created
    PROVE  Invariant'
<1> USE DEF Invariant, TypeOK, Resetting, Enabling, Up, OwnQueue, NoOp
<1>1. CASE Erred
  BY <1>1, RefusedInv DEF pair_created, Answered, Succeeded, Erred
<1>2. CASE Succeeded
  <2>1. /\ op.cmd = "create_sq" /\ reply = "ok" /\ stage \in {"bring_up", "creating"}
        /\ q_id' = q_id + 1
        /\ UNCHANGED <<namespaces, unread, buffer>>
        /\ UNCHANGED <<cc_en, asq, csts_rdy, rings, refusable, cqs, sqs>>
    BY <1>2 DEF pair_created, Answered, Succeeded, Erred, registers, controller, OpOfStage, Commands
  <2>2. \/ /\ stage' = "bring_up" /\ stage = "bring_up" /\ pairs' = pairs
           /\ op' = [cmd |-> "identify_controller", id |-> 0] /\ reply' = "none"
        \/ /\ stage' = "idle" /\ stage = "creating" /\ pairs' = pairs \cup {op.id}
           /\ op' = NoOp /\ reply' = "none"
    BY <1>2 DEF pair_created, Succeeded, Erred, Goto, Admin, NoAdmin
  <2>3. op.id = q_id /\ Backed(q_id)
    BY <2>1 DEF OpFits, Backed
  <2>4. stage = "bring_up" => q_id = OwnQueue
    BY <2>1 DEF OwnFirst
  <2>5. stage = "creating" => q_id > OwnQueue
    BY DEF OwnFirst
  <2>6. TypeOK'
    <3>1. pairs' \in SUBSET (2 .. q_id' - 1)
      <4>1. \A q \in 2 .. q_id - 1 : q \in 2 .. q_id' - 1
        BY <2>1
      <4>2. stage = "creating" => q_id \in 2 .. q_id' - 1
        BY <2>1, <2>5
      <4> QED
        BY <2>2, <2>3, <4>1, <4>2, Zenon
    <3> QED
      BY <2>1, <2>2, <3>1 DEF Opcode
  <2>7. ResetSeen'
    BY <2>1, <2>2, StaysUp
  <2>8. OpOfStage' /\ OwnFirst' /\ OpFits'
    BY <2>1, <2>2 DEF OpOfStage, Commands, OwnFirst, OpFits
  <2>9. IdsFresh'
    <3>1. /\ \A q \in cqs : q <= q_id
          /\ \A s \in sqs : s[1] = s[2] /\ s[1] <= q_id /\ s[1] \in Nat
      BY <2>1 DEF IdsFresh
    <3>2. /\ \A q \in cqs : q <= q_id + 1 /\ q # q_id + 1
          /\ \A s \in sqs : s[1] = s[2] /\ s[1] <= q_id + 1 /\ s[1] # q_id + 1
      BY <3>1
    <3> QED
      BY <2>1, <2>2, <3>2 DEF IdsFresh, NoSq
  <2>10. PairsBacked'
    <3>1. \A q \in pairs : Backed(q)
      BY Zenon DEF PairsBacked, Backed
    <3>2. Backed(OwnQueue)
      BY <2>1, <2>3, <2>4, <2>5 DEF PairsBacked, Backed
    <3>3. \A q \in pairs' \cup {OwnQueue} : Backed(q)
      BY <2>2, <2>3, <3>1, <3>2, Zenon
    <3> QED
      BY <2>1, <3>3, Zenon DEF PairsBacked, Backed
  <2>11. NamespacesReal'
    BY <2>1 DEF NamespacesReal
  <2> QED
    BY <2>6, <2>7, <2>8, <2>9, <2>10, <2>11, Zenon
<1> QED
  BY <1>1, <1>2 DEF pair_created

\* What holds of the controller's queues when the driver turns from one command
\* to another that creates and deletes nothing, or to none.
LEMMA QueuesKept ==
    ASSUME Invariant, stage \in Up, stage' \in Up \ {"creating"},
           op.cmd \notin {"create_cq", "create_sq"},
           op'.cmd \notin {"create_cq", "create_sq"},
           UNCHANGED <<q_id, pairs, registers, controller>>
    PROVE  ResetSeen' /\ IdsFresh' /\ PairsBacked'
<1>1. UNCHANGED <<cc_en, asq, csts_rdy, rings, refusable, cqs, sqs>>
  BY DEF registers, controller
<1>2. ResetSeen'
  BY <1>1, StaysUp DEF Invariant
<1>3. IdsFresh'
  BY <1>1 DEF Invariant, IdsFresh, NoSq
<1>4. PairsBacked'
  BY <1>1, Zenon DEF Invariant, PairsBacked
<1> QED
  BY <1>2, <1>3, <1>4

LEMMA IdentifiedInv ==
    ASSUME Invariant, controller_identified \/ list_identified
    PROVE  Invariant'
<1> USE DEF Invariant, TypeOK, Resetting, Enabling, Up, OwnQueue, NoOp
<1>1. /\ stage = "bring_up" /\ op.cmd \in {"identify_controller", "identify_list"}
      /\ UNCHANGED <<q_id, pairs, namespaces, buffer, registers, controller>>
  BY DEF controller_identified, list_identified, Answered, OpOfStage, Commands
<1>2. /\ unread' \in SUBSET Namespace
      /\ reply' = "none"
      /\ \/ stage' = "bring_up" /\ op' = [cmd |-> "identify_list", id |-> 0]
         \/ stage' = "bring_up" /\ \E n \in Namespace : op' = [cmd |-> "identify_namespace", id |-> n]
         \/ stage' = "idle" /\ op' = NoOp
  <2>1. CASE controller_identified
    BY <1>1, <2>1 DEF controller_identified, Admin
  <2>2. CASE list_identified
    <3>1. PICK list \in SUBSET Namespace : unread' = list /\ IdentifyNext(list)
      BY <2>2 DEF list_identified
    <3> QED
      BY <1>1, <3>1 DEF IdentifyNext, Goto, Admin, NoAdmin
  <2> QED
    BY <2>1, <2>2
<1>3. TypeOK'
  BY <1>1, <1>2 DEF Opcode, registers, controller
<1>4. OpOfStage' /\ OwnFirst' /\ OpFits'
  BY <1>1, <1>2 DEF OpOfStage, Commands, OwnFirst, OpFits
<1>5. ResetSeen' /\ IdsFresh' /\ PairsBacked'
  BY <1>1, <1>2, QueuesKept
<1>6. NamespacesReal'
  BY <1>1 DEF NamespacesReal, controller
<1> QED
  BY <1>3, <1>4, <1>5, <1>6, Zenon

\* A namespace is recorded from the buffer that its own command has filled.
LEMMA NamespaceIdentifiedInv ==
    ASSUME Invariant, namespace_identified
    PROVE  Invariant'
<1> USE DEF Invariant, TypeOK, Resetting, Enabling, Up, OwnQueue, NoOp
<1>1. /\ stage = "bring_up" /\ op.cmd = "identify_namespace" /\ reply \in {"ok", "refused"}
      /\ namespaces' = namespaces \cup {identify_namespace(op.id)}
      /\ unread' = unread \ {op.id}
      /\ UNCHANGED <<q_id, pairs, buffer, registers, controller>>
  BY DEF namespace_identified, Answered, OpOfStage, Commands
<1>2. /\ reply' = "none"
      /\ \/ stage' = "bring_up" /\ \E n \in Namespace : op' = [cmd |-> "identify_namespace", id |-> n]
         \/ stage' = "idle" /\ op' = NoOp
  BY <1>1 DEF namespace_identified, IdentifyNext, Goto, Admin, NoAdmin
<1>3. op.id \in Namespace /\ (reply = "ok" => buffer = op) /\ (reply = "refused" => op.cmd \in refusable)
  BY <1>1 DEF OpFits, OpOfStage
<1>4. identify_namespace(op.id) \in Namespace \X {"data", "junk"}
  BY <1>3 DEF identify_namespace
<1>5. TypeOK'
  <2>1. namespaces' \in SUBSET (Namespace \X {"data", "junk"})
    BY <1>1, <1>4
  <2> QED
    BY <1>1, <1>2, <2>1 DEF Opcode, registers, controller
<1>6. OpOfStage' /\ OwnFirst' /\ OpFits'
  BY <1>1, <1>2 DEF OpOfStage, Commands, OwnFirst, OpFits
<1>7. ResetSeen' /\ IdsFresh' /\ PairsBacked'
  BY <1>1, <1>2, QueuesKept
<1>8. NamespacesReal'
  <2>1. ASSUME {"identify_list", "identify_namespace"} \cap refusable = {}
        PROVE  identify_namespace(op.id)[2] = "data"
    <3>1. buffer = op
      BY <1>1, <1>3, <2>1
    <3>2. op = [cmd |-> "identify_namespace", id |-> op.id]
      BY <1>1
    <3> QED
      BY <3>1, <3>2 DEF identify_namespace
  <2> QED
    BY <1>1, <2>1 DEF NamespacesReal, controller
<1> QED
  BY <1>5, <1>6, <1>7, <1>8, Zenon

LEMMA DeleteCqInv ==
    ASSUME Invariant, delete_cq
    PROVE  Invariant'
<1> USE DEF Invariant, TypeOK, Resetting, Enabling, Up, OwnQueue, NoOp
<1>1. /\ stage = "deleting" /\ op.cmd = "delete_sq"
      /\ UNCHANGED <<q_id, pairs, namespaces, unread, buffer, registers, controller>>
  BY DEF delete_cq, Answered, OpOfStage, Commands
<1>2. /\ reply' = "none"
      /\ \/ reply = "ok" /\ stage' = "deleting" /\ op' = [cmd |-> "delete_cq", id |-> op.id]
         \/ stage' = "idle" /\ op' = NoOp
  BY <1>1 DEF delete_cq, Succeeded, Goto, Admin, NoAdmin
<1>3. op.id \in (2 .. q_id - 1) \ pairs /\ op.id \in cqs /\ (reply = "ok" => NoSq(op.id))
  BY <1>1 DEF OpFits
<1>4. TypeOK'
  BY <1>1, <1>2 DEF Opcode, registers, controller
<1>5. OpOfStage' /\ OwnFirst'
  BY <1>1, <1>2 DEF OpOfStage, Commands, OwnFirst
<1>6. OpFits'
  BY <1>1, <1>2, <1>3 DEF OpFits, NoSq, controller
<1>7. ResetSeen' /\ IdsFresh' /\ PairsBacked'
  BY <1>1, <1>2, QueuesKept
<1>8. NamespacesReal'
  BY <1>1 DEF NamespacesReal, controller
<1> QED
  BY <1>4, <1>5, <1>6, <1>7, <1>8, Zenon

LEMMA ReturnedInv ==
    ASSUME Invariant, returned
    PROVE  Invariant'
<1> USE DEF Invariant, TypeOK, Resetting, Enabling, Up, OwnQueue, NoOp
<1>1. /\ stage \in {"deleting", "clearing"} /\ op.cmd \in {"delete_cq", "format"}
      /\ stage' = "idle" /\ op' = NoOp /\ reply' = "none"
      /\ UNCHANGED <<q_id, pairs, namespaces, unread, buffer, registers, controller>>
  BY DEF returned, Answered, OpOfStage, Commands, Goto, NoAdmin
<1>2. TypeOK'
  BY <1>1 DEF registers, controller
<1>3. OpOfStage' /\ OwnFirst' /\ OpFits'
  BY <1>1 DEF OpOfStage, Commands, OwnFirst, OpFits
<1>4. ResetSeen' /\ IdsFresh' /\ PairsBacked'
  BY <1>1, QueuesKept
<1>5. NamespacesReal'
  BY <1>1 DEF NamespacesReal, controller
<1> QED
  BY <1>2, <1>3, <1>4, <1>5, Zenon
-----------------------------------------------------------------------------
LEMMA CreatePairInv ==
    ASSUME Invariant, create_io_queue_pair
    PROVE  Invariant'
<1> USE DEF Invariant, TypeOK, Resetting, Enabling, Up, OwnQueue, NoOp
<1>1. /\ stage = "idle" /\ op = NoOp /\ reply' = "none"
      /\ \/ stage' = "creating" /\ op' = [cmd |-> "create_cq", id |-> q_id]
         \/ stage' = "panicked" /\ op' = NoOp
      /\ UNCHANGED <<q_id, pairs, namespaces, unread, buffer>>
      /\ UNCHANGED <<cc_en, asq, csts_rdy, rings, refusable, cqs, sqs>>
  BY DEF create_io_queue_pair, Goto, Admin, NoAdmin, OpOfStage, Commands, registers, controller
<1>2. NoSq(q_id) /\ (q_id \in cqs => "create_sq" \in refusable)
  BY <1>1 DEF IdsFresh
<1>3. TypeOK'
  BY <1>1 DEF Opcode
<1>4. ResetSeen'
  BY <1>1, StaysUp
<1>5. OpOfStage' /\ OwnFirst' /\ OpFits'
  BY <1>1 DEF OpOfStage, Commands, OwnFirst, OpFits
<1>6. IdsFresh'
  BY <1>1, <1>2 DEF IdsFresh, NoSq
<1>7. PairsBacked' /\ NamespacesReal'
  BY <1>1 DEF PairsBacked, NamespacesReal
<1> QED
  BY <1>3, <1>4, <1>5, <1>6, <1>7, Zenon

\* The pair leaves its caller before its queues go.
LEMMA DeletePairInv ==
    ASSUME Invariant, NEW q \in Queue, delete_io_queue_pair(q)
    PROVE  Invariant'
<1> USE DEF Invariant, TypeOK, Resetting, Enabling, Up, OwnQueue, NoOp
<1>1. /\ stage = "idle" /\ op = NoOp /\ q \in pairs
      /\ stage' = "deleting" /\ op' = [cmd |-> "delete_sq", id |-> q] /\ reply' = "none"
      /\ pairs' = pairs \ {q}
      /\ UNCHANGED <<q_id, namespaces, unread, buffer>>
      /\ UNCHANGED <<cc_en, asq, csts_rdy, rings, refusable, cqs, sqs>>
  BY DEF delete_io_queue_pair, Goto, Admin, OpOfStage, Commands, registers, controller
<1>2. q \in 2 .. q_id - 1 /\ q \in cqs /\ <<q, q>> \in sqs
  BY <1>1 DEF PairsBacked
<1>3. TypeOK'
  BY <1>1, <1>2 DEF Opcode
<1>4. ResetSeen'
  BY <1>1, StaysUp
<1>5. OpOfStage' /\ OwnFirst'
  BY <1>1 DEF OpOfStage, Commands, OwnFirst
<1>6. OpFits'
  BY <1>1, <1>2 DEF OpFits
<1>7. IdsFresh'
  BY <1>1 DEF IdsFresh, NoSq
<1>8. PairsBacked' /\ NamespacesReal'
  BY <1>1 DEF PairsBacked, NamespacesReal
<1> QED
  BY <1>3, <1>4, <1>5, <1>6, <1>7, <1>8, Zenon

LEMMA ClearInv ==
    ASSUME Invariant, clear_namespace
    PROVE  Invariant'
<1> USE DEF Invariant, TypeOK, Resetting, Enabling, Up, OwnQueue, NoOp
<1>1. /\ stage = "idle" /\ op = NoOp /\ stage' = "clearing"
      /\ UNCHANGED <<q_id, pairs, namespaces, unread, buffer, registers, controller>>
  BY DEF clear_namespace, Goto, OpOfStage, Commands
<1>2. PICK n \in {0} \cup {ns[1] : ns \in namespaces} : op' = [cmd |-> "format", id |-> n] /\ reply' = "none"
  BY DEF clear_namespace, Admin
<1>3. n \in Nat \cup Namespace
  OBVIOUS
<1>4. TypeOK'
  BY <1>1, <1>2, <1>3 DEF Opcode, registers, controller
<1>5. OpOfStage' /\ OwnFirst' /\ OpFits'
  BY <1>1, <1>2 DEF OpOfStage, Commands, OwnFirst, OpFits
<1>6. ResetSeen' /\ IdsFresh' /\ PairsBacked'
  BY <1>1, <1>2, QueuesKept
<1>7. NamespacesReal'
  BY <1>1 DEF NamespacesReal, controller
<1> QED
  BY <1>4, <1>5, <1>6, <1>7, Zenon
-----------------------------------------------------------------------------
\* Only a controller that the driver has not brought up yet changes its state.
LEMMA ReadyInv ==
    ASSUME Invariant, reset \/ become_ready
    PROVE  Invariant'
<1> USE DEF Invariant, TypeOK, Resetting, Enabling, Up, OwnQueue, NoOp
<1>1. /\ stage \notin Up
      /\ UNCHANGED <<driver, reply, cc_en, asq, refusable>>
      /\ csts_rdy' \in BOOLEAN
      /\ (cqs' = cqs /\ sqs' = sqs) \/ (cqs' = {} /\ sqs' = {})
  BY Zenon DEF reset, become_ready, registers, ResetSeen
<1>2. op = NoOp /\ reply = "none" /\ q_id = OwnQueue
  BY <1>1 DEF OpOfStage, Commands, OwnFirst
<1>3. TypeOK'
  BY <1>1, Zenon DEF driver
<1>4. ResetSeen'
  <2>1. CASE reset
    BY <1>1, <2>1 DEF reset, ResetSeen, driver
  <2>2. CASE become_ready
    BY <1>1, <2>2 DEF become_ready, ResetSeen, driver
  <2> QED
    BY <2>1, <2>2
<1>5. OpOfStage' /\ OwnFirst' /\ IdsFresh' /\ OpFits'
  BY <1>1, <1>2 DEF OpOfStage, Commands, OwnFirst, IdsFresh, OpFits, driver
<1>6. PairsBacked' /\ NamespacesReal'
  BY <1>1, <1>2 DEF PairsBacked, NamespacesReal, driver
<1> QED
  BY <1>3, <1>4, <1>5, <1>6, Zenon

\* What a command that was carried out has done, by its kind.
LEMMA ExecuteCases ==
    ASSUME Invariant, execute
    PROVE  /\ reply = "none" /\ reply' = "ok" /\ op # NoOp
           /\ UNCHANGED <<stage, q_id, pairs, namespaces, unread, op, cc_en, asq, csts_rdy, rings, refusable>>
           /\ \/ op.cmd = "create_cq" /\ cqs' = cqs \cup {op.id} /\ sqs' = sqs
              \/ op.cmd = "create_sq" /\ cqs' = cqs /\ sqs' = sqs \cup {<<op.id, op.id>>}
              \/ op.cmd = "delete_sq" /\ cqs' = cqs /\ sqs' = {s \in sqs : s[1] # op.id}
              \/ op.cmd = "delete_cq" /\ cqs' = cqs \ {op.id} /\ sqs' = sqs
              \/ /\ op.cmd \notin {"create_cq", "create_sq", "delete_sq", "delete_cq"}
                 /\ cqs' = cqs /\ sqs' = sqs
           /\ op.cmd = "identify_namespace" => buffer' = op
<1>1. Perform(op) /\ reply = "none" /\ reply' = "ok" /\ op # NoOp
  BY DEF execute, Listening
<1>2. op.cmd = "identify_namespace" => buffer' = op
  BY <1>1 DEF Perform
<1>3. UNCHANGED <<stage, q_id, pairs, namespaces, unread, op, cc_en, asq, csts_rdy, rings, refusable>>
  BY DEF execute, registers
<1>4. CASE op.cmd = "create_cq"
  BY <1>1, <1>2, <1>3, <1>4 DEF Perform
<1>5. CASE op.cmd = "create_sq"
  BY <1>1, <1>2, <1>3, <1>5 DEF Perform
<1>6. CASE op.cmd = "delete_sq"
  BY <1>1, <1>2, <1>3, <1>6 DEF Perform
<1>7. CASE op.cmd = "delete_cq"
  BY <1>1, <1>2, <1>3, <1>7 DEF Perform
<1>8. CASE op.cmd \notin {"create_cq", "create_sq", "delete_sq", "delete_cq"}
  BY <1>1, <1>2, <1>3, <1>8 DEF Perform
<1> QED
  BY <1>4, <1>5, <1>6, <1>7, <1>8

LEMMA ExecuteInv ==
    ASSUME Invariant, execute
    PROVE  Invariant'
<1> USE DEF Invariant, TypeOK, Resetting, Enabling, Up, OwnQueue, NoOp
<1>1. /\ reply = "none" /\ reply' = "ok" /\ op # NoOp
      /\ UNCHANGED <<stage, q_id, pairs, namespaces, unread, op, cc_en, asq, csts_rdy, rings, refusable>>
      /\ op.cmd = "identify_namespace" => buffer' = op
  BY ExecuteCases
<1>2. stage \in {"bring_up", "creating", "deleting", "clearing"} /\ op.cmd # "none"
  BY <1>1 DEF OpOfStage, Commands
<1>3. ResetSeen'
  BY <1>1, <1>2, StaysUp
<1>4. OpOfStage' /\ OwnFirst' /\ NamespacesReal'
  BY <1>1, <1>2 DEF OpOfStage, OwnFirst, NamespacesReal
<1>5. op.cmd \in {"delete_sq", "delete_cq"} => op.id \in (2 .. q_id - 1) \ pairs
  BY DEF OpFits
<1>6. op.cmd \in {"create_cq", "create_sq"} => op.id = q_id
  BY DEF OpFits
<1>7. \A q \in pairs \cup (IF q_id > OwnQueue THEN {OwnQueue} ELSE {}) : Backed(q)
  BY Zenon DEF PairsBacked, Backed
<1>8. TypeOK' /\ IdsFresh' /\ OpFits' /\ PairsBacked'
  <2>1. CASE op.cmd = "create_cq"
    <3>1. cqs' = cqs \cup {q_id} /\ sqs' = sqs /\ NoSq(q_id)
      BY <1>2, <1>6, <2>1, ExecuteCases DEF IdsFresh
    <3>2. TypeOK'
      BY <1>1, <3>1
    <3>3. IdsFresh' /\ OpFits'
      BY <1>1, <1>2, <1>6, <2>1, <3>1 DEF IdsFresh, OpFits, NoSq
    <3>4. PairsBacked'
      BY <1>1, <1>7, <3>1, Zenon DEF PairsBacked, Backed
    <3> QED
      BY <3>2, <3>3, <3>4, Zenon
  <2>2. CASE op.cmd = "create_sq"
    <3>1. cqs' = cqs /\ sqs' = sqs \cup {<<q_id, q_id>>} /\ q_id \in cqs
      BY <1>6, <2>2, ExecuteCases DEF OpFits
    <3>2. TypeOK'
      BY <1>1, <3>1
    <3>3. IdsFresh' /\ OpFits'
      BY <1>1, <1>2, <1>6, <2>2, <3>1 DEF IdsFresh, OpFits
    <3>4. PairsBacked'
      BY <1>1, <1>7, <3>1, Zenon DEF PairsBacked, Backed
    <3> QED
      BY <3>2, <3>3, <3>4, Zenon
  <2>3. CASE op.cmd = "delete_sq"
    <3>1. cqs' = cqs /\ sqs' = {s \in sqs : s[1] # op.id} /\ op.id \in cqs
      BY <2>3, ExecuteCases DEF OpFits
    <3>2. TypeOK'
      BY <1>1, <3>1
    <3>3. \A s \in sqs : s[1] = s[2] /\ s[1] <= q_id
      BY <1>2 DEF IdsFresh
    <3>4. IdsFresh'
      BY <1>1, <1>2, <2>3, <3>1 DEF IdsFresh, NoSq
    <3>5. OpFits'
      BY <1>1, <1>5, <2>3, <3>1, <3>3 DEF OpFits, NoSq
    <3>6. op.id \notin pairs \cup (IF q_id > OwnQueue THEN {OwnQueue} ELSE {})
      BY <1>5, <2>3
    <3>7. \A q : Backed(q) /\ q # op.id => q \in cqs' /\ <<q, q>> \in sqs'
      BY <3>1 DEF Backed
    <3>8. PairsBacked'
      BY <1>1, <1>7, <3>6, <3>7, Zenon DEF PairsBacked
    <3> QED
      BY <3>2, <3>4, <3>5, <3>8, Zenon
  <2>4. CASE op.cmd = "delete_cq"
    <3>1. cqs' = cqs \ {op.id} /\ sqs' = sqs /\ NoSq(op.id)
      BY <2>4, ExecuteCases DEF OpFits
    <3>2. TypeOK'
      BY <1>1, <3>1, Zenon
    <3>3. IdsFresh' /\ OpFits'
      BY <1>1, <1>2, <1>5, <2>4, <3>1 DEF IdsFresh, OpFits, NoSq
    <3>4. op.id \notin pairs \cup (IF q_id > OwnQueue THEN {OwnQueue} ELSE {})
      BY <1>5, <2>4
    <3>5. \A q : Backed(q) /\ q # op.id => q \in cqs' /\ <<q, q>> \in sqs'
      BY <3>1 DEF Backed
    <3>6. PairsBacked'
      BY <1>1, <1>7, <3>4, <3>5, Zenon DEF PairsBacked
    <3> QED
      BY <3>2, <3>3, <3>6, Zenon
  <2>5. CASE op.cmd \notin {"create_cq", "create_sq", "delete_sq", "delete_cq"}
    <3>1. cqs' = cqs /\ sqs' = sqs
      BY <2>5, ExecuteCases
    <3> QED
      BY <1>1, <1>2, <1>7, <2>5, <3>1 DEF IdsFresh, OpFits, NoSq, PairsBacked, Backed
  <2> QED
    BY <2>1, <2>2, <2>3, <2>4, <2>5
<1> QED
  BY <1>3, <1>4, <1>8, Zenon

\* The queues forbid only the completion queue that a refused creation has left.
LEMMA RefuseInv ==
    ASSUME Invariant, refuse
    PROVE  Invariant'
<1> USE DEF Invariant, TypeOK, Resetting, Enabling, Up, OwnQueue, NoOp
<1>1. /\ reply = "none" /\ op # NoOp
      /\ UNCHANGED <<stage, q_id, pairs, namespaces, unread, buffer, op>>
      /\ UNCHANGED <<cc_en, asq, csts_rdy, rings, refusable, cqs, sqs>>
  BY DEF refuse, Listening, driver, registers, controller
<1>2. stage \in {"bring_up", "creating", "deleting", "clearing"} /\ op.cmd # "none"
  BY <1>1 DEF OpOfStage, Commands
<1>3. ~Permitted(op) => op.cmd = "create_cq" /\ q_id \in cqs
  <2>1. CASE op.cmd = "create_cq"
    BY <2>1 DEF Permitted, OpFits
  <2>2. CASE op.cmd = "create_sq"
    BY <1>1, <2>2 DEF Permitted, OpFits, NoSq
  <2>3. CASE op.cmd = "delete_sq"
    <3>1. <<op.id, op.id>> \in sqs /\ <<op.id, op.id>>[1] = op.id
      BY <1>1, <2>3 DEF OpFits
    <3>2. \E s \in sqs : s[1] = op.id
      BY <3>1
    <3> QED
      BY <2>3, <3>2 DEF Permitted
  <2>4. CASE op.cmd = "delete_cq"
    BY <1>1, <2>4 DEF Permitted, OpFits, NoSq
  <2>5. CASE op.cmd \notin {"create_cq", "create_sq", "delete_sq", "delete_cq"}
    BY <2>5 DEF Permitted
  <2> QED
    BY <2>1, <2>2, <2>3, <2>4, <2>5
<1>4. \/ reply' = "invalid" /\ op.cmd = "create_cq" /\ q_id \in cqs
      \/ reply' = "refused" /\ op.cmd \in refusable
  BY <1>3, Zenon DEF refuse
<1>5. TypeOK'
  BY <1>1, <1>4
<1>6. ResetSeen'
  BY <1>1, <1>2, StaysUp
<1>7. OpOfStage' /\ OwnFirst'
  BY <1>1, <1>2, <1>4 DEF OpOfStage, OwnFirst
<1>8. IdsFresh' /\ OpFits'
  BY <1>1, <1>4 DEF IdsFresh, OpFits, NoSq
<1>9. PairsBacked' /\ NamespacesReal'
  BY <1>1 DEF PairsBacked, NamespacesReal
<1> QED
  BY <1>5, <1>6, <1>7, <1>8, <1>9, Zenon
-----------------------------------------------------------------------------
LEMMA NextInv == Invariant /\ [Next]_vars => Invariant'
<1> SUFFICES ASSUME Invariant, [Next]_vars
             PROVE  Invariant'
  OBVIOUS
<1>1. CASE Bring_up
  BY <1>1, BringUpInv
<1>2. CASE Continue
  BY <1>2, CreateSqInv, PairCreatedInv, IdentifiedInv, NamespaceIdentifiedInv, DeleteCqInv, ReturnedInv
     DEF Continue
<1>3. CASE Call
  BY <1>3, CreatePairInv, DeletePairInv, ClearInv DEF Call
<1>4. CASE Device
  BY <1>4, ReadyInv, ExecuteInv, RefuseInv DEF Device
<1>5. CASE UNCHANGED vars
  BY <1>5, SMTT(30) DEF vars, driver, registers, controller, Invariant, TypeOK, ResetSeen, OpOfStage, OwnFirst,
              IdsFresh, NoSq, OpFits, PairsBacked, NamespacesReal
<1> QED
  BY <1>1, <1>2, <1>3, <1>4, <1>5 DEF Next

\* The invariant that the results below are read from holds of every controller.
THEOREM DeviceSound == Spec => []Invariant
  BY InitInv, NextInv, PTL DEF Spec

\* init sends its first command, and every later call its own, to a controller
\* that has seen the reset and reads the driver's admin rings.
THEOREM CommandsReachController == Spec => []AdminReady
<1>1. Invariant => AdminReady
  BY DEF Invariant, TypeOK, ResetSeen, OpOfStage, Commands, AdminReady, Up, Resetting, Enabling
<1> QED
  BY <1>1, DeviceSound, PTL

\* Every queue pair that create_io_queue_pair has given out and that nobody has
\* handed to delete_io_queue_pair exists on the controller, and so does the
\* device's own, whatever commands were refused on the way.
THEOREM PairsExist == Spec => []PairsBacked
<1>1. Invariant => PairsBacked
  BY DEF Invariant
<1> QED
  BY <1>1, DeviceSound, PTL

\* The order in which create_io_queue_pair and delete_io_queue_pair send their
\* commands never breaks the controller's rules on queues, but for the completion
\* queue that a refused create_sq leaves behind.
THEOREM CommandsInOrder == Spec => []NeverOutOfOrder
<1>1. Invariant => NeverOutOfOrder
  BY DEF Invariant, TypeOK, OpOfStage, Commands, IdsFresh, OpFits, NoSq, NeverOutOfOrder, Up, Resetting, Enabling
<1> QED
  BY <1>1, DeviceSound, PTL

\* init records of a namespace what the controller reported of it, if the
\* controller does not refuse to identify.
THEOREM NamespacesRead == Spec => []NamespacesReal
<1>1. Invariant => NamespacesReal
  BY DEF Invariant
<1> QED
  BY <1>1, DeviceSound, PTL
-----------------------------------------------------------------------------
(***************************************************************************)
(* How reads and writes are cut into commands, for a namespace of any      *)
(* size, any bad blocks, and calls of any size and batch.                  *)
(***************************************************************************)
CONSTANTS Capacity, BadBlock, Kind, Lba, Size, Batch, MaxCalls

VARIABLES disk, memory, call, position, lba, outcome, before, calls

Transfer == INSTANCE NvmeTransfer

\* The chunks before byte position have been moved: as many blocks as lba has
\* gone on by, or fewer where batches are uneven.
Reached(p) ==
    /\ position = 512 * p /\ position <= Transfer!BytesOf(call)
    /\ p % 8 = 0 \/ position = Transfer!BytesOf(call)
    /\ outcome = "returned" => position = Transfer!BytesOf(call)
    /\ lba \in call.lba .. call.lba + p
    /\ DOMAIN memory = 0 .. Transfer!BytesOf(call) \div 512 - 1
    /\ Transfer!EvenBatches /\ Transfer!StatusSeen =>
          /\ lba = call.lba + p
          /\ \A j \in 0 .. p - 1 : call.lba + j \in Transfer!Block /\ disk[call.lba + j] = memory[j]

TransferInv ==
    /\ calls \in Nat
    /\ disk = [b \in Transfer!Block |-> disk[b]]
    /\ outcome \in {"running", "returned", "panicked"}
    /\ calls = 0 => outcome = "returned"
    /\ calls > 0 => call \in Transfer!Call /\ (outcome # "panicked" => \E p \in Nat : Reached(p))
    /\ Transfer!OutsideUntouched

LEMMA RoundUpIs ==
    ASSUME NEW s \in Nat \ {0}
    PROVE  \E k \in Nat \ {0} : Transfer!RoundUp(s * 512) = 512 * k
<1>1. CASE (s * 512) % 4096 # 0
  <2> DEFINE k == 8 * ((s * 512) \div 4096 + 1)
  <2>1. k \in Nat \ {0} /\ Transfer!RoundUp(s * 512) = 512 * k
    BY <1>1 DEF Transfer!RoundUp, Transfer!PageBytes
  <2> HIDE DEF k
  <2> QED
    BY <2>1
<1>2. CASE (s * 512) % 4096 = 0
  BY <1>2 DEF Transfer!RoundUp, Transfer!PageBytes
<1> QED
  BY <1>1, <1>2

\* A call moves whole blocks.
LEMMA BytesAreBlocks ==
    ASSUME Transfer!TransferAssumption, NEW c \in Transfer!Call
    PROVE  \E n \in Nat \ {0} : /\ Transfer!BytesOf(c) = 512 * n
                                /\ Transfer!BytesOf(c) \div 512 = n
                                /\ c.kind = "batched" => n = c.size
<1>1. c.size \in Nat \ {0}
  BY Zenon DEF Transfer!TransferAssumption, Transfer!Call
<1>2. ASSUME NEW n \in Nat, Transfer!BytesOf(c) = 512 * n PROVE Transfer!BytesOf(c) \div 512 = n
  BY <1>2
<1>3. CASE c.kind = "block"
  <2>1. PICK k \in Nat \ {0} : Transfer!RoundUp(1 * 512) = 512 * k
    BY RoundUpIs
  <2>2. Transfer!BytesOf(c) = 512 * k
    BY <1>3, <2>1 DEF Transfer!BytesOf, Transfer!BlockBytes
  <2> QED
    BY <1>2, <1>3, <2>2
<1>4. CASE c.kind = "dma"
  <2>1. PICK k \in Nat \ {0} : Transfer!RoundUp(c.size * 512) = 512 * k
    <3>1. PICK s \in Nat \ {0} : s = c.size
      BY <1>1
    <3>2. \E k \in Nat \ {0} : Transfer!RoundUp(s * 512) = 512 * k
      BY RoundUpIs
    <3> QED
      BY <3>1, <3>2 DEF Transfer!RoundUp
  <2>2. Transfer!BytesOf(c) = 512 * k
    BY <1>4, <2>1 DEF Transfer!BytesOf, Transfer!BlockBytes
  <2> QED
    BY <1>2, <1>4, <2>2
<1>5. CASE c.kind \notin {"block", "dma"}
  <2>1. Transfer!BytesOf(c) = c.size * 512
    BY <1>5 DEF Transfer!BytesOf, Transfer!BlockBytes
  <2>2. Transfer!BytesOf(c) = 512 * c.size
    BY <1>1, <2>1
  <2> QED
    BY <1>1, <1>2, <2>2
<1> QED
  BY <1>3, <1>4, <1>5

\* The next chunk is whole blocks too, and ends a page or the data.
LEMMA ChunkIs ==
    ASSUME NEW n \in Nat, Transfer!BytesOf(call) = 512 * n,
           NEW p \in Nat, position = 512 * p, p < n, p % 8 = 0
    PROVE  \E l \in Nat \ {0} :
              /\ Transfer!ChunkLen = 512 * l
              /\ p + l <= n
              /\ (p + l) % 8 = 0 \/ p + l = n
              /\ call.kind = "batched" => (l = 8 /\ n - p >= 8) \/ (l < 8 /\ l = n - p)
              /\ l <= 16 \/ Transfer!Overruns(Transfer!ChunkLen)
<1>1. n - p \in Nat \ {0} /\ Transfer!BytesOf(call) - position = 512 * (n - p)
  OBVIOUS
<1>2. ASSUME NEW m \in {8, 16, 1024}, Transfer!ChunkBytes(call.kind) = 512 * m
      PROVE  \E l \in Nat \ {0} : /\ Transfer!ChunkLen = 512 * l /\ p + l <= n
                                  /\ l <= m /\ ((l = m /\ n - p >= m) \/ (l < m /\ l = n - p))
  <2>1. CASE m <= n - p
    BY <1>1, <1>2, <2>1 DEF Transfer!ChunkLen, Transfer!Smaller
  <2>2. CASE n - p < m
    <3> DEFINE l == n - p
    <3>1. l \in Nat \ {0} /\ p + l <= n /\ l < m /\ l <= m
      BY <1>1, <2>2
    <3>2. Transfer!ChunkLen = 512 * l
      BY <1>1, <1>2, <2>2 DEF Transfer!ChunkLen, Transfer!Smaller
    <3> QED
      BY <3>1, <3>2
  <2> QED
    BY <1>1, <2>1, <2>2
<1>3. CASE call.kind = "copied"
  <2>1. Transfer!ChunkBytes(call.kind) = 512 * 1024
    BY <1>3 DEF Transfer!ChunkBytes, Transfer!PageBytes
  <2>2. PICK l \in Nat \ {0} : /\ Transfer!ChunkLen = 512 * l /\ p + l <= n
                               /\ l <= 1024 /\ ((l = 1024 /\ n - p >= 1024) \/ (l < 1024 /\ l = n - p))
    BY <1>2, <2>1
  <2>3. (p + l) % 8 = 0 \/ p + l = n
    BY <2>2
  <2>4. l <= 16 \/ Transfer!Overruns(Transfer!ChunkLen)
    BY <1>3, <2>2 DEF Transfer!Overruns, Transfer!BufferBytes, Transfer!PageBytes
  <2> QED
    BY <1>3, <2>2, <2>3, <2>4
<1>4. CASE call.kind = "batched"
  <2>1. Transfer!ChunkBytes(call.kind) = 512 * 8
    BY <1>4 DEF Transfer!ChunkBytes, Transfer!PageBytes
  <2>2. PICK l \in Nat \ {0} : /\ Transfer!ChunkLen = 512 * l /\ p + l <= n
                               /\ l <= 8 /\ ((l = 8 /\ n - p >= 8) \/ (l < 8 /\ l = n - p))
    BY <1>2, <2>1
  <2>3. (p + l) % 8 = 0 \/ p + l = n
    BY <2>2
  <2> QED
    BY <2>2, <2>3
<1>5. CASE call.kind \notin {"copied", "batched"}
  <2>1. Transfer!ChunkBytes(call.kind) = 512 * 16
    BY <1>5 DEF Transfer!ChunkBytes, Transfer!PageBytes
  <2>2. PICK l \in Nat \ {0} : /\ Transfer!ChunkLen = 512 * l /\ p + l <= n
                               /\ l <= 16 /\ ((l = 16 /\ n - p >= 16) \/ (l < 16 /\ l = n - p))
    BY <1>2, <2>1
  <2>3. (p + l) % 8 = 0 \/ p + l = n
    BY <2>2
  <2> QED
    BY <1>5, <2>2, <2>3
<1> QED
  BY <1>3, <1>4, <1>5

\* The commands stay within the l blocks of a chunk.
Within(cmds, l) ==
    \A i \in DOMAIN cmds : /\ cmds[i].lba \in Int /\ cmds[i].blocks \in Nat
                           /\ lba <= cmds[i].lba /\ cmds[i].lba + cmds[i].blocks <= lba + l

\* They move all of them, each one to or from its own place in the chunk.
Exact(cmds, l) ==
    /\ \A b \in lba .. lba + l - 1 : \E i \in DOMAIN cmds : Transfer!Covers(cmds[i], b)
    /\ \A i \in DOMAIN cmds, b \in Int :
          Transfer!Covers(cmds[i], b) => Transfer!Location(cmds[i], b - cmds[i].lba) = 512 * (b - lba)

\* One command moves up to two pages, the second one by its second pointer.
LEMMA SingleCommand ==
    ASSUME NEW l \in 1 .. 16, lba \in Int, call.kind # "batched"
    PROVE  /\ DOMAIN Transfer!Commands(512 * l) = {0}
           /\ Within(Transfer!Commands(512 * l), l)
           /\ Exact(Transfer!Commands(512 * l), l)
           /\ Transfer!Advance(512 * l) = l
<1> DEFINE cmds == Transfer!Commands(512 * l)
           second == IF l * 512 <= 4096 THEN 0 ELSE 4096
<1>1. Transfer!Blocks(512 * l) = l
  BY DEF Transfer!Blocks, Transfer!BlockBytes
<1>2. cmds = [i \in {0} |-> [lba |-> lba, off |-> 0, blocks |-> l, ptr1 |-> second]]
  BY <1>1 DEF Transfer!Commands, Transfer!Command, Transfer!Ptr1, Transfer!BlockBytes, Transfer!PageBytes
<1>3. Transfer!Advance(512 * l) = l
  BY <1>1 DEF Transfer!Advance
<1> HIDE DEF cmds
<1>4. /\ DOMAIN cmds = {0} /\ cmds[0].lba = lba /\ cmds[0].off = 0 /\ cmds[0].blocks = l
      /\ cmds[0].ptr1 = second
  BY <1>2
<1>5. second = 0 => l <= 8
  OBVIOUS
<1>6. second # 0 => second = 4096
  OBVIOUS
<1> HIDE DEF second
<1>7. Within(cmds, l)
  BY <1>4 DEF Within
<1>8. ASSUME NEW b \in Int, Transfer!Covers(cmds[0], b)
      PROVE  Transfer!Location(cmds[0], b - cmds[0].lba) = 512 * (b - lba)
  <2>1. lba <= b /\ b < lba + l
    BY <1>4, <1>8 DEF Transfer!Covers
  <2>2. PICK k \in Nat : k = b - lba /\ k < l
    BY <2>1
  <2>3. Transfer!Location(cmds[0], k) =
           IF 0 + k * 512 < (0 \div 4096 + 1) * 4096 THEN 0 + k * 512
           ELSE IF second = 0 THEN -1 ELSE second + (0 + k * 512 - (0 \div 4096 + 1) * 4096)
    BY <1>4 DEF Transfer!Location, Transfer!BlockBytes, Transfer!PageBytes
  <2>4. Transfer!Location(cmds[0], k) = 512 * k
    BY <1>5, <1>6, <2>2, <2>3
  <2> QED
    BY <1>4, <2>2, <2>4
<1>9. Exact(cmds, l)
  <2>1. \A b \in lba .. lba + l - 1 : Transfer!Covers(cmds[0], b)
    BY <1>4 DEF Transfer!Covers
  <2> QED
    BY <1>4, <1>8, <2>1 DEF Exact
<1> QED
  BY <1>3, <1>4, <1>7, <1>9 DEF cmds

\* Dividing a chunk of l blocks into t parts.
LEMMA Parts ==
    ASSUME NEW l \in 1 .. 8, NEW t \in 1 .. l
    PROVE  \E q \in Nat, m \in 1 .. 8 :
              /\ q = (512 * l) \div t /\ m = q \div 512 /\ t * m <= l
              /\ l % t = 0 => t * m = l /\ q = 512 * m
<1>1. CASE t = 1
  BY <1>1
<1>2. CASE t = 2
  BY <1>2
<1>3. CASE t = 3
  BY <1>3
<1>4. CASE t = 4
  BY <1>4
<1>5. CASE t = 5
  BY <1>5
<1>6. CASE t = 6
  BY <1>6
<1>7. CASE t = 7
  BY <1>7
<1>8. CASE t = 8
  BY <1>8
<1> QED
  BY <1>1, <1>2, <1>3, <1>4, <1>5, <1>6, <1>7, <1>8

\* Part i of t parts of m blocks ends where the next one starts.
LEMMA PartEnds ==
    ASSUME NEW t \in Nat, NEW m \in Nat, NEW i \in 0 .. t - 1
    PROVE  i * m \in Nat /\ i * m + m <= t * m
<1>1. t - i - 1 \in Nat
  OBVIOUS
<1>2. (t - i - 1) * m \in Nat /\ i * m \in Nat /\ t * m \in Nat
  BY <1>1
<1>3. (t - i - 1) * m = t * m - i * m - m
  OBVIOUS
<1> QED
  BY <1>2, <1>3

\* Every block of the chunk is in one of its parts.
LEMMA PartOf ==
    ASSUME NEW t \in 1 .. 8, NEW m \in 1 .. 8, NEW d \in 0 .. t * m - 1
    PROVE  \E i \in 0 .. t - 1 : i * m <= d /\ d < i * m + m
<1> DEFINE Found(i) == i \in 0 .. t - 1 /\ i * m <= d /\ d < i * m + m
<1>1. CASE m = 1
  <2>1. Found(d \div 1)
    BY <1>1
  <2> QED
    BY <2>1
<1>2. CASE m = 2
  <2>1. Found(d \div 2)
    BY <1>2
  <2> QED
    BY <2>1
<1>3. CASE m = 3
  <2>1. Found(d \div 3)
    BY <1>3
  <2> QED
    BY <2>1
<1>4. CASE m = 4
  <2>1. Found(d \div 4)
    BY <1>4
  <2> QED
    BY <2>1, Zenon
<1>5. CASE m = 5
  <2>1. Found(d \div 5)
    BY <1>5
  <2> QED
    BY <2>1
<1>6. CASE m = 6
  <2>1. Found(d \div 6)
    BY <1>6
  <2> QED
    BY <2>1
<1>7. CASE m = 7
  <2>1. Found(d \div 7)
    BY <1>7
  <2> QED
    BY <2>1, Zenon
<1>8. CASE m = 8
  <2>1. Found(d \div 8)
    BY <1>8
  <2> QED
    BY <2>1
<1> QED
  BY <1>1, <1>2, <1>3, <1>4, <1>5, <1>6, <1>7, <1>8

\* A batch is t commands of m blocks each, or nearly.
LEMMA BatchedCommands ==
    ASSUME NEW l \in 1 .. 8, lba \in Int, call.kind = "batched", call.batch \in Nat \ {0}
    PROVE  /\ call.batch = 1 => DOMAIN Transfer!Commands(512 * l) = {0}
           /\ Within(Transfer!Commands(512 * l), l)
           /\ Transfer!Advance(512 * l) \in 0 .. l
           /\ l % Transfer!Smaller(call.batch, l) = 0 =>
                 Exact(Transfer!Commands(512 * l), l) /\ Transfer!Advance(512 * l) = l
<1> DEFINE cmds == Transfer!Commands(512 * l)
           t == Transfer!Smaller(call.batch, l)
<1>1. t \in 1 .. l /\ (call.batch = 1 => t = 1)
  BY DEF Transfer!Smaller
<1>2. (512 * l) \div 512 = l
  OBVIOUS
<1>3. Transfer!BatchLen(512 * l) = t
  BY <1>2 DEF Transfer!BatchLen, Transfer!BlockBytes
<1> HIDE DEF t
<1>4. PICK q \in Nat, m \in 1 .. 8 :
         /\ q = (512 * l) \div t /\ m = q \div 512 /\ t * m <= l
         /\ l % t = 0 => t * m = l /\ q = 512 * m
  BY <1>1, Parts
<1>5. Transfer!BatchBlocks(512 * l) = m
  BY <1>3, <1>4 DEF Transfer!BatchBlocks, Transfer!BlockBytes
<1>6. Transfer!Advance(512 * l) = t * m
  BY <1>3, <1>5 DEF Transfer!Advance
<1>7. m * 512 <= 4096
  OBVIOUS
<1>8. cmds = [i \in 0 .. t - 1 |-> [lba |-> lba + i * m, off |-> i * q, blocks |-> m, ptr1 |-> 0]]
  BY <1>3, <1>4, <1>5, <1>7
     DEF Transfer!Commands, Transfer!Command, Transfer!Ptr1, Transfer!BlockBytes, Transfer!PageBytes
<1> HIDE DEF cmds
<1>9. DOMAIN cmds = 0 .. t - 1 /\ \A i \in 0 .. t - 1 :
          /\ cmds[i].lba = lba + i * m /\ cmds[i].off = i * q /\ cmds[i].blocks = m /\ cmds[i].ptr1 = 0
  BY <1>8
<1>10. t \in Nat /\ t \in 1 .. 8 /\ m \in Nat
  BY <1>1
<1>11. \A i \in 0 .. t - 1 : i * m \in Nat /\ i * m + m <= t * m
  BY <1>10, PartEnds
<1>12. Within(cmds, l)
  <2>1. ASSUME NEW i \in 0 .. t - 1, NEW w \in Nat, w = i * m
        PROVE  /\ cmds[i].lba \in Int /\ cmds[i].blocks \in Nat
               /\ lba <= cmds[i].lba /\ cmds[i].lba + cmds[i].blocks <= lba + l
    <3>1. cmds[i].lba = lba + w /\ cmds[i].blocks = m
      BY <1>9, <2>1
    <3>2. w + m <= l
      <4>1. PICK v \in Nat : v = t * m
        BY <1>10
      <4>2. w + m <= v /\ v <= l
        BY <1>4, <1>11, <2>1, <4>1
      <4> QED
        BY <4>2
    <3> QED
      BY <3>1, <3>2
  <2> QED
    BY <1>9, <1>11, <2>1 DEF Within
<1>13. t * m \in 0 .. l
  BY <1>4, <1>10
<1>14. call.batch = 1 => DOMAIN cmds = {0}
  BY <1>1, <1>9
<1>15. ASSUME l % t = 0 PROVE Exact(cmds, l)
  <2>1. t * m = l /\ q = 512 * m
    BY <1>4, <1>15
  <2>2. ASSUME NEW b \in lba .. lba + l - 1 PROVE \E i \in DOMAIN cmds : Transfer!Covers(cmds[i], b)
    <3>1. b - lba \in 0 .. t * m - 1
      BY <2>1, <2>2
    <3>2. PICK i \in 0 .. t - 1 : i * m <= b - lba /\ b - lba < i * m + m
      BY <1>10, <3>1, PartOf, Zenon
    <3>3. PICK w \in Nat : w = i * m
      BY <1>11
    <3>4. cmds[i].lba = lba + w /\ cmds[i].blocks = m /\ w <= b - lba /\ b - lba < w + m
      BY <1>9, <3>2, <3>3
    <3>5. cmds[i].lba <= b /\ b < cmds[i].lba + cmds[i].blocks
      BY <3>4
    <3> QED
      BY <1>9, <3>2, <3>5, Zenon DEF Transfer!Covers
  <2>3. ASSUME NEW i \in 0 .. t - 1, NEW b \in Int, Transfer!Covers(cmds[i], b)
        PROVE  Transfer!Location(cmds[i], b - cmds[i].lba) = 512 * (b - lba)
    <3>1. PICK w \in Nat : w = i * m
      BY <1>11
    <3>2. cmds[i].lba = lba + w /\ cmds[i].blocks = m /\ cmds[i].ptr1 = 0 /\ cmds[i].off = i * q
      BY <1>9, <3>1
    <3>3. i * q = 512 * w
      BY <2>1, <3>1
    <3>4. w + m <= 8
      BY <1>11, <2>1, <3>1
    <3>5. lba + w <= b /\ b < lba + w + m
      BY <2>3, <3>2 DEF Transfer!Covers
    <3>6. PICK k \in Nat : k = b - (lba + w) /\ k < m
      BY <3>5
    <3>7. Transfer!Location(cmds[i], k) =
             IF 512 * w + k * 512 < ((512 * w) \div 4096 + 1) * 4096 THEN 512 * w + k * 512 ELSE -1
      BY <3>2, <3>3 DEF Transfer!Location, Transfer!BlockBytes, Transfer!PageBytes
    <3>8. Transfer!Location(cmds[i], k) = 512 * (w + k)
      BY <3>4, <3>6, <3>7
    <3> QED
      BY <3>2, <3>6, <3>8
  <2> QED
    BY <1>9, <2>2, <2>3 DEF Exact
<1>16. ASSUME l % t = 0 PROVE t * m = l
  BY <1>4, <1>16
<1> QED
  BY <1>6, <1>12, <1>13, <1>14, <1>15, <1>16 DEF cmds, t

\* The next chunk is the l blocks behind the first p of n.
ChunkOf(n, p, l) ==
    /\ n \in Nat /\ p \in Nat /\ l \in Nat \ {0} /\ p + l <= n
    /\ position = 512 * p /\ p % 8 = 0
    /\ DOMAIN memory = 0 .. n - 1
    /\ call.kind = "batched" => n = call.size /\ ((l = 8 /\ n - p >= 8) \/ (l < 8 /\ l = n - p))

\* A block that is written is one of the chunk.
LEMMA WrittenWithin ==
    ASSUME NEW cmds, NEW l \in Nat, Within(cmds, l), lba \in Int,
           NEW b \in Transfer!Block, b \in Int, Transfer!Written(cmds)[b] # disk[b]
    PROVE  b \in lba .. lba + l - 1
<1>1. PICK i \in DOMAIN cmds : Transfer!Covers(cmds[i], b)
  BY DEF Transfer!Written
<1> QED
  BY <1>1 DEF Within, Transfer!Covers

\* The commands of an exact cut that all succeed move every block of the chunk.
LEMMA SucceedWithin ==
    ASSUME Transfer!TransferAssumption, NEW cmds, NEW l \in Nat, Within(cmds, l), Exact(cmds, l),
           lba \in Nat, \A i \in DOMAIN cmds : Transfer!Succeeds(cmds[i]),
           NEW d \in 0 .. l - 1
    PROVE  /\ lba + d \in Transfer!Block
           /\ \E i \in DOMAIN cmds : Transfer!Succeeds(cmds[i]) /\ Transfer!Covers(cmds[i], lba + d)
<1>1. lba + d \in lba .. lba + l - 1
  OBVIOUS
<1>2. PICK i \in DOMAIN cmds : Transfer!Covers(cmds[i], lba + d)
  BY <1>1 DEF Exact
<1>3. /\ cmds[i].lba \in Int /\ cmds[i].blocks \in Nat
      /\ lba + d < cmds[i].lba + cmds[i].blocks /\ cmds[i].lba + cmds[i].blocks <= Capacity
  BY <1>2 DEF Transfer!Covers, Transfer!Succeeds, Within
<1>4. Capacity \in Nat
  BY DEF Transfer!TransferAssumption
<1> QED
  BY <1>2, <1>3, <1>4 DEF Transfer!Block

LEMMA WrittenExact ==
    ASSUME Transfer!TransferAssumption, NEW n, NEW p, NEW l, ChunkOf(n, p, l),
           NEW cmds, Within(cmds, l), Exact(cmds, l), lba \in Nat,
           \A i \in DOMAIN cmds : Transfer!Succeeds(cmds[i]),
           NEW d \in 0 .. l - 1
    PROVE  Transfer!Written(cmds)[lba + d] = memory[p + d]
<1> USE DEF ChunkOf
<1> DEFINE b == lba + d
           P(i) == Transfer!Succeeds(cmds[i]) /\ Transfer!Covers(cmds[i], b)
           i == CHOOSE j \in DOMAIN cmds : P(j)
<1>1. b \in Transfer!Block /\ b \in Int /\ b - lba = d /\ \E j \in DOMAIN cmds : P(j)
  <2>1. l \in Nat
    OBVIOUS
  <2>2. b \in Int /\ b - lba = d
    BY <2>1
  <2> QED
    BY <2>1, <2>2, SucceedWithin, Zenon
<1>2. i \in DOMAIN cmds /\ P(i)
  BY <1>1
<1>3. Transfer!Written(cmds)[b] = Transfer!Fetch(Transfer!Location(cmds[i], b - cmds[i].lba))
  BY <1>1 DEF Transfer!Written
<1>4. Transfer!Location(cmds[i], b - cmds[i].lba) = 512 * (b - lba)
  BY <1>1, <1>2 DEF Exact
<1> HIDE DEF i
<1>5. Transfer!Written(cmds)[b] = Transfer!Fetch(512 * d)
  BY <1>1, <1>3, <1>4
<1>6. /\ 512 * d >= 0 /\ (512 * d) % 512 = 0 /\ (position + 512 * d) \div 512 = p + d
      /\ p + d \in DOMAIN memory
  OBVIOUS
<1>7. Transfer!Fetch(512 * d) = memory[p + d]
  BY <1>6 DEF Transfer!Fetch, Transfer!BlockBytes
<1> QED
  BY <1>5, <1>7

LEMMA LoadedExact ==
    ASSUME Transfer!TransferAssumption, NEW n, NEW p, NEW l, ChunkOf(n, p, l),
           NEW cmds, Within(cmds, l), Exact(cmds, l), lba \in Nat,
           \A i \in DOMAIN cmds : Transfer!Succeeds(cmds[i])
    PROVE  /\ \A d \in 0 .. l - 1 : Transfer!Loaded(cmds, 512 * l)[p + d] = disk[lba + d]
           /\ \A j \in 0 .. p - 1 : Transfer!Loaded(cmds, 512 * l)[j] = memory[j]
<1> USE DEF ChunkOf
<1>1. ASSUME NEW d \in 0 .. l - 1 PROVE Transfer!Loaded(cmds, 512 * l)[p + d] = disk[lba + d]
  <2>1. /\ p + d \in DOMAIN memory /\ (p + d) * 512 - position = 512 * d
        /\ 512 * d \in 0 .. 512 * l - 1 /\ lba + d \in Int /\ (lba + d) - lba = d
    OBVIOUS
  <2>2. PICK i \in DOMAIN cmds : Transfer!Succeeds(cmds[i]) /\ Transfer!Covers(cmds[i], lba + d)
    BY SucceedWithin, Zenon
  <2>3. lba + d \in Transfer!Block
    BY SucceedWithin, Zenon
  <2>4. Transfer!Location(cmds[i], (lba + d) - cmds[i].lba) = 512 * d
    BY <2>1, <2>2 DEF Exact
  <2>5. disk[lba + d] \in Transfer!Landing(cmds, 512 * d)
    BY <2>2, <2>3, <2>4, Zenon DEF Transfer!Landing
  <2>6. ASSUME NEW x \in Transfer!Block, NEW k \in DOMAIN cmds, Transfer!Covers(cmds[k], x),
               Transfer!Location(cmds[k], x - cmds[k].lba) = 512 * d
        PROVE  x = lba + d
    <3>1. x \in Int
      BY DEF Transfer!Block
    <3>2. 512 * (x - lba) = 512 * d
      BY <2>6, <3>1, SMTT(30) DEF Exact
    <3> QED
      BY <3>1, <3>2
  <2>7. Transfer!Landing(cmds, 512 * d) = {disk[lba + d]}
    BY <2>5, <2>6 DEF Transfer!Landing
  <2>8. (CHOOSE v \in Transfer!Landing(cmds, 512 * d) : TRUE) = disk[lba + d]
    BY <2>7
  <2> HIDE DEF ChunkOf
  <2> QED
    BY <2>1, <2>7, <2>8 DEF Transfer!Loaded, Transfer!BlockBytes
<1>2. ASSUME NEW j \in 0 .. p - 1 PROVE Transfer!Loaded(cmds, 512 * l)[j] = memory[j]
  <2>1. j \in DOMAIN memory /\ j * 512 - position \notin 0 .. 512 * l - 1
    OBVIOUS
  <2> QED
    BY <2>1 DEF Transfer!Loaded, Transfer!BlockBytes
<1> QED
  BY <1>1, <1>2

\* A chunk that does not fail has moved by commands that all succeeded, if there
\* is one command or if the blocks are good.
LEMMA AllSucceed ==
    ASSUME Transfer!TransferAssumption, NEW cmds, NEW l \in Nat, Within(cmds, l), lba \in Nat,
           NEW n \in Nat \ {0}, Transfer!BytesOf(call) \div 512 = n, call.lba \in Nat,
           call.lba <= lba, lba + l <= call.lba + n,
           \/ DOMAIN cmds = {0} /\ ~Transfer!ChunkFailed(cmds)
           \/ Transfer!Target \subseteq Transfer!Block \ BadBlock
    PROVE  \A i \in DOMAIN cmds : Transfer!Succeeds(cmds[i])
<1>1. CASE DOMAIN cmds = {0} /\ ~Transfer!ChunkFailed(cmds)
  <2>1. Transfer!Succeeds(cmds[0])
    BY <1>1 DEF Transfer!ChunkFailed
  <2> QED
    BY <1>1, <2>1
<1>2. CASE Transfer!Target \subseteq Transfer!Block \ BadBlock
  <2>1. Transfer!Target = call.lba .. call.lba + n - 1
    BY DEF Transfer!Target, Transfer!BlockBytes
  <2>2. call.lba + n - 1 \in Transfer!Target
    BY <2>1
  <2>3. Capacity \in Nat /\ BadBlock \subseteq Int
    BY DEF Transfer!TransferAssumption
  <2>4. call.lba + n <= Capacity
    BY <1>2, <2>2, <2>3 DEF Transfer!Block
  <2>5. ASSUME NEW i \in DOMAIN cmds PROVE Transfer!Succeeds(cmds[i])
    <3>1. /\ cmds[i].lba \in Int /\ cmds[i].blocks \in Nat
          /\ lba <= cmds[i].lba /\ cmds[i].lba + cmds[i].blocks <= lba + l
      BY DEF Within
    <3>2. cmds[i].lba + cmds[i].blocks <= Capacity
      BY <2>3, <2>4, <3>1
    <3>3. ASSUME NEW b \in BadBlock, Transfer!Covers(cmds[i], b) PROVE FALSE
      <4>1. b \in Int /\ cmds[i].lba <= b /\ b < cmds[i].lba + cmds[i].blocks
        BY <2>3, <3>3 DEF Transfer!Covers
      <4>2. b \in Transfer!Target
        BY <2>1, <3>1, <4>1, SMTT(30)
      <4> QED
        BY <1>2, <3>3, <4>2
    <3> QED
      BY <3>2, <3>3 DEF Transfer!Succeeds
  <2> QED
    BY <2>5
<1> QED
  BY <1>1, <1>2

\* The chunks of a call with even batches are even.
LEMMA EvenChunk ==
    ASSUME NEW n, NEW p, NEW l, ChunkOf(n, p, l), call.kind = "batched", call.batch \in Nat \ {0},
           Transfer!EvenBatches
    PROVE  l % Transfer!Smaller(call.batch, l) = 0
<1> USE DEF ChunkOf
<1>1. CASE l = 8
  <2>1. ~(n < 8)
    BY <1>1
  <2>2. 8 \in {8, call.size % 8} \ (IF call.size < 8 THEN {0, 8} ELSE {0})
    BY <2>1
  <2> QED
    BY <1>1, <2>2 DEF Transfer!EvenBatches
<1>2. CASE l < 8
  <2>1. n % 8 = l
    BY <1>2
  <2>2. l \in {8, call.size % 8} \ (IF call.size < 8 THEN {0, 8} ELSE {0})
    BY <1>2, <2>1
  <2> QED
    BY <2>2 DEF Transfer!EvenBatches
<1> QED
  BY <1>1, <1>2

\* How a chunk is cut, whatever the call.
LEMMA ChunkCut ==
    ASSUME Transfer!TransferAssumption, call \in Transfer!Call, lba \in Int,
           NEW n, NEW p, NEW l, ChunkOf(n, p, l), l <= 16
    PROVE  /\ Within(Transfer!Commands(512 * l), l)
           /\ Transfer!Advance(512 * l) \in 0 .. l
           /\ Transfer!EvenBatches => Exact(Transfer!Commands(512 * l), l) /\ Transfer!Advance(512 * l) = l
           /\ Transfer!StatusSeen => \/ DOMAIN Transfer!Commands(512 * l) = {0}
                                     \/ Transfer!Target \subseteq Transfer!Block \ BadBlock
<1>1. call.batch \in Nat \ {0} /\ l \in 1 .. 16
  <2>1. call.batch \in Nat \ {0}
    BY Zenon DEF Transfer!TransferAssumption, Transfer!Call
  <2> QED
    BY <2>1 DEF ChunkOf
<1>2. CASE call.kind = "batched"
  <2>1. l \in 1 .. 8
    BY <1>2 DEF ChunkOf
  <2>2. Transfer!EvenBatches => l % Transfer!Smaller(call.batch, l) = 0
    BY <1>1, <1>2, <2>1, EvenChunk
  <2>3. Transfer!StatusSeen /\ call.batch # 1 => Transfer!Target \subseteq Transfer!Block \ BadBlock
    BY <1>1, <1>2 DEF Transfer!StatusSeen
  <2> QED
    BY <1>1, <1>2, <2>1, <2>2, <2>3, BatchedCommands
<1>3. CASE call.kind # "batched"
  BY <1>1, <1>3, SingleCommand
<1> QED
  BY <1>2, <1>3

\* chunk moves l blocks more.
LEMMA ChunkStep ==
    ASSUME Transfer!TransferAssumption, TransferInv, Transfer!chunk
    PROVE  TransferInv'
<1> USE DEF TransferInv
<1>1. /\ outcome = "running" /\ position < Transfer!BytesOf(call) /\ UNCHANGED <<call, before, calls>>
      /\ calls > 0 /\ call \in Transfer!Call
  BY DEF Transfer!chunk
<1>2. PICK p \in Nat : Reached(p)
  BY <1>1
<1>3. PICK n \in Nat \ {0} : /\ Transfer!BytesOf(call) = 512 * n
                             /\ Transfer!BytesOf(call) \div 512 = n
                             /\ call.kind = "batched" => n = call.size
  BY <1>1, BytesAreBlocks
<1>4. /\ position = 512 * p /\ p < n /\ p % 8 = 0 /\ DOMAIN memory = 0 .. n - 1
      /\ lba \in call.lba .. call.lba + p
  BY <1>1, <1>2, <1>3 DEF Reached
<1>5. PICK l \in Nat \ {0} :
         /\ Transfer!ChunkLen = 512 * l
         /\ p + l <= n
         /\ (p + l) % 8 = 0 \/ p + l = n
         /\ call.kind = "batched" => (l = 8 /\ n - p >= 8) \/ (l < 8 /\ l = n - p)
         /\ l <= 16 \/ Transfer!Overruns(Transfer!ChunkLen)
  BY <1>3, <1>4, ChunkIs, SMTT(30)
<1>6. /\ call.lba \in Nat /\ lba \in Nat /\ call.lba <= lba /\ lba <= call.lba + p
      /\ lba \in Int /\ n \in Nat /\ l \in Nat /\ p + l <= n /\ ChunkOf(n, p, l)
  <2>1. call.lba \in Nat
    BY <1>1 DEF Transfer!TransferAssumption, Transfer!Call
  <2>2. lba \in call.lba .. call.lba + p
    BY <1>4
  <2>3. lba \in Nat /\ lba \in Int /\ call.lba <= lba /\ lba <= call.lba + p
    BY <2>1, <2>2
  <2>4. n \in Nat /\ l \in Nat
    OBVIOUS
  <2>5. p + l <= n /\ ChunkOf(n, p, l)
    BY <1>3, <1>4, <1>5, <2>4, ZenonT(30) DEF ChunkOf
  <2> QED
    BY <2>1, <2>3, <2>4, <2>5
<1>7. Transfer!Target = call.lba .. call.lba + n - 1
  BY <1>3 DEF Transfer!Target, Transfer!BlockBytes
<1>8. CASE Transfer!Overruns(512 * l) /\ outcome' = "panicked" /\ UNCHANGED <<disk, memory, position, lba>>
  BY <1>1, <1>8 DEF Transfer!OutsideUntouched, Transfer!Target, Transfer!BytesOf, Transfer!RoundUp
<1> DEFINE cmds == Transfer!Commands(512 * l)
<1>9. ASSUME ~Transfer!Overruns(512 * l),
             disk' = IF call.write THEN Transfer!Written(cmds) ELSE disk,
             memory' = IF call.write \/ (Transfer!ChunkFailed(cmds) /\ Transfer!Staged) THEN memory
                       ELSE Transfer!Loaded(cmds, 512 * l),
             position' = position + 512 * l,
             lba' = lba + Transfer!Advance(512 * l),
             outcome' = IF Transfer!ChunkFailed(cmds) THEN "panicked" ELSE "running"
      PROVE  TransferInv'
  <2>1. l <= 16 /\ l \in 1 .. 16
    BY <1>5, <1>9
  <2>2. /\ Within(cmds, l)
        /\ Transfer!Advance(512 * l) \in 0 .. l
        /\ Transfer!EvenBatches => Exact(cmds, l) /\ Transfer!Advance(512 * l) = l
        /\ Transfer!StatusSeen => DOMAIN cmds = {0} \/ Transfer!Target \subseteq Transfer!Block \ BadBlock
    BY <1>1, <1>6, <2>1, ChunkCut
  <2> HIDE DEF cmds
  <2>3. disk' = [b \in Transfer!Block |-> disk'[b]]
    BY <1>9, Zenon DEF Transfer!Written
  <2>4. \A b \in Transfer!Block : disk'[b] # disk[b] => call.write /\ b \in lba .. lba + l - 1
    <3>1. \A b \in Transfer!Block : b \in Int
      BY DEF Transfer!Block
    <3> QED
      BY <1>6, <1>9, <2>1, <2>2, <3>1, WrittenWithin
  <2>5. Transfer!OutsideUntouched'
    <3>1. lba .. lba + l - 1 \subseteq Transfer!Target
      <4>1. ASSUME NEW b \in lba .. lba + l - 1 PROVE b \in call.lba .. call.lba + n - 1
        BY <1>6
      <4> QED
        BY <1>7, <4>1
    <3>2. Transfer!Target' = Transfer!Target
      BY <1>1 DEF Transfer!Target, Transfer!BytesOf, Transfer!RoundUp
    <3>3. \A b \in Transfer!Block : disk'[b] # before[b] => call.write /\ b \in Transfer!Target
      BY <1>1, <2>4, <3>1 DEF Transfer!OutsideUntouched
    <3> QED
      BY <1>1, <3>2, <3>3 DEF Transfer!OutsideUntouched
  <2>6. CASE Transfer!ChunkFailed(cmds)
    BY <1>1, <1>9, <2>3, <2>5, <2>6
  <2>7. CASE ~Transfer!ChunkFailed(cmds)
    <3>1. outcome' = "running" /\ memory' = IF call.write THEN memory ELSE Transfer!Loaded(cmds, 512 * l)
      BY <1>9, <2>7
    <3>2. Transfer!BytesOf(call)' = 512 * n /\ (512 * n) \div 512 = n
      BY <1>1, <1>3 DEF Transfer!BytesOf, Transfer!RoundUp
    <3>3. position' = 512 * (p + l) /\ p + l \in Nat /\ 512 * (p + l) <= 512 * n
      <4>1. position' = 512 * p + 512 * l
        BY <1>4, <1>9
      <4> QED
        BY <1>6, <4>1
    <3>4. (p + l) % 8 = 0 \/ 512 * (p + l) = 512 * n
      BY <1>5
    <3>5. lba' \in call.lba .. call.lba + (p + l)
      BY <1>6, <1>9, <2>2
    <3>6. DOMAIN memory' = 0 .. n - 1
      BY <1>4, <3>1 DEF Transfer!Loaded
    <3>7. ASSUME Transfer!EvenBatches, Transfer!StatusSeen
          PROVE  /\ lba' = call.lba + (p + l)
                 /\ \A j \in 0 .. p + l - 1 :
                       call.lba + j \in Transfer!Block /\ disk'[call.lba + j] = memory'[j]
      <4>1. /\ Exact(cmds, l) /\ Transfer!Advance(512 * l) = l /\ lba = call.lba + p
            /\ \A j \in 0 .. p - 1 : call.lba + j \in Transfer!Block /\ disk[call.lba + j] = memory[j]
        BY <1>2, <2>2, <3>7 DEF Reached
      <4>2. lba' = call.lba + (p + l)
        BY <1>6, <1>9, <4>1
      <4>3. \A i \in DOMAIN cmds : Transfer!Succeeds(cmds[i])
        <5>1. lba + l <= call.lba + n
          BY <1>5, <1>6
        <5> QED
          BY <1>3, <1>6, <2>2, <2>7, <3>7, <5>1, AllSucceed
      <4>4. ASSUME NEW j \in 0 .. p - 1
            PROVE  call.lba + j \in Transfer!Block /\ disk'[call.lba + j] = memory'[j]
        <5>1. call.lba + j \notin lba .. lba + l - 1
          BY <1>6, <4>1
        <5>2. disk'[call.lba + j] = disk[call.lba + j]
          BY <2>4, <4>1, <5>1
        <5>3. Transfer!Loaded(cmds, 512 * l)[j] = memory[j]
          BY <1>6, <2>2, <4>1, <4>3, LoadedExact
        <5>4. memory'[j] = memory[j]
          BY <3>1, <5>3
        <5> QED
          BY <4>1, <5>2, <5>4
      <4>5. ASSUME NEW d \in 0 .. l - 1
            PROVE  lba + d \in Transfer!Block /\ disk'[lba + d] = memory'[p + d]
        <5>1. lba + d \in Transfer!Block
          BY <1>6, <2>2, <4>1, <4>3, SucceedWithin
        <5>2. CASE call.write
          <6>1. Transfer!Written(cmds)[lba + d] = memory[p + d]
            BY <1>6, <2>2, <4>1, <4>3, WrittenExact
          <6> QED
            BY <1>9, <3>1, <5>1, <5>2, <6>1
        <5>3. CASE ~call.write
          <6>1. Transfer!Loaded(cmds, 512 * l)[p + d] = disk[lba + d]
            BY <1>6, <2>2, <4>1, <4>3, LoadedExact
          <6> QED
            BY <1>9, <3>1, <5>1, <5>3, <6>1
        <5> QED
          BY <5>2, <5>3, <5>1
      <4>6. ASSUME NEW j \in 0 .. p + l - 1, ~(j \in 0 .. p - 1)
            PROVE  call.lba + j \in Transfer!Block /\ disk'[call.lba + j] = memory'[j]
        <5>1. PICK d \in 0 .. l - 1 : j = p + d /\ call.lba + j = lba + d
          <6>1. j - p \in 0 .. l - 1 /\ j = p + (j - p) /\ call.lba + j = lba + (j - p)
            BY <1>6, <4>1, <4>6
          <6> QED
            BY <6>1
        <5> QED
          BY <4>5, <5>1
      <4> QED
        BY <4>2, <4>4, <4>6
    <3>8. (Transfer!EvenBatches' <=> Transfer!EvenBatches) /\ (Transfer!StatusSeen' <=> Transfer!StatusSeen)
      BY <1>1 DEF Transfer!EvenBatches, Transfer!StatusSeen, Transfer!Target, Transfer!BytesOf, Transfer!RoundUp
    <3>9. Reached(p + l)'
      BY <1>1, <3>1, <3>2, <3>3, <3>4, <3>5, <3>6, <3>7, <3>8 DEF Reached
    <3> QED
      BY <1>1, <2>3, <2>5, <3>1, <3>3, <3>9
  <2> QED
    BY <2>6, <2>7
<1> QED
  BY <1>5, <1>8, <1>9 DEF Transfer!chunk

LEMMA StartStep ==
    ASSUME Transfer!TransferAssumption, TransferInv, NEW c \in Transfer!Call, Transfer!start(c)
    PROVE  TransferInv'
<1> USE DEF TransferInv
<1>1. /\ call' = c /\ memory' = Transfer!DataOf(c, calls + 1) /\ position' = 0 /\ lba' = c.lba
      /\ outcome' = "running" /\ before' = disk /\ calls' = calls + 1 /\ disk' = disk
  BY DEF Transfer!start
<1>2. PICK n \in Nat \ {0} : Transfer!BytesOf(c) = 512 * n
  BY BytesAreBlocks
<1>3. c.lba \in Int /\ c.lba \in c.lba .. c.lba + 0
  BY DEF Transfer!TransferAssumption, Transfer!Call
<1>4. Transfer!BytesOf(call)' = Transfer!BytesOf(c)
  BY <1>1 DEF Transfer!BytesOf, Transfer!RoundUp
<1>5. DOMAIN memory' = 0 .. Transfer!BytesOf(c) \div 512 - 1
  BY <1>1 DEF Transfer!DataOf, Transfer!BlockBytes
<1>6. position' = 512 * 0 /\ 0 <= 512 * n /\ 0 % 8 = 0 /\ \A j \in 0 .. 0 - 1 : FALSE
  BY <1>1
<1>7. Reached(0)'
  BY <1>1, <1>2, <1>3, <1>4, <1>5, <1>6 DEF Reached
<1>8. Transfer!OutsideUntouched'
  BY <1>1 DEF Transfer!OutsideUntouched
<1> QED
  BY <1>1, <1>7, <1>8

LEMMA ReturnStep ==
    ASSUME Transfer!TransferAssumption, TransferInv, Transfer!return
    PROVE  TransferInv'
<1> USE DEF TransferInv
<1>1. /\ outcome = "running" /\ position >= Transfer!BytesOf(call) /\ outcome' = "returned" /\ calls > 0
      /\ UNCHANGED <<disk, memory, call, position, lba, before, calls>>
  BY DEF Transfer!return
<1>2. PICK p \in Nat : Reached(p)
  BY <1>1
<1>3. PICK n \in Nat \ {0} : Transfer!BytesOf(call) = 512 * n
  BY <1>1, BytesAreBlocks
<1>4. position = Transfer!BytesOf(call)
  BY <1>1, <1>2, <1>3 DEF Reached
<1>5. Transfer!BytesOf(call)' = Transfer!BytesOf(call) /\ Transfer!Target' = Transfer!Target
  BY <1>1 DEF Transfer!BytesOf, Transfer!RoundUp, Transfer!Target
<1>6. (Transfer!EvenBatches' <=> Transfer!EvenBatches) /\ (Transfer!StatusSeen' <=> Transfer!StatusSeen)
  BY <1>1, <1>5 DEF Transfer!EvenBatches, Transfer!StatusSeen
<1>7. Reached(p)'
  BY <1>1, <1>2, <1>4, <1>5, <1>6 DEF Reached
<1>8. Transfer!OutsideUntouched'
  BY <1>1, <1>5 DEF Transfer!OutsideUntouched
<1> QED
  BY <1>1, <1>7, <1>8

\* TransferInv holds from the start and through every chunk.
THEOREM TransferSound == Transfer!TransferAssumption => (Transfer!Spec => []TransferInv)
<1> SUFFICES ASSUME Transfer!TransferAssumption
             PROVE  Transfer!Spec => []TransferInv
  OBVIOUS
<1>1. Transfer!Init => TransferInv
  BY DEF Transfer!Init, TransferInv, Transfer!OutsideUntouched
<1>2. TransferInv /\ [Transfer!Next]_Transfer!vars => TransferInv'
  <2>1. ASSUME TransferInv, UNCHANGED Transfer!vars PROVE TransferInv'
    <3>1. UNCHANGED <<disk, memory, call, position, lba, outcome, before, calls>>
      BY <2>1 DEF Transfer!vars
    <3>2. Transfer!BytesOf(call)' = Transfer!BytesOf(call) /\ Transfer!Target' = Transfer!Target
      BY <3>1 DEF Transfer!BytesOf, Transfer!RoundUp, Transfer!Target
    <3>3. (Transfer!EvenBatches' <=> Transfer!EvenBatches) /\ (Transfer!StatusSeen' <=> Transfer!StatusSeen)
      BY <3>1, <3>2 DEF Transfer!EvenBatches, Transfer!StatusSeen
    <3>4. ASSUME NEW p \in Nat, Reached(p) PROVE Reached(p)'
      BY <3>1, <3>2, <3>3, <3>4 DEF Reached
    <3>5. Transfer!OutsideUntouched'
      BY <2>1, <3>1, <3>2 DEF TransferInv, Transfer!OutsideUntouched
    <3> QED
      BY <2>1, <3>1, <3>4, <3>5 DEF TransferInv
  <2> QED
    BY <2>1, ChunkStep, StartStep, ReturnStep DEF Transfer!Next
<1> QED
  BY <1>1, <1>2, PTL DEF Transfer!Spec

\* A call has changed no block of the disk outside the ones it is about, and a
\* read none, at any time and however its chunks and batches are cut (read, write,
\* read_copied, write_copied, batched_read, batched_write, read_block, write_block).
THEOREM TransferStaysInside == Transfer!TransferAssumption => (Transfer!Spec => []Transfer!OutsideUntouched)
<1>1. TransferInv => Transfer!OutsideUntouched
  BY DEF TransferInv
<1> QED
  BY <1>1, TransferSound, PTL

LEMMA TransferDone ==
    ASSUME Transfer!TransferAssumption, TransferInv
    PROVE  Transfer!ReturnMeansDone
<1> USE DEF TransferInv
<1> SUFFICES ASSUME Transfer!Finished, Transfer!EvenBatches, Transfer!StatusSeen, NEW b \in Transfer!Asked
             PROVE  b \in Transfer!Block /\ disk[b] = memory[b - call.lba]
  BY DEF Transfer!ReturnMeansDone
<1>1. outcome = "returned" /\ calls > 0 /\ call \in Transfer!Call
  BY DEF Transfer!Finished
<1>2. PICK p \in Nat : Reached(p)
  BY <1>1
<1>3. PICK n \in Nat \ {0} : Transfer!BytesOf(call) = 512 * n /\ Transfer!BytesOf(call) \div 512 = n
  BY <1>1, BytesAreBlocks
<1>4. p = n /\ \A j \in 0 .. p - 1 : call.lba + j \in Transfer!Block /\ disk[call.lba + j] = memory[j]
  BY <1>1, <1>2, <1>3 DEF Reached
<1>5. call.lba \in Int
  BY <1>1 DEF Transfer!TransferAssumption, Transfer!Call
<1>6. b \in call.lba .. call.lba + n - 1
  BY <1>3, <1>5 DEF Transfer!Asked, Transfer!Target, Transfer!BlockBytes
<1>7. b - call.lba \in 0 .. p - 1 /\ call.lba + (b - call.lba) = b
  BY <1>4, <1>5, <1>6
<1> QED
  BY <1>4, <1>7

\* A call that returns has moved every block to or from the block of the disk at
\* the same distance from lba, whatever chunks, pages and batches it was cut
\* into, if the batches are even and their failures are seen (the same calls).
THEOREM TransferCorrect == Transfer!TransferAssumption => (Transfer!Spec => []Transfer!ReturnMeansDone)
<1> SUFFICES ASSUME Transfer!TransferAssumption
             PROVE  Transfer!Spec => []Transfer!ReturnMeansDone
  OBVIOUS
<1>1. TransferInv => Transfer!ReturnMeansDone
  BY TransferDone
<1>2. Transfer!Spec => []TransferInv
  BY TransferSound
<1> QED
  BY <1>1, <1>2, PTL
-----------------------------------------------------------------------------
(***************************************************************************)
(* The scancodes of the PS/2 keyboard, which share the port with the bytes *)
(* of the mouse that Mouse::init polls during the boot.                    *)
(***************************************************************************)
CONSTANTS Kinds, Reports, Keys, MaxInputs, MaxTries, SCANCODE_QUEUE_SIZE

VARIABLES
    kind, streaming, mouse_id, rates, received, to_send, out, last, latched, enabled, command, init_stage, tries,
    mouse_type, current_packet_index, current_state, delivered, queue, taken, dropped, sent, typed, disturbed,
    agreed, overlap

Port == INSTANCE Ps2 WITH id <- mouse_id, pc <- command, stage <- init_stage

Keyboard == Port!Keyboard

\* The line has the keys typed, in their order and each one once, but for d that
\* were dropped: place g[i] of the keys is at place i of the line.
InLine(g, line, keys) ==
    /\ g \in [1 .. Len(line) -> 1 .. Len(keys)]
    /\ \A i, j \in 1 .. Len(line) : i < j => g[i] < g[j]
    /\ \A i \in 1 .. Len(line) : line[i] = keys[g[i]]

Ordered(line, keys, d) ==
    /\ line \in Seq(Int)
    /\ Len(line) + d = Len(keys)
    /\ \E g : InLine(g, line, keys)

\* One more key.
LEMMA OrderedPress ==
    ASSUME NEW keys \in Seq(Int), NEW d \in Nat, NEW line, Ordered(line, keys, d), NEW key \in Int
    PROVE  Ordered(Append(line, key), Append(keys, key), d)
<1> DEFINE new == Append(line, key)
           all == Append(keys, key)
<1>1. PICK g : InLine(g, line, keys)
  BY DEF Ordered
<1>2. /\ line \in Seq(Int) /\ Len(line) \in Nat /\ Len(line) + d = Len(keys) /\ Len(keys) \in Nat
      /\ g \in [1 .. Len(line) -> 1 .. Len(keys)]
      /\ \A i, j \in 1 .. Len(line) : i < j => g[i] < g[j]
      /\ \A i \in 1 .. Len(line) : line[i] = keys[g[i]]
  BY <1>1 DEF Ordered, InLine
<1>3. /\ new \in Seq(Int) /\ Len(new) = Len(line) + 1 /\ new[Len(line) + 1] = key
      /\ \A i \in 1 .. Len(line) : new[i] = line[i]
  BY <1>2
<1>4. /\ all \in Seq(Int) /\ Len(all) = Len(keys) + 1 /\ all[Len(keys) + 1] = key
      /\ \A i \in 1 .. Len(keys) : all[i] = keys[i]
  OBVIOUS
<1> DEFINE h == [i \in 1 .. Len(new) |-> IF i = Len(line) + 1 THEN Len(keys) + 1 ELSE g[i]]
<1> HIDE DEF new, all
<1>5. /\ Len(line) \in Nat /\ Len(keys) \in Nat /\ Len(line) + d = Len(keys)
       /\ Len(new) = Len(line) + 1 /\ Len(all) = Len(keys) + 1
  BY <1>2, <1>3, <1>4
<1>6. ASSUME NEW i \in 1 .. Len(new)
      PROVE  \/ i \in 1 .. Len(line) /\ h[i] = g[i] /\ g[i] \in 1 .. Len(keys)
             \/ i = Len(line) + 1 /\ h[i] = Len(keys) + 1
  <2>1. i = Len(line) + 1 \/ (i \in 1 .. Len(line) /\ i # Len(line) + 1)
    BY <1>5
  <2>2. h[i] = IF i = Len(line) + 1 THEN Len(keys) + 1 ELSE g[i]
    OBVIOUS
  <2>3. i \in 1 .. Len(line) => g[i] \in 1 .. Len(keys)
    BY <1>2, Zenon
  <2> HIDE DEF h
  <2> QED
    BY <2>1, <2>2, <2>3
<1>7. h \in [1 .. Len(new) -> 1 .. Len(all)]
  <2>1. ASSUME NEW i \in 1 .. Len(new)
        PROVE  h[i] \in 1 .. Len(all)
    <3> HIDE DEF h
    <3>1. (\A k \in 1 .. Len(keys) : k \in 1 .. Len(all)) /\ Len(keys) + 1 \in 1 .. Len(all)
      BY <1>5
    <3>2. h[i] \in 1 .. Len(keys) \/ h[i] = Len(keys) + 1
      BY <1>6
    <3> QED
      BY <3>1, <3>2
  <2> QED
    BY <2>1
<1> HIDE DEF h
<1>8. ASSUME NEW i \in 1 .. Len(new), NEW j \in 1 .. Len(new), i < j PROVE h[i] < h[j]
  <2>1. i \in 1 .. Len(line) /\ h[i] = g[i] /\ g[i] \in 1 .. Len(keys)
    BY <1>6, <1>8, <1>5, SMTT(30)
  <2>2. CASE j \in 1 .. Len(line) /\ h[j] = g[j]
    BY <1>2, <1>8, <2>1, <2>2
  <2>3. CASE j = Len(line) + 1 /\ h[j] = Len(keys) + 1
    BY <1>2, <2>1, <2>3
  <2> QED
    BY <1>6, <2>2, <2>3
<1>9. ASSUME NEW i \in 1 .. Len(new) PROVE new[i] = all[h[i]]
  BY <1>2, <1>3, <1>4, <1>6, ZenonT(30)
<1>10. InLine(h, new, all)
  BY <1>7, <1>8, <1>9 DEF InLine
<1>11. Len(new) + d = Len(all)
  BY <1>5
<1>12. Ordered(new, all, d)
  BY <1>3, <1>10, <1>11 DEF Ordered
<1> QED
  BY <1>12 DEF new, all

\* A scancode that finds the queue full leaves the line.
LEMMA OrderedDrop ==
    ASSUME NEW keys \in Seq(Int), NEW d \in Nat, NEW a \in Seq(Int), NEW b \in Int, NEW c \in Seq(Int),
           Ordered(a \o (<<b>> \o c), keys, d)
    PROVE  Ordered(a \o c, keys, d + 1)
<1> DEFINE old == a \o (<<b>> \o c)
           new == a \o c
<1>1. /\ old \in Seq(Int) /\ Len(old) = Len(a) + 1 + Len(c) /\ Len(a) \in Nat /\ Len(c) \in Nat
      /\ \A i \in 1 .. Len(a) : old[i] = a[i]
      /\ \A i \in 1 .. Len(c) : old[Len(a) + 1 + i] = c[i]
  BY SMTT(30)
<1>2. /\ new \in Seq(Int) /\ Len(new) = Len(a) + Len(c)
      /\ \A i \in 1 .. Len(a) : new[i] = a[i]
      /\ \A i \in 1 .. Len(c) : new[Len(a) + i] = c[i]
  OBVIOUS
<1> DEFINE at(i) == IF i <= Len(a) THEN i ELSE i + 1
<1> HIDE DEF old, new
<1>3. ASSUME NEW i \in 1 .. Len(new) PROVE at(i) \in 1 .. Len(old) /\ new[i] = old[at(i)]
  <2>1. CASE i <= Len(a)
    BY <1>1, <1>2, <2>1
  <2>2. CASE i > Len(a)
    <3>1. PICK k \in 1 .. Len(c) : i = Len(a) + k
      <4>1. i - Len(a) \in 1 .. Len(c) /\ i = Len(a) + (i - Len(a))
        BY <1>1, <1>2, <2>2
      <4> QED
        BY <4>1, Zenon
    <3>2. at(i) = Len(a) + 1 + k
      BY <1>1, <2>2, <3>1
    <3> QED
      BY <1>1, <1>2, <3>1, <3>2
  <2> QED
    BY <1>1, <2>1, <2>2
<1>4. ASSUME NEW i \in 1 .. Len(new), NEW j \in 1 .. Len(new), i < j PROVE at(i) < at(j)
  <2>1. i \in Int /\ j \in Int /\ i < j /\ Len(a) \in Int
    BY <1>1, <1>2, <1>4
  <2> QED
    BY <2>1
<1> HIDE DEF at
<1>5. Ordered(old, keys, d)
  BY DEF old
<1>6. PICK g : InLine(g, old, keys)
  BY <1>5 DEF Ordered
<1>7. /\ g \in [1 .. Len(old) -> 1 .. Len(keys)]
      /\ \A i, j \in 1 .. Len(old) : i < j => g[i] < g[j]
      /\ \A i \in 1 .. Len(old) : old[i] = keys[g[i]]
  BY <1>6 DEF InLine
<1> DEFINE h == [i \in 1 .. Len(new) |-> g[at(i)]]
<1>8. h \in [1 .. Len(new) -> 1 .. Len(keys)] /\ \A i \in 1 .. Len(new) : h[i] = g[at(i)]
  BY <1>3, <1>7
<1> HIDE DEF h
<1>9. \A i, j \in 1 .. Len(new) : i < j => h[i] < h[j]
  BY <1>3, <1>4, <1>7, <1>8, SMTT(30)
<1>10. \A i \in 1 .. Len(new) : new[i] = keys[h[i]]
  BY <1>3, <1>7, <1>8, ZenonT(30)
<1>11. InLine(h, new, keys)
  BY <1>8, <1>9, <1>10 DEF InLine
<1>12. Len(new) + (d + 1) = Len(keys)
  BY <1>1, <1>2, <1>5 DEF Ordered
<1>13. Ordered(new, keys, d + 1)
  BY <1>2, <1>11, <1>12 DEF Ordered
<1> QED
  BY <1>13 DEF new

\* Scancodes that are passed on stay in line.
LEMMA LineAppend ==
    ASSUME NEW s \in Seq(Int), NEW t \in Seq(Int), NEW b \in Int
    PROVE  s \o Append(t, b) = Append(s \o t, b)
OBVIOUS

LEMMA LineQueued ==
    ASSUME NEW s \in Seq(Int), NEW t \in Seq(Int), NEW b \in Int
    PROVE  Append(s, b) \o t = s \o (<<b>> \o t)
OBVIOUS

LEMMA LinePassed ==
    /\ \A s \in Seq(Int) : << >> \o s = s
    /\ \A s \in Seq(Int) : s # << >> => Head(s) \in Int /\ Tail(s) \in Seq(Int) /\ <<Head(s)>> \o Tail(s) = s
    /\ \A s, t \in Seq(Int) : t # << >> => Append(s, Head(t)) \o Tail(t) = s \o t
<1>1. \A s \in Seq(Int) : << >> \o s = s
  OBVIOUS
<1>2. \A s \in Seq(Int) : s # << >> => Head(s) \in Int /\ Tail(s) \in Seq(Int) /\ <<Head(s)>> \o Tail(s) = s
  OBVIOUS
<1>3. \A s, t \in Seq(Int) : t # << >> => Append(s, Head(t)) \o Tail(t) = s \o t
  BY SMTT(30)
<1> QED
  BY <1>1, <1>2, <1>3, Zenon
-----------------------------------------------------------------------------
\* The scancode in the output buffer of the controller.
InBuffer == IF out.src = Keyboard THEN <<out.byte>> ELSE << >>

\* What clients got, what is queued, what is in the buffer and what is still to come.
Line == (taken \o queue) \o (InBuffer \o to_send[Keyboard])

KeyTypes ==
    /\ to_send = [src \in {Port!Mouse, Keyboard} |-> to_send[src]] /\ to_send[Keyboard] \in Seq(Int)
    /\ out.src = Keyboard => out.byte \in Int
    /\ queue \in Seq(Int) /\ taken \in Seq(Int) /\ dropped \in Nat
    /\ typed \in Seq(Int) /\ sent \in Seq(Reports)
    /\ Len(queue) <= SCANCODE_QUEUE_SIZE

\* While init polls the port there is no scancode anywhere.
NoKeyYet ==
    /\ ~enabled /\ typed = << >> /\ to_send[Keyboard] = << >>
    /\ out.src # Keyboard /\ Keyboard \notin latched
    /\ queue = << >> /\ taken = << >> /\ dropped = 0

\* The keyboard's interrupt is pending while its byte is in the buffer, and then alone.
InStep ==
    /\ out.src = Keyboard <=> Keyboard \in latched
    /\ Keyboard \in latched => latched = {Keyboard}

Undisturbed ==
    /\ KeyTypes
    /\ Port!Booting => NoKeyYet
    /\ InStep
    /\ Ordered(Line, typed, dropped)

KeyInv ==
    ~disturbed /\ ~overlap => Undisturbed


\* A step that leaves the scancodes where they are.
LEMMA KeysRest ==
    ASSUME Undisturbed, UNCHANGED <<queue, taken, dropped, typed>>,
           to_send'[Keyboard] = to_send[Keyboard],
           to_send' = [src \in {Port!Mouse, Keyboard} |-> to_send'[src]],
           sent' \in Seq(Reports),
           (out'.src = out.src /\ out'.byte = out.byte) \/ (out.src # Keyboard /\ out'.src # Keyboard),
           Keyboard \in latched' <=> Keyboard \in latched,
           latched' \subseteq latched \/ Keyboard \notin latched',
           Port!Booting' => Port!Booting /\ UNCHANGED enabled
    PROVE  Undisturbed'
<1>1. InBuffer' = InBuffer /\ (out'.src = Keyboard <=> out.src = Keyboard)
  BY DEF InBuffer, Keyboard, Port!Keyboard
<1>2. Line' = Line
  BY <1>1 DEF Line, Keyboard, Port!Keyboard
<1>3. KeyTypes'
  BY DEF Undisturbed, KeyTypes, Keyboard, Port!Keyboard, Port!Mouse
<1>4. (Port!Booting => NoKeyYet)'
  BY <1>1 DEF Undisturbed, NoKeyYet, Keyboard, Port!Keyboard
<1>5. InStep'
  BY <1>1 DEF Undisturbed, InStep, Keyboard, Port!Keyboard
<1>6. Ordered(Line, typed, dropped)'
  BY <1>2 DEF Undisturbed, Ordered
<1> QED
  BY <1>3, <1>4, <1>5, <1>6 DEF Undisturbed

\* A key is pressed once init has returned.
LEMMA KeyPressed ==
    ASSUME Port!KeysAssumption, Undisturbed, Port!press, ~Port!Booting
    PROVE  Undisturbed'
<1> DEFINE key == Keys[Len(typed) + 1]
<1> USE DEF Keyboard, Port!Keyboard, Port!Mouse
<1>1. /\ Len(sent) + Len(typed) < MaxInputs
      /\ to_send' = [to_send EXCEPT ![Keyboard] = @ \o <<key>>]
      /\ typed' = Append(typed, key)
      /\ UNCHANGED <<out, latched, enabled, init_stage, queue, taken, dropped, sent>>
  BY DEF Port!press, Port!Sends, Port!portVars, Port!initVars, Port!keyVars, Port!Booting
<1>2. /\ KeyTypes /\ InStep /\ Ordered(Line, typed, dropped)
      /\ Len(typed) \in Nat /\ Len(sent) \in Nat /\ dropped \in Nat
  BY DEF Undisturbed, KeyTypes
<1>3. Len(typed) + 1 <= Len(Keys) /\ key \in Int
  BY <1>1, <1>2 DEF Port!KeysAssumption
<1>4. /\ to_send'[Keyboard] = to_send[Keyboard] \o <<key>> /\ to_send'[Keyboard] = Append(to_send[Keyboard], key)
      /\ to_send' = [src \in {Port!Mouse, Keyboard} |-> to_send'[src]]
  <2>1. to_send[Keyboard] \in Seq(Int) /\ to_send[Keyboard] \o <<key>> = Append(to_send[Keyboard], key)
    BY <1>2, <1>3 DEF KeyTypes
  <2>2. to_send = [src \in {Port!Mouse, Keyboard} |-> to_send[src]]
    BY <1>2 DEF KeyTypes
  <2>3. /\ to_send'[Keyboard] = to_send[Keyboard] \o <<key>>
        /\ to_send' = [src \in {Port!Mouse, Keyboard} |-> to_send'[src]]
    <3> HIDE DEF key
    <3> QED
      BY <1>1, <2>2, Zenon
  <2> QED
    BY <2>1, <2>3
<1> HIDE DEF key
<1>5. Ordered(Append(Line, key), typed', dropped)
  BY <1>1, <1>2, <1>3, OrderedPress, SMTT(30) DEF KeyTypes
<1>6. InBuffer \in Seq(Int) /\ to_send[Keyboard] \in Seq(Int) /\ taken \o queue \in Seq(Int)
  BY <1>2 DEF KeyTypes, InBuffer
<1>7. InBuffer' = InBuffer
  BY <1>1 DEF InBuffer
<1>8. Line' = Append(Line, key)
  <2>1. Line' = (taken \o queue) \o (InBuffer \o Append(to_send[Keyboard], key))
    BY <1>1, <1>4, <1>7, Zenon DEF Line
  <2>2. InBuffer \o Append(to_send[Keyboard], key) = Append(InBuffer \o to_send[Keyboard], key)
    BY <1>3, <1>6, LineAppend, Zenon
  <2>3. InBuffer \o to_send[Keyboard] \in Seq(Int)
    BY <1>6
  <2>4. (taken \o queue) \o Append(InBuffer \o to_send[Keyboard], key) = Append(Line, key)
    BY <1>3, <1>6, <2>3, LineAppend, Zenon DEF Line
  <2> QED
    BY <2>1, <2>2, <2>4
<1>9. typed' \in Seq(Int)
  BY <1>1, <1>2, <1>3 DEF KeyTypes
<1>10. Ordered(Line, typed, dropped)'
  BY <1>1, <1>5, <1>8, <1>9 DEF Ordered
<1>11. KeyTypes'
  BY <1>1, <1>2, <1>3, <1>4, <1>9 DEF KeyTypes
<1>12. InStep' /\ ~Port!Booting'
  BY <1>1, <1>2 DEF InStep, Port!Booting
<1> QED
  BY <1>10, <1>11, <1>12 DEF Undisturbed

\* The controller takes a scancode from the keyboard.
LEMMA KeyTransmitted ==
    ASSUME Undisturbed, Port!transmit(Keyboard), ~overlap'
    PROVE  Undisturbed'
<1> USE DEF Keyboard, Port!Keyboard, Port!Mouse
<1>1. /\ out = Port!NoByte /\ to_send[Keyboard] # << >>
      /\ out' = [src |-> Keyboard, byte |-> Head(to_send[Keyboard])]
      /\ to_send' = [to_send EXCEPT ![Keyboard] = Tail(@)]
      /\ latched' = latched \union {Keyboard}
      /\ overlap' = (overlap \/ (~Port!Booting /\ latched \ {Keyboard} # {}))
      /\ UNCHANGED <<enabled, init_stage, queue, taken, dropped, sent, typed>>
  BY DEF Port!transmit, Port!initVars, Port!keyVars, Port!Booting
<1>2. KeyTypes /\ InStep /\ Ordered(Line, typed, dropped) /\ (Port!Booting => NoKeyYet)
  BY DEF Undisturbed
<1>3. ~Port!Booting
  BY <1>1, <1>2 DEF NoKeyYet
<1>4. latched \subseteq {Keyboard}
  BY <1>1, <1>3, Zenon
<1>5. /\ to_send'[Keyboard] = Tail(to_send[Keyboard])
      /\ to_send' = [src \in {Port!Mouse, Keyboard} |-> to_send'[src]]
  BY <1>1, <1>2, Zenon DEF KeyTypes
<1>6. /\ to_send[Keyboard] \in Seq(Int) /\ Head(to_send[Keyboard]) \in Int /\ Tail(to_send[Keyboard]) \in Seq(Int)
      /\ <<Head(to_send[Keyboard])>> \o Tail(to_send[Keyboard]) = to_send[Keyboard]
      /\ << >> \o to_send[Keyboard] = to_send[Keyboard]
  BY <1>1, <1>2, LinePassed DEF KeyTypes
<1>7. InBuffer = << >> /\ InBuffer' = <<Head(to_send[Keyboard])>>
  BY <1>1 DEF InBuffer, Port!NoByte
<1>8. Line' = Line
  BY <1>1, <1>5, <1>6, <1>7, Zenon DEF Line
<1>9. Ordered(Line, typed, dropped)'
  BY <1>1, <1>2, <1>8 DEF Ordered
<1>10. KeyTypes'
  BY <1>1, <1>2, <1>5, <1>6 DEF KeyTypes
<1>11. InStep' /\ ~Port!Booting'
  BY <1>1, <1>3, <1>4, Zenon DEF InStep, Port!Booting
<1> QED
  BY <1>9, <1>10, <1>11 DEF Undisturbed

\* The interrupt of the keyboard queues the scancode, or drops it.
LEMMA KeyQueued ==
    ASSUME Port!KeysAssumption, Undisturbed, Port!keyboard_interrupt
    PROVE  Undisturbed'
<1> USE DEF Keyboard, Port!Keyboard, Port!Mouse
<1>1. /\ enabled /\ latched = {Keyboard} /\ latched' = {} /\ out' = Port!NoByte
      /\ Port!add_scancode(Port!PortByte)
      /\ UNCHANGED <<to_send, enabled, init_stage, taken, sent, typed>>
  BY DEF Port!keyboard_interrupt, Port!PortRead, Port!initVars, Port!history
<1>2. /\ KeyTypes /\ InStep /\ Ordered(Line, typed, dropped) /\ (Port!Booting => NoKeyYet)
      /\ Len(typed) \in Nat /\ dropped \in Nat
  BY DEF Undisturbed, KeyTypes
<1>3. ~Port!Booting
  BY <1>1, <1>2 DEF NoKeyYet
<1>4. out.src = Keyboard
  BY <1>1, <1>2 DEF InStep
<1> DEFINE b == out.byte
           rest == to_send[Keyboard]
<1>5. Port!PortByte = b /\ b \in Int /\ rest \in Seq(Int) /\ taken \in Seq(Int) /\ queue \in Seq(Int)
  BY <1>2, <1>4 DEF Port!PortByte, Port!NoByte, KeyTypes
<1>6. InBuffer = <<b>> /\ InBuffer' = << >>
  BY <1>1, <1>4 DEF InBuffer, Port!NoByte
<1>7. InStep' /\ ~Port!Booting'
  BY <1>1, <1>3 DEF InStep, Port!Booting, Port!NoByte
<1>8. out'.src # Keyboard
  BY <1>1 DEF Port!NoByte
<1>9. Line = (taken \o queue) \o (<<b>> \o rest) /\ taken \o queue \in Seq(Int)
  BY <1>5, <1>6 DEF Line
<1>10. Line' = (taken \o queue') \o rest
  BY <1>1, <1>5, <1>6, LinePassed DEF Line
<1> HIDE DEF b, rest
<1>11. CASE Len(queue) < SCANCODE_QUEUE_SIZE
  <2>1. queue' = Append(queue, b) /\ dropped' = dropped
    BY <1>1, <1>5, <1>11 DEF Port!add_scancode
  <2>2. taken \o Append(queue, b) = Append(taken \o queue, b)
    BY <1>5, LineAppend, Zenon
  <2>3. Append(taken \o queue, b) \o rest = (taken \o queue) \o (<<b>> \o rest)
    BY <1>5, <1>9, LineQueued, Zenon
  <2>4. Line' = Line
    BY <1>9, <1>10, <2>1, <2>2, <2>3
  <2>5. Ordered(Line, typed, dropped)'
    BY <1>1, <1>2, <2>1, <2>4 DEF Ordered
  <2>6. queue' \in Seq(Int) /\ Len(queue') <= SCANCODE_QUEUE_SIZE
    BY <1>5, <1>11, <2>1 DEF Port!KeysAssumption
  <2>7. KeyTypes'
    BY <1>1, <1>2, <1>8, <2>1, <2>6 DEF KeyTypes
  <2> QED
    BY <1>7, <2>5, <2>7 DEF Undisturbed
<1>12. CASE ~(Len(queue) < SCANCODE_QUEUE_SIZE)
  <2>1. queue' = queue /\ dropped' = dropped + 1
    BY <1>1, <1>12 DEF Port!add_scancode
  <2>2. Ordered((taken \o queue) \o rest, typed, dropped + 1)
    <3>1. Ordered((taken \o queue) \o (<<b>> \o rest), typed, dropped)
      BY <1>2, <1>9
    <3>2. typed \in Seq(Int)
      BY <1>2 DEF KeyTypes
    <3> QED
      BY <1>2, <1>5, <1>9, <3>1, <3>2, OrderedDrop, Zenon
  <2>3. Ordered(Line, typed, dropped)'
    BY <1>1, <1>10, <2>1, <2>2 DEF Ordered
  <2>4. KeyTypes'
    BY <1>1, <1>2, <1>8, <2>1 DEF KeyTypes
  <2> QED
    BY <1>7, <2>3, <2>4 DEF Undisturbed
<1> QED
  BY <1>11, <1>12

\* A client takes a scancode from the queue.
LEMMA KeyTaken ==
    ASSUME Port!KeysAssumption, Undisturbed, Port!get_scancode
    PROVE  Undisturbed'
<1> USE DEF Keyboard, Port!Keyboard, Port!Mouse
<1>1. /\ enabled /\ queue # << >> /\ taken' = Append(taken, Head(queue)) /\ queue' = Tail(queue)
      /\ UNCHANGED <<to_send, out, latched, enabled, init_stage, dropped, sent, typed>>
  BY DEF Port!get_scancode, Port!portVars, Port!initVars, Port!history
<1>2. KeyTypes /\ InStep /\ Ordered(Line, typed, dropped) /\ (Port!Booting => NoKeyYet)
  BY DEF Undisturbed
<1>3. /\ taken' \o queue' = taken \o queue /\ queue' \in Seq(Int) /\ taken' \in Seq(Int)
      /\ Len(queue') <= Len(queue) /\ Len(queue) \in Nat /\ Len(queue') \in Nat
  <2>1. queue \in Seq(Int) /\ taken \in Seq(Int) /\ Head(queue) \in Int /\ Tail(queue) \in Seq(Int)
    BY <1>1, <1>2, LinePassed DEF KeyTypes
  <2>2. Len(Tail(queue)) = Len(queue) - 1 /\ Len(queue) \in Nat
    BY <1>1, <2>1
  <2>3. Append(taken, Head(queue)) \o Tail(queue) = taken \o queue
    BY <1>1, <2>1, LinePassed, Zenon
  <2>4. Append(taken, Head(queue)) \in Seq(Int)
    BY <2>1
  <2>5. taken' \o queue' = taken \o queue /\ queue' \in Seq(Int) /\ taken' \in Seq(Int)
    BY <1>1, <2>1, <2>3, <2>4, Zenon
  <2>6. Len(queue') = Len(queue) - 1 /\ Len(queue') \in Nat
    <3>1. Len(queue') = Len(queue) - 1
      BY <1>1, <2>2, Zenon
    <3> QED
      BY <2>5, <3>1
  <2>7. Len(queue') <= Len(queue)
    BY <2>2, <2>6
  <2> QED
    BY <2>2, <2>5, <2>6, <2>7, Zenon
<1>4. Line' = Line
  BY <1>1, <1>3, Zenon DEF Line, InBuffer
<1>5. Ordered(Line, typed, dropped)'
  BY <1>1, <1>2, <1>4 DEF Ordered
<1>6. KeyTypes'
  <2>1. Len(queue') <= SCANCODE_QUEUE_SIZE
    BY <1>2, <1>3 DEF KeyTypes, Port!KeysAssumption
  <2> QED
    BY <1>1, <1>2, <1>3, <2>1 DEF KeyTypes
<1>7. InStep' /\ ~Port!Booting'
  BY <1>1, <1>2 DEF InStep, Port!Booting, NoKeyYet
<1> QED
  BY <1>5, <1>6, <1>7 DEF Undisturbed

LEMMA KeyInit ==
    ASSUME Port!KeysAssumption, Port!Init
    PROVE  KeyInv
<1> USE DEF Keyboard, Port!Keyboard, Port!Mouse
<1>1. /\ to_send = [src \in {Port!Mouse, Keyboard} |-> << >>] /\ out.src = "none" /\ latched = {} /\ ~enabled
      /\ queue = << >> /\ taken = << >> /\ dropped = 0 /\ sent = << >> /\ typed = << >>
  BY DEF Port!Init, Port!NoByte
<1>2. KeyTypes
  BY <1>1 DEF KeyTypes, Port!KeysAssumption
<1>3. NoKeyYet /\ InStep
  BY <1>1 DEF NoKeyYet, InStep
<1>4. Line = << >>
  BY <1>1 DEF Line, InBuffer
<1>5. Ordered(Line, typed, dropped)
  <2>1. << >> \in Seq(Int) /\ Len(<< >>) = 0
    OBVIOUS
  <2>2. InLine(<< >>, << >>, << >>)
    BY <2>1 DEF InLine
  <2> QED
    BY <1>1, <1>4, <2>1, <2>2 DEF Ordered
<1> QED
  BY <1>2, <1>3, <1>5 DEF KeyInv, Undisturbed

LEMMA KeyStep ==
    ASSUME Port!KeysAssumption, KeyInv, [Port!Next]_(Port!vars)
    PROVE  KeyInv'
<1> SUFFICES ASSUME ~disturbed', ~overlap' PROVE Undisturbed'
  BY DEF KeyInv
<1> USE DEF Keyboard, Port!Keyboard, Port!Mouse
<1>1. ~disturbed /\ ~overlap
  <2>1. CASE Port!press
    BY <2>1, Zenon DEF Port!press
  <2>2. CASE \E r \in Reports : Port!report(r)
    <3>1. disturbed' = (disturbed \/ Port!Booting) /\ overlap' = overlap
      BY <2>2 DEF Port!report
    <3> QED
      BY <3>1, Zenon
  <2>3. CASE \E src \in {Port!Mouse, Port!Keyboard} : Port!transmit(src)
    <3>1. PICK src \in {Port!Mouse, Port!Keyboard} : Port!transmit(src)
      BY <2>3
    <3>2. /\ overlap' = (overlap \/ (~Port!Booting /\ latched \ {src} # {}))
          /\ disturbed' = disturbed
      BY <3>1 DEF Port!transmit
    <3> QED
      BY <3>2, Zenon
  <2>4. CASE UNCHANGED <<disturbed, overlap>>
    BY <2>4
  <2> QED
    BY <2>1, <2>2, <2>3, <2>4, Zenon DEF Port!Next, Port!vars, Port!history, Port!answer, Port!send_command,
       Port!wait_for_read, Port!read_ack, Port!read_id, Port!start_schedule, Port!mouse_interrupt,
       Port!keyboard_interrupt, Port!get_scancode
<1>2. Undisturbed /\ KeyTypes /\ InStep /\ (Port!Booting => NoKeyYet)
  BY <1>1 DEF KeyInv, Undisturbed
<1>3. to_send = [src \in {Port!Mouse, Keyboard} |-> to_send[src]] /\ sent \in Seq(Reports)
  BY <1>2 DEF KeyTypes
<1>4. CASE Port!answer
  <2>1. /\ \E bytes : to_send' = [to_send EXCEPT ![Port!Mouse] = @ \o bytes]
        /\ UNCHANGED <<out, latched, enabled, init_stage, queue, taken, dropped, sent, typed>>
    BY <1>4, Zenon DEF Port!answer, Port!Sends, Port!initVars, Port!keyVars, Port!history
  <2>2. /\ to_send'[Keyboard] = to_send[Keyboard]
        /\ to_send' = [src \in {Port!Mouse, Keyboard} |-> to_send'[src]]
    BY <1>3, <2>1, Zenon
  <2> QED
    BY <1>2, <1>3, <2>1, <2>2, KeysRest DEF Port!Booting
<1>5. CASE Port!press
  <2>1. ~Port!Booting
    BY <1>5, Zenon DEF Port!press
  <2> QED
    BY <1>2, <1>5, <2>1, KeyPressed
<1>6. ASSUME NEW r \in Reports, Port!report(r) PROVE Undisturbed'
  <2>1. /\ \E bytes : to_send' = [to_send EXCEPT ![Port!Mouse] = @ \o bytes]
        /\ sent' = sent \/ sent' = Append(sent, r)
        /\ UNCHANGED <<out, latched, enabled, init_stage, queue, taken, dropped, typed>>
    BY <1>6, Zenon DEF Port!report, Port!Sends, Port!initVars, Port!keyVars
  <2>2. /\ to_send'[Keyboard] = to_send[Keyboard]
        /\ to_send' = [src \in {Port!Mouse, Keyboard} |-> to_send'[src]]
    BY <1>3, <2>1, Zenon
  <2>3. sent' \in Seq(Reports)
    <3>1. Append(sent, r) \in Seq(Reports)
      BY <1>3
    <3> QED
      BY <1>3, <2>1, <3>1, Zenon
  <2> QED
    BY <1>2, <2>1, <2>2, <2>3, KeysRest DEF Port!Booting
<1>7. ASSUME NEW src \in {Port!Mouse, Port!Keyboard}, Port!transmit(src) PROVE Undisturbed'
  <2>1. CASE src = Keyboard
    BY <1>2, <1>7, <2>1, KeyTransmitted
  <2>2. CASE src = Port!Mouse
    <3>1. /\ out = Port!NoByte /\ out'.src = Port!Mouse
          /\ to_send' = [to_send EXCEPT ![Port!Mouse] = Tail(@)]
          /\ latched' = latched \union {Port!Mouse}
          /\ UNCHANGED <<enabled, init_stage, queue, taken, dropped, sent, typed>>
      BY <1>7, <2>2 DEF Port!transmit, Port!initVars, Port!keyVars
    <3>2. /\ to_send'[Keyboard] = to_send[Keyboard]
          /\ to_send' = [s \in {Port!Mouse, Keyboard} |-> to_send'[s]]
      BY <1>3, <3>1, Zenon
    <3>3. out.src # Keyboard /\ out'.src # Keyboard
      BY <3>1 DEF Port!NoByte
    <3>4. Keyboard \notin latched /\ Keyboard \notin latched'
      BY <1>2, <3>1, <3>3 DEF InStep
    <3> QED
      BY <1>2, <1>3, <3>1, <3>2, <3>3, <3>4, KeysRest DEF Port!Booting
  <2> QED
    BY <1>7, <2>1, <2>2
<1>8. CASE Port!send_command \/ Port!wait_for_read
  <2>1. Port!Booting /\ UNCHANGED <<to_send, out, latched, enabled, queue, taken, dropped, sent, typed>>
    BY <1>8 DEF Port!send_command, Port!wait_for_read, Port!Booting, Port!portVars, Port!keyVars, Port!history
  <2> QED
    BY <1>2, <1>3, <2>1, KeysRest
<1>9. CASE Port!read_ack \/ Port!read_id
  <2>1. /\ Port!Booting /\ out' = Port!NoByte
        /\ UNCHANGED <<to_send, latched, enabled, queue, taken, dropped, sent, typed>>
    BY <1>9 DEF Port!read_ack, Port!read_id, Port!PortRead, Port!Booting, Port!keyVars, Port!history
  <2>2. out.src # Keyboard /\ out'.src # Keyboard
    BY <1>2, <2>1, Zenon DEF NoKeyYet, Port!NoByte
  <2> QED
    BY <1>2, <1>3, <2>1, <2>2, KeysRest
<1>10. CASE Port!start_schedule
  <2>1. ~Port!Booting /\ UNCHANGED <<to_send, out, latched, init_stage, queue, taken, dropped, sent, typed>>
    BY <1>10 DEF Port!start_schedule, Port!initVars, Port!keyVars, Port!history
  <2>2. ~Port!Booting'
    BY <2>1 DEF Port!Booting
  <2> QED
    BY <1>2, <1>3, <2>1, <2>2, KeysRest
<1>11. CASE Port!mouse_interrupt
  <2>1. /\ Port!Mouse \in latched /\ latched' = latched \ {Port!Mouse} /\ out' = Port!NoByte
        /\ UNCHANGED <<to_send, enabled, init_stage, queue, taken, dropped, sent, typed>>
    BY <1>11 DEF Port!mouse_interrupt, Port!PortRead, Port!initVars, Port!keyVars, Port!history
  <2>2. Keyboard \notin latched /\ Keyboard \notin latched'
    BY <1>2, <2>1 DEF InStep
  <2>3. out.src # Keyboard /\ out'.src # Keyboard
    BY <1>2, <2>1, <2>2 DEF InStep, Port!NoByte
  <2> QED
    BY <1>2, <1>3, <2>1, <2>2, <2>3, KeysRest DEF Port!Booting
<1>12. CASE Port!keyboard_interrupt
  BY <1>2, <1>12, KeyQueued
<1>13. CASE Port!get_scancode
  BY <1>2, <1>13, KeyTaken
<1>14. CASE UNCHANGED Port!vars
  <2>1. UNCHANGED <<to_send, out, latched, enabled, init_stage, queue, taken, dropped, sent, typed>>
    BY <1>14 DEF Port!vars, Port!portVars, Port!initVars, Port!keyVars, Port!history
  <2> QED
    BY <1>2, <1>3, <2>1, KeysRest DEF Port!Booting
<1> QED
  BY <1>4, <1>5, <1>6, <1>7, <1>8, <1>9, <1>10, <1>11, <1>12, <1>13, <1>14 DEF Port!Next

\* For any keys, any reports and any size of the queue: while init is left alone
\* and no byte comes between a byte of the other device and its interrupt, the
\* line of the scancodes is the line of the keys, but for those that found the
\* queue full (add_scancode, get_scancode, keyboard_interrupt and Mouse::init).
THEOREM KeysSound == Port!KeysAssumption => (Port!Spec => []KeyInv)
<1> SUFFICES ASSUME Port!KeysAssumption PROVE Port!Spec => []KeyInv
  OBVIOUS
<1>1. Port!Init => KeyInv
  BY KeyInit
<1>2. KeyInv /\ [Port!Next]_(Port!vars) => KeyInv'
  BY KeyStep
<1> QED
  BY <1>1, <1>2, PTL DEF Port!Spec

\* Clients get the scancodes in the order of the keys, and one is missing only
\* if it found the queue full (add_scancode, get_scancode and keyboard_interrupt).
THEOREM KeysKept == Port!KeysAssumption => (Port!Spec => []Port!ScancodesKept)
<1> SUFFICES ASSUME Port!KeysAssumption PROVE Port!Spec => []Port!ScancodesKept
  OBVIOUS
<1>1. KeyInv => Port!ScancodesKept
  <2> SUFFICES ASSUME KeyInv, ~disturbed, ~overlap PROVE Port!ScancodesKept
    BY Zenon DEF Port!ScancodesKept
  <2> USE DEF Keyboard, Port!Keyboard
  <2>1. KeyTypes /\ Ordered(Line, typed, dropped)
    BY DEF KeyInv, Undisturbed
  <2>2. PICK g : InLine(g, Line, typed)
    BY <2>1 DEF Ordered
  <2>3. Line \in Seq(Int) /\ typed \in Seq(Int) /\ Len(Line) + dropped = Len(typed)
    BY <2>1 DEF Ordered, KeyTypes
  <2>4. DOMAIN Line = 1 .. Len(Line) /\ DOMAIN typed = 1 .. Len(typed)
    BY <2>3
  <2>5. Line = (taken \o queue)
               \o ((IF out.src = Port!Keyboard THEN <<out.byte>> ELSE << >>) \o to_send[Port!Keyboard])
    BY DEF Line, InBuffer
  <2>6. Len(queue) <= SCANCODE_QUEUE_SIZE
    BY <2>1 DEF KeyTypes
  <2> HIDE DEF Keyboard, Port!Keyboard
  <2> QED
    BY <2>2, <2>3, <2>4, <2>5, <2>6, Zenon DEF Port!ScancodesKept, InLine
<1> QED
  BY <1>1, KeysSound, PTL
=============================================================================
