----------------------------- MODULE NvmeDevice -----------------------------
(***************************************************************************)
(* The life of one NVMe controller under its driver (NvmeDevice in         *)
(* src/drivers/nvme/nvme.rs, driven by init in src/drivers/nvme/mod.rs):   *)
(* reset and bring-up, identification, and the creation and deletion of    *)
(* I/O queue pairs through the admin queue.                                *)
(*                                                                         *)
(* The driver holds NVME_CONS or &mut self throughout, so it is sequential *)
(* and stage is its program counter; the controller, which is external,    *)
(* works between its steps.  The admin queue itself is the ring of         *)
(* NvmeQueuePair used with one command at a time: here a command is        *)
(* outstanding (op) until it has been answered (reply).                    *)
(***************************************************************************)
EXTENDS Integers

CONSTANTS
    LastDoorbell,   \* the last queue id whose doorbells lie in the mapped BAR
    Namespace,      \* the ids of the namespaces the controller has
    Refusals        \* sets of commands a controller may refuse for want of resources

ASSUME DeviceAssumption == LastDoorbell \in Nat /\ LastDoorbell >= 1

VARIABLES
    stage,          \* where the driver is
    q_id,           \* NvmeDevice::q_id
    pairs,          \* the ids of the NvmeQueuePairs its callers hold
    namespaces,     \* the keys of NvmeDevice::namespaces, with what was read
    unread,         \* the ids of the namespace list that init has still to read
    buffer,         \* what the DMA buffer holds
    op,             \* the admin command being waited for, or NoOp
    reply,          \* its status, once posted
    cc_en,          \* CC.EN
    csts_rdy,       \* CSTS.RDY
    asq,            \* whose rings the ASQ and ACQ registers point to
    rings,          \* whose admin rings the controller took when it was enabled
    refusable,      \* the commands that it may refuse
    cqs,            \* its completion queues
    sqs             \* its submission queues: pairs of an id and a completion queue

driver == <<stage, q_id, pairs, namespaces, unread, buffer, op>>

registers == <<cc_en, asq>>

controller == <<csts_rdy, rings, refusable, cqs, sqs>>

vars == <<driver, reply, registers, controller>>

Queue == 1 .. LastDoorbell

\* The queue of the device itself, which init creates.
OwnQueue == 1

Opcode == {"create_cq", "create_sq", "delete_sq", "delete_cq",
           "identify_controller", "identify_list", "identify_namespace", "format"}

NoOp == [cmd |-> "none", id |-> 0]

\* The firmware may hand the controller over enabled, with queues of its own.
Init ==
    /\ stage = "start" /\ q_id = 1 /\ pairs = {}
    /\ namespaces = {} /\ unread = {} /\ buffer = NoOp
    /\ op = NoOp /\ reply = "none"
    /\ cc_en \in BOOLEAN /\ csts_rdy = cc_en
    /\ asq = "firmware"
    /\ rings = IF cc_en THEN "firmware" ELSE "none"
    /\ refusable \in Refusals
    /\ cqs \in IF cc_en THEN {{}, {OwnQueue}} ELSE {{}}
    /\ sqs = {<<q, q>> : q \in cqs}
-----------------------------------------------------------------------------
Goto(s) == stage' = s

Admin(cmd, id) == op' = [cmd |-> cmd, id |-> id] /\ reply' = "none"

NoAdmin == op' = NoOp /\ reply' = "none"

\* The wait of submit_and_complete_admin is over.
AnsweredEarly(cmd) == op.cmd = cmd
Answered(cmd) == op.cmd = cmd /\ reply # "none"

\* It returns Ok or Err by the status.
IgnoredStatus == TRUE
Succeeded == reply = "ok"

Erred == reply \in {"invalid", "refused"}

-----------------------------------------------------------------------------
\* init: clear CC.EN.
disable ==
    /\ stage = "start" /\ Goto("disabled")
    /\ cc_en' = FALSE
    /\ UNCHANGED <<q_id, pairs, namespaces, unread, buffer, op, reply, asq, controller>>

wait_not_ready_skipped ==
    /\ stage = "disabled" /\ Goto("configured")
    /\ UNCHANGED <<q_id, pairs, namespaces, unread, buffer, op, reply, registers, controller>>

\* init: spin until CSTS.RDY is clear.
wait_not_ready ==
    /\ ~csts_rdy
    /\ stage = "disabled" /\ Goto("configured")
    /\ UNCHANGED <<q_id, pairs, namespaces, unread, buffer, op, reply, registers, controller>>

\* init: write ASQ, ACQ, AQA and the entry sizes.
configure ==
    /\ stage = "configured" /\ Goto("prepared")
    /\ asq' = "driver"
    /\ UNCHANGED <<q_id, pairs, namespaces, unread, buffer, op, reply, cc_en, controller>>

\* init: set CC.EN.
enable ==
    /\ stage = "prepared" /\ Goto("enabled")
    /\ cc_en' = TRUE
    /\ UNCHANGED <<q_id, pairs, namespaces, unread, buffer, op, reply, asq, controller>>

\* init: spin until CSTS.RDY is set, then ask for the device's own queue pair.
wait_ready ==
    /\ csts_rdy
    /\ stage = "enabled" /\ Goto("bring_up")
    /\ Admin("create_cq", q_id)
    /\ UNCHANGED <<q_id, pairs, namespaces, unread, buffer, registers, controller>>
-----------------------------------------------------------------------------
\* Where a failed creation leaves the caller: init's error is a panic.
Refused == Goto(IF stage = "bring_up" THEN "failed" ELSE "idle") /\ NoAdmin

\* A completion queue is there (or was refused): ask for the submission queue.
create_sq ==
    /\ Answered("create_cq")
    /\ \/ Succeeded /\ Admin("create_sq", op.id) /\ UNCHANGED stage
       \/ Erred /\ Refused
    /\ UNCHANGED <<q_id, pairs, namespaces, unread, buffer, registers, controller>>

\* Both queues are there: init goes on to identify, a caller gets its pair.
pair_created ==
    /\ Answered("create_sq")
    /\ \/ Succeeded /\ q_id' = q_id + 1
          /\ \/ stage = "bring_up" /\ Admin("identify_controller", 0) /\ UNCHANGED <<stage, pairs>>
             \/ stage = "creating" /\ Goto("idle") /\ NoAdmin /\ pairs' = pairs \cup {op.id}
       \/ Erred /\ Refused /\ UNCHANGED <<q_id, pairs>>
    /\ UNCHANGED <<namespaces, unread, buffer, registers, controller>>

\* identify_controller only logs what it reads, whatever the status.
controller_identified ==
    /\ Answered("identify_controller")
    /\ Admin("identify_list", 0)
    /\ UNCHANGED <<stage, q_id, pairs, namespaces, unread, buffer, registers, controller>>

\* The loop of init over the namespace list.
IdentifyNext(todo) ==
    IF todo = {} THEN Goto("idle") /\ NoAdmin
    ELSE UNCHANGED stage /\ \E n \in todo : Admin("identify_namespace", n)

\* The list is read out of the buffer, whatever the status: after an error it
\* still holds what the last successful command left there, which may read as
\* any list; ids that no namespace has are left out.
list_identified ==
    /\ Answered("identify_list")
    /\ \E list \in IF buffer.cmd = "identify_list" THEN {Namespace} ELSE SUBSET Namespace :
          unread' = list /\ IdentifyNext(list)
    /\ UNCHANGED <<q_id, pairs, namespaces, buffer, registers, controller>>

identify_namespace(n) ==
    <<n, IF buffer = [cmd |-> "identify_namespace", id |-> n] THEN "data" ELSE "junk">>

namespace_identified ==
    /\ Answered("identify_namespace")
    /\ namespaces' = namespaces \cup {identify_namespace(op.id)}
    /\ unread' = unread \ {op.id}
    /\ IdentifyNext(unread \ {op.id})
    /\ UNCHANGED <<q_id, pairs, buffer, registers, controller>>
-----------------------------------------------------------------------------
\* create_io_queue_pair up to its first command; the assertion on the doorbell.
create_io_queue_pair ==
    /\ stage = "idle"
    /\ \/ q_id \in Queue /\ Goto("creating") /\ Admin("create_cq", q_id)
       \/ q_id \notin Queue /\ Goto("panicked") /\ NoAdmin
    /\ UNCHANGED <<q_id, pairs, namespaces, unread, buffer, registers, controller>>

delete_cq_first(q) ==
    /\ stage = "idle" /\ q \in pairs
    /\ Goto("deleting") /\ Admin("delete_cq", q)
    /\ pairs' = pairs \ {q}
    /\ UNCHANGED <<q_id, namespaces, unread, buffer, registers, controller>>

\* delete_io_queue_pair takes the pair from its caller, whatever comes of it.
delete_io_queue_pair(q) ==
    /\ stage = "idle" /\ q \in pairs
    /\ Goto("deleting") /\ Admin("delete_sq", q)
    /\ pairs' = pairs \ {q}
    /\ UNCHANGED <<q_id, namespaces, unread, buffer, registers, controller>>

\* ... and goes on to the completion queue once the submission queue is gone.
delete_cq ==
    /\ Answered("delete_sq")
    /\ \/ Succeeded /\ Admin("delete_cq", op.id) /\ UNCHANGED stage
       \/ Erred /\ Goto("idle") /\ NoAdmin
    /\ UNCHANGED <<q_id, pairs, namespaces, unread, buffer, registers, controller>>

\* clear_namespace of all namespaces, or of one that init has found.
clear_namespace ==
    /\ stage = "idle"
    /\ \E n \in {0} \cup {ns[1] : ns \in namespaces} : Admin("format", n)
    /\ Goto("clearing")
    /\ UNCHANGED <<q_id, pairs, namespaces, unread, buffer, registers, controller>>

returned_on_ok ==
    /\ Answered("delete_cq") \/ Answered("format")
    /\ Succeeded /\ Goto("idle") /\ NoAdmin
    /\ UNCHANGED <<q_id, pairs, namespaces, unread, buffer, registers, controller>>

\* The last command of a call: delete_io_queue_pair hands its status to the
\* caller, clear_namespace drops it.
returned ==
    /\ Answered("delete_cq") \/ Answered("format")
    /\ Goto("idle") /\ NoAdmin
    /\ UNCHANGED <<q_id, pairs, namespaces, unread, buffer, registers, controller>>
-----------------------------------------------------------------------------
\* The controller sees CC.EN clear: it drops its queues and the admin rings.
reset ==
    /\ ~cc_en /\ csts_rdy
    /\ csts_rdy' = FALSE /\ rings' = "none" /\ cqs' = {} /\ sqs' = {}
    /\ UNCHANGED <<driver, reply, registers, refusable>>

\* The controller sees CC.EN set: it takes the admin rings and becomes ready.
become_ready ==
    /\ cc_en /\ ~csts_rdy
    /\ csts_rdy' = TRUE /\ rings' = asq
    /\ UNCHANGED <<driver, reply, registers, refusable, cqs, sqs>>

\* What the controller's rules on queues say of a command.
Permitted(o) ==
    CASE o.cmd = "create_cq" -> o.id \notin cqs
      [] o.cmd = "create_sq" -> o.id \in cqs /\ \A s \in sqs : s[1] # o.id
      [] o.cmd = "delete_sq" -> \E s \in sqs : s[1] = o.id
      [] o.cmd = "delete_cq" -> o.id \in cqs /\ \A s \in sqs : s[2] # o.id
      [] OTHER -> TRUE

\* The driver's commands name the same id for a queue and its completion queue.
Perform(o) ==
    /\ cqs' = CASE o.cmd = "create_cq" -> cqs \cup {o.id}
                [] o.cmd = "delete_cq" -> cqs \ {o.id}
                [] OTHER -> cqs
    /\ sqs' = CASE o.cmd = "create_sq" -> sqs \cup {<<o.id, o.id>>}
                [] o.cmd = "delete_sq" -> {s \in sqs : s[1] # o.id}
                [] OTHER -> sqs
    /\ buffer' = IF o.cmd \in {"identify_controller", "identify_list", "identify_namespace"}
                 THEN o ELSE buffer

\* It reads its own rings, the ones it took when it was enabled.
Listening == csts_rdy /\ rings = "driver" /\ op # NoOp /\ reply = "none"

execute ==
    /\ Listening /\ Permitted(op)
    /\ Perform(op) /\ reply' = "ok"
    /\ UNCHANGED <<stage, q_id, pairs, namespaces, unread, op, registers, csts_rdy, rings, refusable>>

refuse ==
    /\ Listening
    /\ \/ ~Permitted(op) /\ reply' = "invalid"
       \/ op.cmd \in refusable /\ reply' = "refused"
    /\ UNCHANGED <<driver, registers, controller>>
-----------------------------------------------------------------------------
Bring_up == disable \/ wait_not_ready \/ configure \/ enable \/ wait_ready

Continue == create_sq \/ pair_created \/ controller_identified \/ list_identified
            \/ namespace_identified \/ delete_cq \/ returned

Call == create_io_queue_pair \/ clear_namespace \/ \E q \in Queue : delete_io_queue_pair(q)

Device == reset \/ become_ready \/ execute \/ refuse

Next == Bring_up \/ Continue \/ Call \/ Device

Spec == Init /\ [][Next]_vars

\* The driver's thread runs on, and the controller answers.
FairSpec == Spec /\ WF_vars(Bring_up \/ Continue) /\ WF_vars(Device)
-----------------------------------------------------------------------------
\* A command waits only on a controller that is up and reads the driver's own
\* admin rings: init resets a controller that the firmware left running, and
\* sees the reset through, before it writes ASQ and ACQ.
AdminReady == op # NoOp => cc_en /\ csts_rdy /\ rings = "driver"

\* Every queue pair a caller holds, and the device's own once init is through
\* with it, exists on the controller as a submission queue and the completion
\* queue of the same id.
PairsBacked ==
    \A q \in pairs \cup (IF q_id > OwnQueue THEN {OwnQueue} ELSE {}) :
        q \in cqs /\ <<q, q>> \in sqs

\* The queues never forbid a command, since ids are not reused and a submission
\* queue comes after and goes before its completion queue, with one exception:
\* create_io_queue_pair, called again after its second command was refused, asks
\* for the completion queue that the first one has left behind.
NeverOutOfOrder ==
    reply = "invalid" => /\ op.cmd = "create_cq" /\ "create_sq" \in refusable
                         /\ op.id = q_id /\ \A s \in sqs : s[2] # q_id

\* What identify_namespace recorded is what the controller reported of that
\* namespace, not what another command left in the buffer, unless the controller
\* may refuse to identify: the result of those commands is dropped.
NamespacesReal ==
    {"identify_list", "identify_namespace"} \cap refusable = {} =>
        \A ns \in namespaces : ns[2] = "data"

\* init comes to an end, whatever state the firmware left the controller in, and
\* so does every call: none waits for ever for CSTS.RDY or for a completion.
CallsEnd ==
    /\ <>(stage \in {"idle", "failed"})
    /\ stage \in {"creating", "deleting", "clearing"} ~> stage = "idle"
=============================================================================
