--------------------------- MODULE CommandContract ---------------------------
(***************************************************************************)
(* What a pair of NVMe queues promises to its user: a command is handed to *)
(* the controller, the controller finishes it once, the user collects it   *)
(* once.  Rings, phase bits and doorbells do not show.                     *)
(***************************************************************************)
CONSTANT Command

VARIABLES
    held,    \* the commands, and their buffers, the controller may touch
    done     \* the commands it finished and the user has not collected

Init == held = {} /\ done = {}

Submit ==
    \E c \in Command \ (held \cup done) : held' = held \cup {c} /\ UNCHANGED done

Finish ==
    \E c \in held : held' = held \ {c} /\ done' = done \cup {c}

Collect ==
    \E S \in (SUBSET done) \ {{}} : done' = done \ S /\ UNCHANGED held

Next == Submit \/ Finish \/ Collect

Spec == Init /\ [][Next]_<<held, done>>
=============================================================================
