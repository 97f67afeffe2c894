---------------------------- MODULE MCKernelLocks ---------------------------
(***************************************************************************)
(* Every pair of calls on one CPU and on two.  The threads start alike, so *)
(* each pair is taken in one order.                                        *)
(***************************************************************************)
EXTENDS KernelLocks

Order ==
    <<"new_user_process", "new_kernel_thread", "new_user_thread", "heap_allocate", "heap_allocate_writing",
      "heap_clear", "exit_process", "switch_to", "map_bar", "alloc_for_dma", "set_font",
      "register_irq_handler", "syscall_print", "syscall_switch_to">>

ASSUME EveryCall == {Order[i] : i \in DOMAIN Order} = Call

Pairs ==
    {[t \in Thread |-> Order[k[t]]] :
        k \in {k \in [Thread -> DOMAIN Order] : \A t, u \in Thread : t < u => k[t] <= k[u]}}
=============================================================================
