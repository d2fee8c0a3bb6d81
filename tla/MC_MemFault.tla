---------------------------- MODULE MC_MemFault ----------------------------
(* Instantiation of MemFault for TLC.  Page addresses 0..8:                *)
(*   0..1  a writable file-backed VMA mapping file pages 5..6;             *)
(*   2     a hole below the anonymous VMA (bad_area: not VM_GROWSDOWN);    *)
(*   3     a writable anonymous VMA;                                       *)
(*   4     below the stack, beyond the limit (expand_stack() fails);       *)
(*   5     below the stack, within the limit (expand_stack() succeeds);    *)
(*   6     a VM_GROWSDOWN stack;                                           *)
(*   7     user space above every VMA (find_vma() is NULL);                *)
(*   8     kernel space (TASK_SIZE_MAX = 8).                               *)
EXTENDS MemFault, TLC

CONSTANTS h1, h2

MC_Handlers == {h1, h2}
MC_Vma == [v \in {"file", "anon", "stack"} |->
             CASE v = "file"  -> [start |-> 0, end |-> 2, write |-> TRUE,
                                  growsdown |-> FALSE, file |-> TRUE, pgoff |-> 5]
               [] v = "anon"  -> [start |-> 3, end |-> 4, write |-> TRUE,
                                  growsdown |-> FALSE, file |-> FALSE, pgoff |-> 0]
               [] v = "stack" -> [start |-> 6, end |-> 7, write |-> TRUE,
                                  growsdown |-> TRUE, file |-> FALSE, pgoff |-> 0]]
MC_Addrs == 0..8
MC_OneHandler == {h1}
MC_Symmetry == Permutations(MC_Handlers)
====
