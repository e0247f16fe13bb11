---------------------------- MODULE MCMachineHeap ---------------------------
(* MachineHeap on small heaps.                                             *)
EXTENDS MachineHeap

\* TLC evaluates the functions of a state when they are compared.
Evaluated == <<mem = <<>>, object = <<>>, cost = <<>>, freeList = <<>>, slots = <<>> >>

\* All but the leftovers of a finished allocation or collection.  The memory outside
\* every object counts here: a slot that was not cleared may lead to it.
View ==
    << Evaluated, memVars, rootVars, slots, unset, stale, pc,
       IF pc = "program" THEN <<>> ELSE allocVars,
       flag, pending,
       IF pc \in {"mark", "reclaim"} THEN <<cost, next, reclaimed>> ELSE <<reclaimed > 0>> >>
=============================================================================
