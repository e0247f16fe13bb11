------------------------------ MODULE MCGcHeap ------------------------------
(* GcHeap on small heaps.                                                  *)
EXTENDS GcHeap

\* TLC evaluates the functions of a state when they are compared.
Evaluated == <<mem = <<>>, object = <<>>, cost = <<>>, freeList = <<>> >>

\* What tells two states apart: not the memory outside every object, which is
\* never read without being written first unless LiveMemoryKept fails, and not
\* the leftovers of a finished allocation or collection.
View ==
    << Evaluated, [a \in Allocated |-> mem[a]], ptr, freeList, current, rootVars, pc,
       IF pc = "program" THEN <<>> ELSE allocVars,
       flag, pending,
       IF pc \in {"mark", "reclaim"} THEN <<cost, next, reclaimed>> ELSE <<reclaimed > 0>> >>
=============================================================================
