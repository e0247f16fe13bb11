------------------------------ MODULE MCVmStack ------------------------------
(* VmStack with a few small procedures.                                    *)
EXTENDS VmStack

\* A procedure of one argument and one local, one of two arguments, a closure without.
MCNumArgs == <<1, 2, 0>>
MCNumLocals == <<1, 0, 0>>
MCEnvOf == <<0, 0, 1>>

\* The part of the stack below every frame is read only as locals that hold no value.
View == <<[a \in DOMAIN memory |-> IF runs = <<>> \/ a <= run.sp THEN Zero ELSE memory[a]],
          stackPtr, runs, result>>
=============================================================================
