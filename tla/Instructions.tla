----------------------------- MODULE Instructions -----------------------------
(***************************************************************************)
(* The instructions of the compiler (lambda.h, vm.h) and the lists of them *)
(* that compile_form builds, one for the body of each lambda.              *)
(***************************************************************************)
EXTENDS Integers, Sequences

CONSTANTS
    Compiled,    \* what compile_form makes of each body, in the order it runs
    Locals       \* max_stack_slots of each

False == <<"#f">>
True == <<"#t">>
Unspecified == <<"unspecified">>
Procedure == <<"procedure">>
Stopped == <<"stopped">>     \* no value: the program has stopped at a BREAK

IsBoolean(v) == v \in {False, True}

\* What operators take: the tuples that name neither a boolean nor the procedure f.
IsNumber(v) == v \notin {False, True, Unspecified, Procedure}

IsBound(location) == location \in {<<"location", "y">>, <<"location", "f">>}

\* An instruction stops the program at operands it does not take: COND_BRANCH at a condition
\* that is no boolean, LOAD at the empty pair of an unbound variable, an operator at an
\* operand that is no number.
Faulty(op, temps) ==
    \/ op = "COND_BRANCH" /\ temps # <<>> /\ ~IsBoolean(temps[1])
    \/ op = "LOAD" /\ temps # <<>> /\ ~IsBound(temps[1])
    \/ op = "OP" /\ Len(temps) >= 2 /\ ~(IsNumber(temps[1]) /\ IsNumber(temps[2]))

\* An instruction; a branch leads to the to-th instruction after it.
Insn(op, data, to) == [op |-> op, data |-> data, to |-> to]

\* add_return_insn.
ListOf(p) == Append(Compiled[p], Insn("RETURN", 0, 0))

\* Where an instruction of a list leads that only leads on: to the next one that does something.
Settled(list) ==
    LET go[i \in 1..Len(list)] ==
            IF list[i].op = "NOP" THEN go[i + 1]
            ELSE IF list[i].op = "BRANCH" THEN go[i + list[i].to]
            ELSE i
    IN  go
=============================================================================
