------------------------------- MODULE Listing -------------------------------
(***************************************************************************)
(* What the code of a procedure promises: to run the instructions of       *)
(* compile_form in the order of their list, which the passes over the list *)
(* may rewrite, and assemble lay out in bytes, as they like.  Nops and     *)
(* branches take no step, and the program stops at the operands that it    *)
(* would stop at in this order.  A call that nothing but these lies        *)
(* between and the return is the last thing that the procedure does.       *)
(***************************************************************************)
EXTENDS Instructions

VARIABLES
    form,     \* the body of the procedure
    x,        \* its argument
    at,       \* the instruction to run, 0 before the call
    slots,    \* the argument and the locals, by slot index
    temps,    \* the temporaries, the topmost first
    y,        \* the global variable
    result,   \* what the procedure returns, Stopped if the program stops at a BREAK
    returned  \* or stopped

vars == <<form, x, at, slots, temps, y, result, returned>>

List == ListOf(form)
Here == List[at]

\* The body, the argument and the value of the global variable are given.
Init ==
    /\ at = 0
    /\ slots = <<>> /\ temps = <<>>
    /\ result = Unspecified /\ returned = FALSE

Enter ==
    /\ at = 0 /\ at' = Settled(List)[1]
    /\ slots' = [i \in {0} \cup ((-(3 + Locals[form])) .. -4) |-> IF i = 0 THEN x ELSE Unspecified]
    /\ UNCHANGED <<form, x, temps, y, result, returned>>

Running(op) == at # 0 /\ ~returned /\ Here.op = op

\* Takes n temporaries off, pushes those of pushed, and goes on to the to-th instruction from here.
Execute(op, n, pushed, to) ==
    /\ Running(op) /\ Len(temps) >= n /\ ~Faulty(op, temps)
    /\ temps' = pushed \o SubSeq(temps, n + 1, Len(temps))
    /\ at' = Settled(List)[at + to]
    /\ UNCHANGED <<form, x, result, returned>>

LoadImmediate ==
    Running("LDIMM") /\ Execute("LDIMM", 0, <<Here.data>>, 1) /\ UNCHANGED <<slots, y>>

LoadSlot ==
    Running("LDSLOT") /\ Execute("LDSLOT", 0, <<slots[Here.data]>>, 1) /\ UNCHANGED <<slots, y>>

StoreSlot ==
    /\ Execute("STSLOT", 1, <<>>, 1)
    /\ slots' = [slots EXCEPT ![Here.data] = temps[1]]
    /\ UNCHANGED y

GetBoundLocation ==
    /\ Running("GET_BOUND_LOCATION")
    /\ Execute("GET_BOUND_LOCATION", 0, << <<"location", Here.data>> >>, 1)
    /\ UNCHANGED <<slots, y>>

LoadGlobal ==
    /\ Execute("LOAD", 1, << (IF temps[1] = <<"location", "y">> THEN y ELSE Procedure) >>, 1)
    /\ UNCHANGED <<slots, y>>

StoreGlobal ==
    /\ Execute("STORE", 2, <<>>, 1)
    /\ y' = temps[2]
    /\ UNCHANGED slots

Op == Execute("OP", 2, << <<"op", temps[2], temps[1]>> >>, 1) /\ UNCHANGED <<slots, y>>

CondBranch ==
    /\ Execute("COND_BRANCH", 1, <<>>, IF temps[1] # False THEN Here.to ELSE 1)
    /\ UNCHANGED <<slots, y>>

Called == <<"call", temps[2], temps[3]>>
LastCall == Running("CALL") /\ List[Settled(List)[at + 1]].op = "RETURN"

Call == ~LastCall /\ Execute("CALL", 3, <<Called>>, 1) /\ UNCHANGED <<slots, y>>

Return ==
    /\ \/ Running("RETURN") /\ temps # <<>> /\ result' = temps[1]
       \/ LastCall /\ Len(temps) >= 3 /\ result' = Called
    /\ returned' = TRUE
    /\ UNCHANGED <<form, x, at, slots, temps, y>>

Break ==
    /\ at # 0 /\ ~returned /\ Faulty(Here.op, temps)
    /\ result' = Stopped
    /\ returned' = TRUE
    /\ UNCHANGED <<form, x, at, slots, temps, y>>

Next ==
    \/ Enter \/ LoadImmediate \/ LoadSlot \/ StoreSlot \/ GetBoundLocation \/ LoadGlobal \/ StoreGlobal
    \/ Op \/ CondBranch \/ Call \/ Return \/ Break

Spec == Init /\ [][Next]_vars
=============================================================================
