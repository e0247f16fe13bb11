-------------------------------- MODULE Passes --------------------------------
(***************************************************************************)
(* From the list of instructions that compile_form builds to a run of the  *)
(* code: the passes over the list (collapse_nops,                          *)
(* eliminate_branch_to_return, promote_tailcalls), assemble, and the run   *)
(* of the bytecode on a frame of vm.c (lambda.c, vm.c).                    *)
(*                                                                         *)
(* A value is a tuple; operators and the procedure f make a new one of     *)
(* their operands, in order, which is a number.  VM_ASSERT is active, as   *)
(* it is in a build without NDEBUG.                                        *)
(***************************************************************************)
EXTENDS Instructions

CONSTANTS
    Programs,    \* the bodies to compile
    Arguments,   \* the values of x
    Globals      \* the values of y when the procedure is called

Opcodes == {"LDIMM", "LDSLOT", "STSLOT", "GET_BOUND_LOCATION", "LOAD", "STORE", "OP",
            "COND_BRANCH", "BRANCH", "CALL", "NOP"}

\* What compile_form makes: branches lead on, and a conditional one, which compile_if alone makes,
\* to the first instruction of a consequent.
CompiledAssumption ==
    /\ Locals \in [Programs -> Nat]
    /\ \A p \in Programs :
           LET list == Compiled[p] IN
           /\ list \in Seq({list[i] : i \in DOMAIN list})
           /\ \A i \in DOMAIN list :
                 /\ list[i] = Insn(list[i].op, list[i].data, list[i].to)
                 /\ list[i].op \in Opcodes
                 /\ list[i].op = "BRANCH" => list[i].to \in 1..Len(list) + 1 - i
                 /\ list[i].op = "COND_BRANCH" =>
                       /\ list[i].to \in 1..Len(list) - i
                       /\ list[i + list[i].to].op \notin {"NOP", "BRANCH"}
ASSUME CompiledAssumption

\* No nop follows another: no if is the end of the consequent of an if.
NopsApart ==
    \A p \in Programs : \A i \in 1..Len(Compiled[p]) - 1 :
        ~(Compiled[p][i].op = "NOP" /\ Compiled[p][i + 1].op = "NOP")

VARIABLES
    form,     \* the body of the lambda
    x,        \* its argument
    global,   \* the value that the global variable y has before the call
    phase,    \* "compile", "collapse", "eliminate", "promote", "assemble", "run", "done"
    insns,    \* the instructions, in the order they run
    next,     \* link.next of each: the instruction before it, 0 for NULL
    cursor,   \* where a pass over the list is, from the last instruction to the first
    code,     \* the bytecode: an instruction at each offset that begins one
    pc,       \* the offset of the next instruction
    slots,    \* the argument and the locals, by slot index
    temps,    \* the temporaries, the topmost first
    y,        \* the global variable
    result    \* what RETURN or TAILCALL returns, Stopped if the program stopped at a BREAK

vmVars == <<pc, slots, temps, y, result>>
vars == <<form, x, global, phase, insns, next, cursor, code, vmVars>>

-----------------------------------------------------------------------------
Init ==
    /\ form \in Programs /\ x \in Arguments /\ global \in Globals
    /\ phase = "compile"
    /\ insns = <<>> /\ next = <<>> /\ cursor = 0
    /\ code = <<>>
    /\ pc = 0 /\ slots = <<>> /\ temps = <<>> /\ y = global
    /\ result = Unspecified

Pass(from) == phase = from /\ UNCHANGED <<form, x, global, code, vmVars>>

\* compile_form_to_bytecode: the forms of the body, then add_return_insn.
CompileBody ==
    /\ Pass("compile")
    /\ insns' = ListOf(form)
    /\ next' = [i \in DOMAIN insns' |-> i - 1]
    /\ phase' = "collapse" /\ cursor' = Len(insns')

\* The instructions of the list, from the last one back.
Linked ==
    LET from[i \in 0 .. Len(insns)] == IF i = 0 THEN {} ELSE {i} \cup from[next[i]]
    IN  from[Len(insns)]

IsBranch(i) == insns[i].op \in {"BRANCH", "COND_BRANCH"}
Target(i) == i + insns[i].to

\* A pass goes on to the instruction before, and to the next pass at the end.
GoOn(to) ==
    /\ cursor' = IF next[cursor] = 0 THEN Len(insns) ELSE next[cursor]
    /\ phase' = IF next[cursor] = 0 THEN to ELSE phase

\* Mutants of EradicateNop: the branches are left alone; only conditional ones are looked at.
EradicateNothing(nop, prev) == insns
EradicateConditional(nop, prev) ==
    [i \in DOMAIN insns |->
        IF insns[i].op = "COND_BRANCH" /\ Target(i) = nop
        THEN [insns[i] EXCEPT !.to = prev - i] ELSE insns[i]]

\* eradicate_nop: the branches of the list that led to the nop lead to what follows it.
EradicateNop(nop, prev) ==
    [i \in DOMAIN insns |->
        IF IsBranch(i) /\ Target(i) = nop /\ i \in Linked
        THEN [insns[i] EXCEPT !.to = prev - i] ELSE insns[i]]

\* An iteration of collapse_nops. prev is the instruction looked at before this one,
\* whether it is still in the list or not.
CollapseNops ==
    /\ Pass("collapse")
    /\ LET prev == cursor + 1 IN
          \/ /\ insns[cursor].op = "NOP"
             /\ insns' = EradicateNop(cursor, prev)
             /\ next' = [next EXCEPT ![prev] = next[cursor]]
          \/ /\ insns[cursor].op # "NOP"
             /\ UNCHANGED <<insns, next>>
    /\ GoOn("eliminate")

\* Mutant of BranchToReturn: a branch that has become a return is not seen as one.
BranchToLast(i) == IsBranch(i) /\ Target(i) = Len(insns)

BranchToReturn(i) == IsBranch(i) /\ insns[Target(i)].op = "RETURN"

\* An iteration of eliminate_branch_to_return.
EliminateBranchToReturn ==
    /\ Pass("eliminate")
    /\ \/ BranchToReturn(cursor) /\ insns' = [insns EXCEPT ![cursor] = Insn("RETURN", 0, 0)]
       \/ ~BranchToReturn(cursor) /\ UNCHANGED insns
    /\ GoOn("promote")
    /\ UNCHANGED next

\* Mutant of PromoteTailcalls: a branch after a call is taken for a return.
PromoteAtBranches ==
    /\ Pass("promote")
    /\ insns' = [i \in DOMAIN insns |->
                    IF /\ insns[i].op = "CALL"
                       /\ \E j \in Linked : insns[j].op \in {"RETURN", "BRANCH"} /\ next[j] = i
                    THEN [insns[i] EXCEPT !.op = "TAILCALL"] ELSE insns[i]]
    /\ phase' = "assemble" /\ cursor' = 0
    /\ UNCHANGED next

\* promote_tailcalls.
PromoteTailcalls ==
    /\ Pass("promote")
    /\ insns' = [i \in DOMAIN insns |->
                    IF /\ insns[i].op = "CALL"
                       /\ \E j \in Linked : insns[j].op = "RETURN" /\ next[j] = i
                    THEN [insns[i] EXCEPT !.op = "TAILCALL"] ELSE insns[i]]
    /\ phase' = "assemble" /\ cursor' = 0
    /\ UNCHANGED next

-----------------------------------------------------------------------------
(* assemble.                                                               *)

\* instruction_t.size: the bytes after the opcode.
Size(op) ==
    CASE op = "LDIMM" -> 1
      [] op \in {"LDSLOT", "STSLOT", "BRANCH", "COND_BRANCH", "CALL", "TAILCALL"} -> 2
      [] op = "GET_BOUND_LOCATION" -> 8
      [] OTHER -> 0

\* calculate_bytecode_size_and_offsets; that of an instruction out of the list stays 0.
Offsets ==
    LET after[i \in 0 .. Len(insns)] == IF i = 0 THEN 0 ELSE after[next[i]] + 1 + Size(insns[i].op)
    IN  [i \in DOMAIN insns |-> IF i \in Linked THEN after[next[i]] ELSE 0]

\* Mutant of Displacement: from the branch's own offset.
DisplacementFromOpcode(from, to) == to - from

Displacement(from, to) == to - (from + 3)

\* The instruction at an offset.
InsnAt(o) == CHOOSE i \in Linked : Offsets[i] = o

Bytecode ==
    LET offset == Offsets
        insnAt == [o \in {offset[i] : i \in Linked} |-> InsnAt(o)]
        Coded(i) == [op   |-> insns[i].op,
                     data |-> IF IsBranch(i) THEN Displacement(offset[i], offset[Target(i)])
                              ELSE insns[i].data]
    IN  [o \in DOMAIN insnAt |-> Coded(insnAt[o])]

\* Mutant of FrameSlots: as many locals as there are lets around the innermost.
FrameSlotsShort == (-(3 + Locals[form] - 1)) .. -4

\* The locals CALL makes room for.
FrameSlots == (-(3 + Locals[form])) .. -4

\* assemble; then the procedure is called with x.
Assemble ==
    /\ phase = "assemble" /\ phase' = "run"
    /\ code' = Bytecode
    /\ slots' = [i \in {0} \cup FrameSlots |-> IF i = 0 THEN x ELSE Unspecified]
    /\ UNCHANGED <<form, x, global, insns, next, cursor, pc, temps, y, result>>

-----------------------------------------------------------------------------
(* The instructions, on the frame of a vm_run.                             *)

At(op) == phase = "run" /\ pc \in DOMAIN code /\ code[pc].op = op

Data == code[pc].data

\* The instruction takes n temporaries off and pushes those of pushed.
Execute(op, n, pushed) ==
    /\ At(op) /\ Len(temps) >= n /\ ~Faulty(op, temps)
    /\ temps' = pushed \o SubSeq(temps, n + 1, Len(temps))
    /\ UNCHANGED <<form, x, global, phase, insns, next, cursor, code, result>>

Advance == pc' = pc + 1 + Size(code[pc].op)

LoadImmediate ==
    At("LDIMM") /\ Execute("LDIMM", 0, <<Data>>) /\ Advance /\ UNCHANGED <<slots, y>>

LoadSlot ==
    At("LDSLOT") /\ Execute("LDSLOT", 0, <<slots[Data]>>) /\ Advance /\ UNCHANGED <<slots, y>>

StoreSlot ==
    /\ Execute("STSLOT", 1, <<>>) /\ Advance
    /\ slots' = [slots EXCEPT ![Data] = temps[1]]
    /\ UNCHANGED y

GetBoundLocation ==
    /\ At("GET_BOUND_LOCATION")
    /\ Execute("GET_BOUND_LOCATION", 0, << <<"location", Data>> >>) /\ Advance
    /\ UNCHANGED <<slots, y>>

LoadGlobal ==
    /\ Execute("LOAD", 1, << (IF temps[1] = <<"location", "y">> THEN y ELSE Procedure) >>)
    /\ Advance
    /\ UNCHANGED <<slots, y>>

\* STORE, to the global variable.
StoreGlobal ==
    /\ Execute("STORE", 2, <<>>) /\ Advance
    /\ y' = temps[2]
    /\ UNCHANGED slots

\* The binary operators: the first operand is the one pushed first.
Op ==
    /\ Execute("OP", 2, << <<"op", temps[2], temps[1]>> >>) /\ Advance
    /\ UNCHANGED <<slots, y>>

Branch ==
    /\ At("BRANCH") /\ pc' = pc + 3 + Data
    /\ UNCHANGED <<form, x, global, phase, insns, next, cursor, code, slots, temps, y, result>>

\* Taken unless the condition is false.
CondBranch ==
    /\ Execute("COND_BRANCH", 1, <<>>)
    /\ pc' = pc + 3 + (IF temps[1] # False THEN Data ELSE 0)
    /\ UNCHANGED <<slots, y>>

\* What f makes of the arguments below it, argument 0 the topmost.
Called == <<"call", temps[2], temps[3]>>

Call ==
    /\ Execute("CALL", 3, <<Called>>) /\ Advance
    /\ UNCHANGED <<slots, y>>

Return ==
    /\ \/ At("RETURN") /\ temps # <<>> /\ result' = temps[1]
       \/ At("TAILCALL") /\ Len(temps) >= 3 /\ result' = Called
    /\ phase' = "done"
    /\ UNCHANGED <<form, x, global, insns, next, cursor, code, pc, slots, temps, y>>

\* BREAK, of VM_ASSERT or of LOAD: the program stops.
Break ==
    /\ \E op \in {"COND_BRANCH", "LOAD", "OP"} : At(op) /\ Faulty(op, temps)
    /\ result' = Stopped
    /\ phase' = "done"
    /\ UNCHANGED <<form, x, global, insns, next, cursor, code, pc, slots, temps, y>>

Compiling ==
    \/ CompileBody \/ CollapseNops \/ EliminateBranchToReturn \/ PromoteTailcalls \/ Assemble

Running ==
    \/ LoadImmediate \/ LoadSlot \/ StoreSlot \/ GetBoundLocation \/ LoadGlobal \/ StoreGlobal \/ Op
    \/ Branch \/ CondBranch \/ Call \/ Return \/ Break

Done == phase = "done" /\ UNCHANGED vars

Next == Compiling \/ Running \/ Done

Spec == Init /\ [][Next]_vars

-----------------------------------------------------------------------------
TypeOK ==
    /\ x \in Arguments
    /\ phase \in {"compile", "collapse", "eliminate", "promote", "assemble", "run", "done"}
    /\ cursor \in 0 .. Len(insns)
    /\ next \in Seq(0 .. Len(insns)) /\ Len(next) = Len(insns)
    /\ phase = "run" => pc \in DOMAIN code

\* Every branch that is assembled leads to an instruction that is assembled: the nops
\* taken out by collapse_nops have left no branch behind.
BranchesLand ==
    phase = "run" /\ pc = 0 =>
        \A i \in Linked : IsBranch(i) => Target(i) \in Linked

\* The frame has a slot of its own for every variable in scope: no let stores beyond
\* max_stack_slots, into the temporaries.
LocalsReserved ==
    phase = "run" /\ pc = 0 => \A o \in DOMAIN code :
        code[o].op \in {"LDSLOT", "STSLOT"} => code[o].data \in DOMAIN slots

\* A return follows offset o with nothing but branches before it.
Returns(o) ==
    LET land[p \in DOMAIN code] == IF code[p].op = "BRANCH" THEN land[p + 3 + code[p].data] ELSE p
    IN  code[land[o]].op = "RETURN"

\* A call in tail position is a TAILCALL, however many ifs it is in: the passes leave
\* no CALL whose value is returned next.
ProperTailCalls == At("CALL") => ~Returns(pc + 3)

\* Forms have no loops, and neither has their code: every instruction goes on to one
\* further on, so that a procedure that calls no other comes to its RETURN, or stops.
StepsForward == [][phase = "run" => pc' > pc \/ phase' = "done"]_vars

\* The code does what the list that compile_form built says, whatever the passes made of it: each
\* instruction of the code, reached over branches that were led elsewhere or became returns, has the
\* operands, the effect and the successor of an instruction of the list.
Straight == INSTANCE Listing WITH
    at <- IF phase \in {"run", "done"} THEN Settled(ListOf(form))[InsnAt(pc)] ELSE 0,
    returned <- phase = "done"
ImplementsListing == Straight!Spec
=============================================================================
