------------------------------- MODULE VmStack -------------------------------
(***************************************************************************)
(* The evaluation stack of vm.c: how CALL, TAILCALL and RETURN lay out,    *)
(* replace and remove frames in it, and how special functions (evil_apply, *)
(* evil_eval) run the virtual machine again on top of the same stack.      *)
(*                                                                         *)
(* Addresses are indices of struct evil_object_t in the stack, which grows *)
(* down: [args][area chain][environment chain][return][locals][temporaries]*)
(* with argument 0 at program_area.  The bodies of procedures are every    *)
(* sequence of instructions that keeps to its own temporaries and loads a  *)
(* local only when it holds a value.                                       *)
(***************************************************************************)
EXTENDS Integers, Sequences, SequencesExt

CONSTANTS
    StackSize,    \* stack_top - stack_bottom + 1: the bound on the depth
    Procedures,   \* the procedures, numbered from 1
    NumArgs,      \* FIELD_NUM_ARGS of each
    NumLocals,    \* FIELD_NUM_LOCALS of each
    EnvOf,        \* FIELD_LEXICAL_ENVIRONMENT of each
    SpecialArgs,  \* the argument counts of calls to special functions
    Offsets,      \* where the instruction after a call may be
    Values,       \* the values instructions and special functions make
    MaxTemps,     \* bound on the temporaries of a frame
    MaxRuns,      \* bound on the nesting of vm_run
    Operations    \* of "mixedArity", "applyClosure", "string", those performed

ASSUME FramesAssumption ==
    /\ StackSize \in Nat \ {0} /\ MaxTemps \in Nat /\ MaxRuns \in Nat \ {0}
    /\ Procedures \subseteq Nat \ {0}
    /\ NumArgs \in [Procedures -> Nat] /\ NumLocals \in [Procedures -> Nat]
    /\ EnvOf \in [Procedures -> Nat]
    /\ SpecialArgs \subseteq Nat /\ Offsets \subseteq Nat /\ Values \subseteq Nat
    /\ 0 \in Values
    /\ Operations \subseteq {"mixedArity", "applyClosure", "string"}

VARIABLES
    memory,    \* the slots of the stack
    stackPtr,  \* environment->stack_ptr
    runs,      \* the C variables of the vm_runs in progress, the innermost first
    result     \* what the last vm_run to end returned

vars == <<memory, stackPtr, runs, result>>

\* VM_SLOT_PROGRAM_AREA_CHAIN, VM_SLOT_LEXICAL_ENVIRONMENT_CHAIN, VM_SLOT_PC_CHAIN
\* and VM_SLOT_COUNT.
AreaChain == 1
EnvChain == 2
PcChain == 3
SlotCount == 3

Slot(tag, ref, count) == [tag |-> tag, ref |-> ref, count |-> count]

Datum(v) == Slot("value", v, 0)
Area(a) == Slot("area", a, 0)
Environment(e) == Slot("environment", e, 0)
ReturnAddress(p, offset) == Slot("return", p, offset)

\* NULL, as a procedure and as an address.
Null == 0

Zero == Slot("invalid", 0, 0)

StackTop == StackSize - 1

\* vm_slot_index.
SlotIndex(i) == -(i + SlotCount + 1)

\* The innermost vm_run: procedure, program_area, sp, lexical_environment_handle,
\* pc (0 at the entry of a procedure, then where the last call returns to),
\* old_stack, what it is doing, and args_passed and old_program_area of a call
\* to a special function.
run == Head(runs)

Executing == runs # <<>> /\ run.at = "instruction"

\* memory with the slots of seq at base and above.
Overwrite(base, seq) ==
    [a \in DOMAIN memory |-> IF a - base + 1 \in DOMAIN seq THEN seq[a - base + 1] ELSE memory[a]]

\* Mutant: the caller's lexical environment is not saved.
ChainWithoutEnvironment(p, offset, e, a) ==
    <<ReturnAddress(p, offset), Environment(Null), Area(a)>>

\* Mutant: the three slots are saved in the opposite order.
ChainSwapped(p, offset, e, a) == <<Area(a), Environment(e), ReturnAddress(p, offset)>>

\* The three slots below the arguments, from the lowest up.
Chain(p, offset, e, a) == <<ReturnAddress(p, offset), Environment(e), Area(a)>>

\* Mutant: no room is left for the locals.
FloorWithoutLocals(area, p) == area - SlotCount - 1

\* The first free slot of a frame of p that has no temporaries.
Floor(area, p) == area - SlotCount - 1 - NumLocals[p]

Temps == Floor(run.area, run.proc) - run.sp

Init ==
    /\ memory = [a \in 0 .. StackTop |-> Zero]
    /\ stackPtr = StackTop
    /\ runs = <<>>
    /\ result = Datum(0)

-----------------------------------------------------------------------------
(* vm_run.                                                                 *)

\* vm_run up to its first instruction, in the environment e: vm_push_args_to_stack
\* copies the arguments below the stack pointer, leaving the slot it pointed to
\* unused, and clears as many slots at the bottom of the stack; then an empty chain.
VmRun(p, args, e) ==
    LET n == NumArgs[p]
        area == stackPtr - n
    IN  /\ Floor(area, p) >= n - 1
        /\ memory' = [a \in DOMAIN memory |->
                        IF a < n THEN Zero
                        ELSE Overwrite(area - PcChain, Chain(Null, 0, Null, Null) \o args)[a]]
        /\ stackPtr' = area - 1
        /\ runs' = <<[sp |-> Floor(area, p), area |-> area, proc |-> p, pc |-> 0, env |-> e,
                      old |-> stackPtr, at |-> "instruction",
                      passed |-> 0, oldArea |-> Null]>> \o runs
        /\ result' = result

Arguments(p) == [1 .. NumArgs[p] -> {Datum(v) : v \in Values}]

\* The embedding program evaluates a procedure of its own environment.
EnterRun ==
    /\ runs = <<>>
    /\ \E p \in Procedures : EnvOf[p] = 0 /\ \E args \in Arguments(p) : VmRun(p, args, 0)

\* evil_apply and evil_eval run a procedure in the lexical environment they were
\* called in. evil_eval's procedure was made in that environment; evil_apply's is
\* any it is given.
ApplyProcedure ==
    /\ runs # <<>> /\ run.at \in {"special", "specialTail"} /\ Len(runs) < MaxRuns
    /\ \E p \in Procedures :
          /\ EnvOf[p] = run.env \/ "applyClosure" \in Operations
          /\ \E args \in Arguments(p) : VmRun(p, args, run.env)

-----------------------------------------------------------------------------
(* Instructions that make no call.                                         *)

Instruction(newMemory, sp) ==
    /\ memory' = newMemory
    /\ runs' = [runs EXCEPT ![1].sp = sp, ![1].at = "instruction"]
    /\ UNCHANGED <<stackPtr, result>>

Push(slot) == Instruction([memory EXCEPT ![run.sp] = slot], run.sp - 1)

CanPush == Temps < MaxTemps /\ run.sp > 0

\* LDIMM, LDEMPTY, LDFN, GET_BOUND_LOCATION.
PushValue == Executing /\ CanPush /\ \E v \in Values : Push(Datum(v))

\* The operands of LDSLOT and STSLOT: get_stack_slot's arguments and locals.
SlotOperands ==
    (0 .. NumArgs[run.proc] - 1) \cup {SlotIndex(i) : i \in 0 .. NumLocals[run.proc] - 1}

LoadSlot ==
    /\ Executing /\ CanPush
    /\ \E i \in SlotOperands : memory[run.area + i].tag = "value" /\ Push(memory[run.area + i])

StoreSlot ==
    /\ Executing /\ Temps >= 1
    /\ \E i \in SlotOperands :
          Instruction([memory EXCEPT ![run.area + i] = memory[run.sp + 1]], run.sp + 1)

\* POP, COND_BRANCH.
Pop == Executing /\ Temps >= 1 /\ Instruction(memory, run.sp + 1)

\* The binary operators: the result takes the place of the second operand.
Binop ==
    /\ Executing /\ Temps >= 2
    /\ \E v \in Values : Instruction([memory EXCEPT ![run.sp + 2] = Datum(v)], run.sp + 1)

\* LDSTR allocates, which may collect, before it pushes.
LoadString ==
    /\ "string" \in Operations
    /\ Executing /\ CanPush
    /\ runs' = [runs EXCEPT ![1].at = "string"]
    /\ UNCHANGED <<memory, stackPtr, result>>

PushString ==
    /\ runs # <<>> /\ run.at = "string"
    /\ \E v \in Values : Push(Datum(v))

-----------------------------------------------------------------------------
(* Calls.  The function is the topmost temporary, its arguments are below. *)

Call ==
    /\ Executing
    /\ \E p \in Procedures, offset \in Offsets :
          LET sp == run.sp + 1
              area == sp + 1
          IN  /\ Temps >= NumArgs[p] + 1
              /\ Floor(area, p) >= 0
              /\ memory' = Overwrite(area - PcChain, Chain(run.proc, offset, run.env, run.area))
              /\ runs' = [runs EXCEPT ![1].sp = Floor(area, p), ![1].area = area,
                                      ![1].proc = p, ![1].pc = 0, ![1].env = EnvOf[p]]
    /\ UNCHANGED <<stackPtr, result>>

\* Mutant: environment->stack_ptr is not saved before the special function.
CallSpecialWithoutSave ==
    /\ Executing
    /\ \E n \in SpecialArgs, offset \in Offsets :
          LET sp == run.sp + 1 IN
          /\ Temps >= n + 1
          /\ runs' = [runs EXCEPT ![1].sp = sp, ![1].area = sp + 1, ![1].pc = offset,
                                  ![1].at = "special", ![1].passed = n, ![1].oldArea = run.area]
    /\ UNCHANGED <<memory, stackPtr, result>>

CallSpecial ==
    /\ Executing
    /\ \E n \in SpecialArgs, offset \in Offsets :
          LET sp == run.sp + 1 IN
          /\ Temps >= n + 1
          /\ stackPtr' = sp
          /\ runs' = [runs EXCEPT ![1].sp = sp, ![1].area = sp + 1, ![1].pc = offset,
                                  ![1].at = "special", ![1].passed = n, ![1].oldArea = run.area]
    /\ UNCHANGED <<memory, result>>

\* Mutant: where the new arguments of a tail call go.
ArgSlotInPlace(n) == run.area

\* The frame of the procedure that makes a tail call, with its arguments replaced:
\* memory and program_area. The chain is saved below the new arguments first, where
\* the function was.
ArgSlot(n) == run.area + NumArgs[run.proc] - n

Replaced(n) ==
    LET sp == run.sp + 1
        moved == Overwrite(sp - 2, [i \in 1 .. SlotCount |-> memory[run.area - PcChain + i - 1]])
    IN  [a \in DOMAIN memory |->
            IF a \in ArgSlot(n) - PcChain .. ArgSlot(n) + n - 1
            THEN moved[sp + 1 + a - ArgSlot(n)]
            ELSE moved[a]]

TailCall ==
    /\ Executing /\ run.sp + 1 >= 2
    /\ \E p \in Procedures :
          LET area == ArgSlot(NumArgs[p]) IN
          /\ Temps >= NumArgs[p] + 1
          /\ Floor(area, p) >= 0
          /\ memory' = Replaced(NumArgs[p])
          /\ runs' = [runs EXCEPT ![1].sp = Floor(area, p), ![1].area = area,
                                  ![1].proc = p, ![1].pc = 0, ![1].env = EnvOf[p]]
    /\ UNCHANGED <<stackPtr, result>>

\* A special function has no locals; procedure stays the one that made the call.
TailCallSpecial ==
    /\ Executing /\ run.sp + 1 >= 2
    /\ \E n \in SpecialArgs :
          LET area == ArgSlot(n)
              sp == area - SlotCount - 1
          IN  /\ Temps >= n + 1
              /\ n = NumArgs[run.proc] \/ "mixedArity" \in Operations
              /\ memory' = Replaced(n)
              /\ stackPtr' = sp
              /\ runs' = [runs EXCEPT ![1].sp = sp, ![1].area = area, ![1].pc = 0,
                                      ![1].at = "specialTail", ![1].passed = n]
    /\ result' = result

\* The special function's result takes the place of its arguments, or, after a tail
\* call, is what the RETURN that follows returns.
SpecialReturns ==
    /\ runs # <<>>
    /\ \E value \in {Datum(v) : v \in Values} \cup {result} :
          \/ /\ run.at = "special"
             /\ LET sp == run.sp + run.passed - 1 IN
                   /\ memory' = [memory EXCEPT ![sp + 1] = value]
                   /\ runs' = [runs EXCEPT ![1].sp = sp, ![1].area = run.oldArea,
                                           ![1].at = "instruction",
                                           ![1].passed = 0, ![1].oldArea = Null]
          \/ /\ run.at = "specialTail"
             /\ memory' = [memory EXCEPT ![run.sp] = value]
             /\ runs' = [runs EXCEPT ![1].sp = run.sp - 1, ![1].at = "return"]
    /\ UNCHANGED <<stackPtr, result>>

\* RETURN, and the end of vm_run when the chain is empty.
Return ==
    /\ runs # <<>>
    /\ run.at = "return" \/ (run.at = "instruction" /\ Temps >= 1)
    /\ LET sp == run.area + NumArgs[run.proc] - 2
           value == memory[run.sp + 1]
           return == memory[run.area - PcChain]
       IN  /\ memory' = [memory EXCEPT ![sp + 1] = value]
           /\ \/ /\ return.ref # Null
                 /\ runs' = [runs EXCEPT
                               ![1].sp = sp, ![1].proc = return.ref, ![1].pc = return.count,
                               ![1].area = memory[run.area - AreaChain].ref,
                               ![1].env = memory[run.area - EnvChain].ref,
                               ![1].at = "instruction", ![1].passed = 0]
                 /\ UNCHANGED <<stackPtr, result>>
              \/ /\ return.ref = Null
                 /\ runs' = Tail(runs)
                 /\ stackPtr' = run.old
                 /\ result' = value

-----------------------------------------------------------------------------
Next ==
    \/ EnterRun \/ ApplyProcedure
    \/ PushValue \/ LoadSlot \/ StoreSlot \/ Pop \/ Binop \/ LoadString \/ PushString
    \/ Call \/ CallSpecial \/ TailCall \/ TailCallSpecial \/ SpecialReturns \/ Return

Spec == Init /\ [][Next]_vars

-----------------------------------------------------------------------------
(* What the slots mean: the frames of each run, the innermost first.       *)

\* These are of a memory m, so that what steps change can be compared.
Frame(m, p, offset, e, a, low) ==
    [kind |-> "procedure", proc |-> p, pc |-> offset, env |-> e,
     args |-> [i \in 1 .. NumArgs[p] |-> m[a + i - 1]],
     locals |-> [i \in 1 .. NumLocals[p] |-> m[a + SlotIndex(i - 1)]],
     temps |-> [i \in 1 .. Floor(a, p) - low |-> m[low + i]]]

Special(kind, e, args, temps) ==
    [kind |-> kind, proc |-> Null, pc |-> 0, env |-> e,
     args |-> args, locals |-> <<>>, temps |-> temps]

Passed(m, r) == [i \in 1 .. r.passed |-> m[r.area + i - 1]]

\* The callers of the frame at x[1], when its arguments end at x[2], where the stack
\* pointer of its caller will be.  A caller's frame is further up the stack.
Callers(m) ==
    LET callers[x \in (0 .. StackTop) \X Int] ==
            LET a == x[1]
                p == m[a - PcChain].ref
                b == m[a - AreaChain].ref
            IN  IF p \in Procedures /\ b \in a + 1 .. StackTop
                THEN <<Frame(m, p, m[a - PcChain].count, m[a - EnvChain].ref, b, x[2])>>
                     \o callers[<<b, b + NumArgs[p] - 1>>]
                ELSE <<>>
    IN  callers

Frames(m, r) ==
    CASE r.at \in {"instruction", "string"} ->
            <<Frame(m, r.proc, r.pc, r.env, r.area, r.sp)>>
            \o Callers(m)[<<r.area, r.area + NumArgs[r.proc] - 1>>]
      [] r.at = "special" ->
            <<Special("special", r.env, Passed(m, r), <<>>),
              Frame(m, r.proc, r.pc, r.env, r.oldArea, r.sp + r.passed)>>
            \o Callers(m)[<<r.oldArea, r.oldArea + NumArgs[r.proc] - 1>>]
      [] r.at = "specialTail" ->
            <<Special("specialTail", r.env, Passed(m, r), <<>>)>>
            \o Callers(m)[<<r.area, r.area + r.passed - 1>>]
      [] r.at = "return" ->
            <<Special("done", r.env, Passed(m, r), <<m[r.sp + 1]>>)>>
            \o Callers(m)[<<r.area, r.area + r.passed - 1>>]

\* The frames of every run.
Calls == [i \in DOMAIN runs |-> Frames(memory, runs[i])]

Abstract ==
    INSTANCE CallStack WITH
        Values <- {Datum(v) : v \in Values},
        runs <- Calls

-----------------------------------------------------------------------------
Slots ==
    {Zero} \cup {Datum(v) : v \in Values} \cup {Area(a) : a \in 0 .. StackTop}
    \cup {Environment(e) : e \in {0} \cup Range(EnvOf)}
    \cup {ReturnAddress(p, offset) : p \in {Null} \cup Procedures, offset \in {0} \cup Offsets}

Run ==
    [sp : -1 .. StackTop, area : 0 .. StackTop, proc : Procedures,
     pc : {0} \cup Offsets, env : {0} \cup Range(EnvOf), old : 0 .. StackTop,
     at : {"instruction", "string", "special", "specialTail", "return"},
     passed : {0} \cup SpecialArgs, oldArea : 0 .. StackTop]

\* Every pointer of a vm_run stays in the stack (no instruction checks it).
TypeOK ==
    /\ memory \in [0 .. StackTop -> Slots]
    /\ stackPtr \in 0 .. StackTop
    /\ runs \in Seq(Run) /\ Len(runs) <= MaxRuns
    /\ result \in {Datum(v) : v \in Values}

\* Every procedure finds its arguments, locals and temporaries as it left them whatever
\* it calls, its calls return to it, and a tail call replaces its frame (vm.c's CALL,
\* TAILCALL and RETURN).
ImplementsCallStack == Abstract!Spec

\* A special function may collect: the part of the stack that mark_evaluation_stack
\* scans, above environment->stack_ptr, then has every slot that a frame uses (the
\* stack pointer is saved before CALL and TAILCALL reach the C function).
SpecialsSeeRoots ==
    runs # <<>> /\ run.at \in {"special", "specialTail"} => stackPtr <= run.sp

\* The same of LDSTR, which allocates its string.
StringsSeeRoots == runs # <<>> /\ run.at = "string" => stackPtr <= run.sp

\* A procedure runs in the lexical environment it was made in, and so does the
\* rest of it after every call it makes.
OwnEnvironment ==
    \A i \in DOMAIN runs : \A j \in DOMAIN Calls[i] :
        LET f == Calls[i][j] IN f.kind = "procedure" => f.env = EnvOf[f.proc]

\* The stack holds the frames in progress and nothing else: a tail call takes no
\* stack however often it is made, a call gives back all it took, and a vm_run leaves
\* environment->stack_ptr where it found it.
FrameSize(f) ==
    Len(f.args) + Len(f.locals) + Len(f.temps) + (IF f.kind = "special" THEN 0 ELSE SlotCount)

TotalSize(frames) ==
    LET total[j \in 0 .. Len(frames)] ==
            IF j = 0 THEN 0 ELSE total[j - 1] + FrameSize(frames[j])
    IN  total[Len(frames)]

NoStackLost ==
    /\ runs = <<>> => stackPtr = StackTop
    /\ \A i \in DOMAIN runs : runs[i].old - 1 - runs[i].sp = TotalSize(Calls[i])
=============================================================================
