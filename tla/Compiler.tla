------------------------------ MODULE Compiler ------------------------------
(***************************************************************************)
(* The compiler of lambda.c: from the body of a lambda to the list of      *)
(* instructions that compile_form builds, which Passes turns into code and *)
(* runs.                                                                   *)
(*                                                                         *)
(* A form is a tuple: <<"const", v>>, <<"var", name>>, <<"op", e, e>> of an *)
(* arithmetic operator, <<"call", e, e>> of the global procedure f,        *)
(* <<"if", test, consequent>>, <<"if", test, consequent, alternate>>,      *)
(* <<"let", init, body>> of the variable y, <<"set!", name, e>> and        *)
(* <<"begin", form, form>>.  The lambda has the argument x; y outside a    *)
(* let is a global variable, and any other name is bound to nothing.  A    *)
(* value is a tuple; operators and f make a new one of their operands, in  *)
(* order.                                                                  *)
(***************************************************************************)
EXTENDS Passes, FiniteSets, FiniteSetsExt

-----------------------------------------------------------------------------
(* compile_form.  The scope is the slot indices of the lets around a form,  *)
(* the innermost first.  A branch leads to the to-th instruction after it. *)

\* vm_slot_index.
SlotIndex(i) == -(i + 4)

\* The slot of the variable of a let, by count_active_stack_slots.
NewSlot(scope) == SlotIndex(Len(scope))

Load(name, scope) ==
    IF name = "x" THEN <<Insn("LDSLOT", 0, 0)>>
    ELSE IF name = "y" /\ scope # <<>> THEN <<Insn("LDSLOT", scope[1], 0)>>
    ELSE <<Insn("GET_BOUND_LOCATION", name, 0), Insn("LOAD", 0, 0)>>

Store(name, scope) ==
    IF name = "x" THEN <<Insn("STSLOT", 0, 0)>>
    ELSE IF scope # <<>> THEN <<Insn("STSLOT", scope[1], 0)>>
    ELSE <<Insn("GET_BOUND_LOCATION", name, 0), Insn("STORE", 0, 0)>>

\* compile_if: the test, the alternate and the consequent come in this order, with the nop
\* that both arms lead to.
JoinArms(test, consequent, alternate) ==
    test \o <<Insn("COND_BRANCH", 0, Len(alternate) + 2)>>
    \o alternate \o <<Insn("BRANCH", 0, Len(consequent) + 1)>>
    \o consequent \o <<Insn("NOP", 0, 0)>>

\* compile_literal, compile_sub and its like, compile_begin, compile_let; compile_direct_call,
\* whose arguments are evaluated from the last one to the first.
Immediate(v) == <<Insn("LDIMM", v, 0)>>
Binary(first, second) == first \o second \o <<Insn("OP", 0, 0)>>
Begin(first, last) == first \o last
Let(initializer, store, body) == initializer \o store \o body

\* Mutant of DirectCall: the arguments are pushed from the first one to the last.
DirectCallForwards(arg0, arg1, function) == arg0 \o arg1 \o function \o <<Insn("CALL", 2, 0)>>

DirectCall(arg0, arg1, function) == arg1 \o arg0 \o function \o <<Insn("CALL", 2, 0)>>

RECURSIVE Compile(_, _)
Compile(e, scope) ==
    CASE e[1] = "const" -> Immediate(e[2])
      [] e[1] = "var" -> Load(e[2], scope)
      [] e[1] = "op" -> Binary(Compile(e[2], scope), Compile(e[3], scope))
      [] e[1] = "call" -> DirectCall(Compile(e[2], scope), Compile(e[3], scope), Load("f", scope))
      [] e[1] = "begin" -> Begin(Compile(e[2], scope), Compile(e[3], scope))
      [] e[1] = "set!" -> Compile(e[3], scope) \o Store(e[2], scope)
      [] e[1] = "if" -> JoinArms(Compile(e[2], scope), Compile(e[3], scope),
                                 IF Len(e) = 4 THEN Compile(e[4], scope) ELSE <<>>)
      [] e[1] = "let" ->     \* the initialiser is compiled with its variable in scope
            LET inner == <<NewSlot(scope)>> \o scope
            IN  Let(Compile(e[2], inner), Store("y", inner), Compile(e[3], inner))

\* max_stack_slots: the most that are active at once.
RECURSIVE StackSlots(_, _)
StackSlots(e, active) ==
    CASE e[1] \in {"const", "var"} -> active
      [] e[1] = "set!" -> StackSlots(e[3], active)
      [] e[1] = "let" -> Max({StackSlots(e[2], active + 1), StackSlots(e[3], active + 1)})
      [] OTHER -> Max({StackSlots(e[i], active) : i \in 2 .. Len(e)})

ASSUME CompilerAssumption ==
    /\ Compiled = [e \in Programs |-> Compile(e, <<>>)]
    /\ Locals = [e \in Programs |-> StackSlots(e, 0)]

-----------------------------------------------------------------------------
(* What a form means: its value, and what it leaves in x and in the y in scope, the *)
(* innermost first.  A set! and an if that takes no arm have no value.  Any value but *)
(* #f counts as true.  stops says that the machine does not get to the end: that it *)
(* comes on the way to the value of an unbound variable, to an operand that is no *)
(* number or to a test whose value is no boolean.                          *)

Ends(value, after, faulty) ==
    [value |-> value, x |-> after.x, ys |-> after.ys, stops |-> after.stops \/ faulty]

Leave(value, after) == Ends(value, after, FALSE)

RECURSIVE Eval(_, _)
Eval(e, env) ==
    CASE e[1] = "const" -> Leave(e[2], env)
      [] e[1] = "var" -> Ends(IF e[2] = "x" THEN env.x ELSE env.ys[1], env, e[2] \notin {"x", "y"})
      [] e[1] = "op" -> LET a == Eval(e[2], env)
                            b == Eval(e[3], a)
                        IN  Ends(<<"op", a.value, b.value>>, b,
                                 ~(IsNumber(a.value) /\ IsNumber(b.value)))
      [] e[1] = "call" ->     \* the last argument first, an order Scheme leaves open
            LET b == Eval(e[3], env)
                a == Eval(e[2], b)
            IN  Leave(<<"call", a.value, b.value>>, a)
      [] e[1] = "begin" -> Eval(e[3], Eval(e[2], env))
      [] e[1] = "set!" ->
            LET v == Eval(e[3], env)
            IN  Leave(Unspecified, IF e[2] = "x" THEN [v EXCEPT !.x = v.value]
                                   ELSE [v EXCEPT !.ys[1] = v.value])
      [] e[1] = "if" ->
            LET yields == Eval(e[2], env)
                test == Ends(yields.value, yields, ~IsBoolean(yields.value))
            IN  IF test.value # False THEN Eval(e[3], test)
                ELSE IF Len(e) = 4 THEN Eval(e[4], test) ELSE Leave(Unspecified, test)
      [] e[1] = "let" ->
            LET init == Eval(e[2], env)
                body == Eval(e[3], [init EXCEPT !.ys = <<init.value>> \o @])
            IN  [body EXCEPT !.ys = Tail(@)]

-----------------------------------------------------------------------------
Meant == Eval(form, [x |-> x, ys |-> <<global>>, stops |-> FALSE])

\* A procedure that returns returns the value of its body, with its assignments made, and it
\* stops at a BREAK exactly where the body has a value the machine does not take:
\* compile_form and the passes of compile_form_to_bytecode keep what every form means.
ResultIsValue ==
    phase = "done" =>
        IF Meant.stops THEN result = Stopped ELSE result = Meant.value /\ y = Meant.ys[1]

\* "If it yields a true value, then the consequent is evaluated", and all values but #f
\* count as true: no procedure stops whose body has a value.
AnyValueIsATest == phase = "done" /\ code[pc].op = "COND_BRANCH" => result # Stopped
=============================================================================
