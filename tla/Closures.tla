------------------------------ MODULE Closures ------------------------------
(***************************************************************************)
(* Variables that procedures capture (lambda.c).  The compiler walks over  *)
(* a lambda expression with a stack of contexts, one for each lambda that  *)
(* it is in.  A variable is in a stack slot until a procedure inside its   *)
(* own reads it: then it is bound in an environment that the compiler      *)
(* makes on the spot, its slot is demoted, and when its procedure is       *)
(* complete all instructions on that slot are replaced.                    *)
(*                                                                         *)
(* A program is what the walk meets: <<"read", name>>, <<"set!", name>>,   *)
(* <<"let", name>> and <<"and", name>> before the initialisers of a let,   *)
(* <<"in">> before its body and <<"end let">> after it; <<"lambda">> or    *)
(* <<"lambda", argument>> and <<"end lambda">>, which ends main as well.   *)
(* A let stands in the body of a lambda or of a let, and evaluates as let* *)
(* does.  The code that is made is run, and every read must see the        *)
(* variable that Scheme's scopes mean.                                     *)
(***************************************************************************)
EXTENDS Integers, Sequences, FiniteSets, SequencesExt

CONSTANTS
    Symbols,
    Programs,
    MaxActivations, \* bound: calls
    Operations      \* what the programs compiled do, of AllOperations

AllOperations == {"capture argument", "store captured", "assign only", "two environments",
                  "reused slot", "same name", "own initialiser", "call again"}

ASSUME ClosuresAssumption == Operations \subseteq AllOperations

VARIABLES
    contexts,       \* the compiler contexts, the current one last; <<>> when main is compiled
    variables,      \* the variables of the program, in the order of their declarations
    procedures,     \* of each lambda, what assemble makes of it
    environments,   \* the environments, each with its parent and values
    activations,    \* the calls, with their frames and what their variables are meant to be
    running,        \* the activation and the instruction it has come to, or Nobody
    closures,       \* the procedures that have been made, each in an activation of the one around it
    observed,       \* the last value read, and the one that was meant
    source          \* the rest of the program to compile

vars == <<contexts, variables, procedures, environments, activations, running, closures, observed, source>>

Global == 1         \* environment->lexical_environment
None == 0
Nobody == [activation |-> None, pc |-> 0]
Uninitialised == <<"uninitialised">>
EmptyList == <<"()">>       \* what bind makes
GlobalValue(s) == <<"global", s>>
-----------------------------------------------------------------------------
(***************************************************************************)
(* Contexts.  A slot is of a variable; lets are the let expressions that   *)
(* the context is in, the innermost last.                                  *)
(***************************************************************************)
Insn(op, arg, variable) == [op |-> op, arg |-> arg, variable |-> variable]

Current == Last(contexts)
Depth == Len(contexts)

Slot(s, index, variable) ==
    [symbol |-> s, index |-> index, variable |-> variable, demoted |-> FALSE, initializer |-> <<>>]

\* initialize_compiler_context: the slots of the arguments.
Context(procedure, slots) ==
    [procedure |-> procedure, slots |-> slots, lets |-> <<>>, code |-> <<>>, closureVariables |-> <<>>,
     lexicalEnvironment |-> None, parentEnvironment |-> None]

\* get_stack_slot: the place of the first slot of a symbol in a context, or None.
SlotOf(c, s) ==
    LET places == {k \in DOMAIN c.slots : c.slots[k].symbol = s}
    IN  IF places = {} THEN None ELSE CHOOSE k \in places : \A l \in places : k <= l

\* A bug: slots in use are not counted.
NewSlotIndexFirst(c) == -4

\* vm_slot_index(count_active_stack_slots): the slots of lets are in front of those of arguments.
NewSlotIndex(c) == -(Cardinality({k \in DOMAIN c.slots : c.slots[k].index < -2}) + 4)

Initialising(c) == c.lets # <<>> /\ Last(c.lets).phase = "initialiser"

\* The context with more code: of an initialiser, or of the body.
Emit(c, insns) ==
    IF Initialising(c) THEN [c EXCEPT !.slots[1].initializer = @ \o insns]
                       ELSE [c EXCEPT !.code = @ \o insns]

-----------------------------------------------------------------------------
(***************************************************************************)
(* What a name means in Scheme: the innermost variable whose scope this    *)
(* is, or None for the global one.  The initialiser of a variable is not   *)
(* in its scope.                                                           *)
(***************************************************************************)
Visible(c) == IF Initialising(c) THEN Tail(c.slots) ELSE c.slots

VariableNamed(s) ==
    LET inContext(c) == SelectSeq(Visible(c), LAMBDA slot : slot.symbol = s)
        from[d \in 0..Depth] ==
            IF d = 0 THEN None
            ELSE IF inContext(contexts[d]) # <<>> THEN inContext(contexts[d])[1].variable ELSE from[d - 1]
    IN  from[Depth]
-----------------------------------------------------------------------------
(***************************************************************************)
(* Capture.                                                                *)
(***************************************************************************)
\* identify_local_in_previous_context: the depth of the nearest context around the current one with a
\* slot of the symbol, or None.
RootOf(s) ==
    LET from[d \in 0..Depth] == IF d = 0 \/ SlotOf(contexts[d], s) # None THEN d ELSE from[d - 1]
    IN  from[Depth - 1]

NewEnvironmentOf(root) == [parent |-> IF root.parentEnvironment = None THEN Global ELSE root.parentEnvironment,
                           value  |-> [s \in Symbols |-> Uninitialised]]

\* bind: a variable that is there keeps its value.
BindIn(e, s) == [e EXCEPT !.value[s] = IF @ = Uninitialised THEN EmptyList ELSE @]

\* identify_local_in_previous_context and bind_symbol_for_scoped_environment.
Capture(s, insns) ==
    LET r == RootOf(s)
        root == contexts[r]
        k == SlotOf(root, s)
        env == IF root.lexicalEnvironment = None THEN Len(environments) + 1 ELSE root.lexicalEnvironment
        inner == Emit([Current EXCEPT !.parentEnvironment = env, !.lexicalEnvironment = env], insns)
    IN  /\ environments' = [i \in 1..Len(environments) \cup {env} |->
                               IF i # env THEN environments[i]
                               ELSE BindIn(IF i > Len(environments) THEN NewEnvironmentOf(root)
                                                                    ELSE environments[i], s)]
        /\ contexts' = [contexts EXCEPT
               ![r] = [root EXCEPT !.closureVariables = <<[symbol |-> s, index |-> root.slots[k].index]>> \o @,
                                   !.slots[k].demoted = TRUE,
                                   !.lexicalEnvironment = env],
               ![Depth] = inner]
-----------------------------------------------------------------------------
(***************************************************************************)
(* What programs must not do for the compiler to be right, unless          *)
(* Operations says otherwise.                                              *)
(***************************************************************************)
May(op) == op \in Operations

\* Instructions of a context on a variable.
Has(c, op, v) ==
    \E code \in {c.code} \cup {c.slots[k].initializer : k \in DOMAIN c.slots} :
        \E i \in DOMAIN code : code[i].op = op /\ code[i].variable = v

\* The symbol is looked up in environments for another variable than v.
LookedUp(s, v) ==
    LET codes == UNION {{c.code} \cup {c.slots[k].initializer : k \in DOMAIN c.slots} : c \in ToSet(contexts)}
                 \cup {procedures[p].code : p \in DOMAIN procedures}
    IN  \E code \in codes : \E i \in DOMAIN code :
            code[i].op = "LDBOUND" /\ code[i].arg = s /\ code[i].variable # v

\* Another variable of the procedure is, or was, in the slot.
Reused(procedure, v, index) ==
    \E w \in DOMAIN variables \ {v} : variables[w].procedure = procedure /\ variables[w].index = index

MayCapture(s) ==
    LET root == contexts[RootOf(s)]
        k == SlotOf(root, s)
        slot == root.slots[k]
    IN  /\ slot.index >= 0 => May("capture argument")
        /\ Initialising(root) /\ k = 1 => May("own initialiser")
        /\ Has(root, "STSLOT", slot.variable) => May("store captured")
        /\ Reused(root.procedure, slot.variable, slot.index) => May("reused slot")
        /\ Current.lexicalEnvironment \notin {None, root.lexicalEnvironment} => May("two environments")

MayAssign(s) ==
    LET k == SlotOf(Current, s) IN
    /\ k # None /\ Initialising(Current) /\ k = 1 => May("own initialiser")
    /\ k # None /\ Current.slots[k].demoted => May("store captured")
    /\ k = None /\ RootOf(s) # None => May("assign only") \/ Has(Current, "LDBOUND", VariableNamed(s))
-----------------------------------------------------------------------------
Init ==
    /\ contexts = << Context(1, <<>>) >>
    /\ variables = <<>>
    /\ procedures = << [code |-> <<>>, environment |-> None, captured |-> FALSE] >>
    /\ environments = << [parent |-> None, value |-> [s \in Symbols |-> GlobalValue(s)]] >>
    /\ activations = <<>> /\ running = Nobody /\ closures = {[procedure |-> 1, parent |-> None]}
    /\ observed = [got |-> EmptyList, meant |-> EmptyList]
    /\ source \in Programs

Compiling == contexts # <<>>

\* The next form of the program.
Compile(form) == Compiling /\ Head(source) = form /\ source' = Tail(source)

UnchangedRun == UNCHANGED <<activations, running, closures, observed>>

InContext(c) == contexts' = [contexts EXCEPT ![Depth] = c]

\* compile_form of a variable.
Read(s) ==
    LET k == SlotOf(Current, s)
        bound == <<Insn("LDBOUND", s, VariableNamed(s))>> IN
    /\ Compile(<<"read", s>>)
    /\ k = None /\ LookedUp(s, VariableNamed(s)) => May("same name")
    /\ \/ /\ k # None
          /\ Initialising(Current) /\ k = 1 => May("own initialiser")
          /\ InContext(Emit(Current, <<Insn("LDSLOT", Current.slots[k].index, VariableNamed(s))>>))
          /\ UNCHANGED environments
       \/ /\ k = None /\ RootOf(s) # None
          /\ MayCapture(s) /\ Capture(s, bound)
       \/ /\ k = None /\ RootOf(s) = None
          /\ InContext(Emit(Current, bound))
          /\ UNCHANGED environments
    /\ UnchangedRun /\ UNCHANGED <<variables, procedures>>

\* compile_set of a variable: it captures nothing.
Assign(s) ==
    LET k == SlotOf(Current, s) IN
    /\ Compile(<<"set!", s>>)
    /\ VariableNamed(s) # None /\ MayAssign(s)
    /\ InContext(Emit(Current, << IF k # None
                                  THEN Insn("STSLOT", Current.slots[k].index, VariableNamed(s))
                                  ELSE Insn("STBOUND", s, VariableNamed(s)) >>))
    /\ UnchangedRun /\ UNCHANGED <<variables, procedures, environments>>

Variable(s, procedure, index) == [symbol |-> s, procedure |-> procedure, index |-> index]

\* compile_let: a variable, whose initialiser follows.
Declare(s, lets) ==
    LET index == NewSlotIndex(Current)
        v == Len(variables) + 1
    IN  /\ variables' = Append(variables, Variable(s, Current.procedure, index))
        /\ InContext([Current EXCEPT !.slots = <<Slot(s, index, v)>> \o @, !.lets = lets])
        /\ \A k \in DOMAIN Current.closureVariables :
               Current.closureVariables[k].index = index => May("reused slot")
        /\ UnchangedRun /\ UNCHANGED <<procedures, environments>>

OpenLet(s) ==
    /\ Compile(<<"let", s>>)
    /\ Declare(s, Append(Current.lets, [phase |-> "initialiser", variables |-> 1]))

NextVariable(s) ==
    /\ Compile(<<"and", s>>) /\ Initialising(Current)
    /\ Declare(s, [Current.lets EXCEPT ![Len(Current.lets)].variables = @ + 1])

\* A bug: that a variable was captured in a later initialiser is not seen.
InitializersInSlots(c) ==
    LET n == Last(c.lets).variables
        code(slot) == Append(slot.initializer, Insn("STSLOT", slot.index, slot.variable))
    IN  FlattenSeq([i \in 1..n |-> code(c.slots[n + 1 - i])])

\* recursive_set_slot_initializers: the initialisers in the order of the bindings, each with the store
\* of its value.
Initializers(c) ==
    LET n == Last(c.lets).variables
        code(slot) == Append(slot.initializer, IF slot.demoted
                                               THEN Insn("STBOUND", slot.symbol, slot.variable)
                                               ELSE Insn("STSLOT", slot.index, slot.variable))
    IN  FlattenSeq([i \in 1..n |-> code(c.slots[n + 1 - i])])

LetBody ==
    /\ Compile(<<"in">>) /\ Initialising(Current)
    /\ InContext([Current EXCEPT !.code = @ \o Initializers(Current),
                                 !.lets[Len(Current.lets)].phase = "body"])
    /\ UnchangedRun /\ UNCHANGED <<variables, procedures, environments>>

CloseLet ==
    /\ Compile(<<"end let">>) /\ Current.lets # <<>> /\ ~Initialising(Current)
    /\ LET n == Last(Current.lets).variables
       IN  InContext([Current EXCEPT !.slots = SubSeq(@, n + 1, Len(@)), !.lets = Front(@)])
    /\ UnchangedRun /\ UNCHANGED <<variables, procedures, environments>>

\* compile_lambda, to the start of compile_form_to_bytecode for the inner lambda, which has the
\* arguments args.
EnterLambda(args) ==
    LET p == Len(procedures) + 1
        v == Len(variables)
    IN  /\ Compile(<<"lambda">> \o args)
        /\ variables' = variables \o [i \in DOMAIN args |-> Variable(args[i], p, i - 1)]
        /\ procedures' = Append(procedures, [code |-> <<>>, environment |-> None, captured |-> FALSE])
        /\ contexts' = Append(contexts, Context(p, [i \in DOMAIN args |-> Slot(args[i], i - 1, v + i)]))
        /\ UnchangedRun /\ UNCHANGED environments

\* A bug: the procedure goes on with its slots.
DemoteNothing(c) == c.code

\* demote_closure_references: an access to the slot of a variable that was captured becomes one to
\* the environment, of the first of closure_variables with this slot.
DemoteClosureReferences(c) ==
    LET Symbol(index) == SelectSeq(c.closureVariables, LAMBDA cv : cv.index = index)[1].symbol
        demoted == {c.closureVariables[k].index : k \in DOMAIN c.closureVariables}
        Demoted(insn) ==
            IF insn.op \notin {"LDSLOT", "STSLOT"} \/ insn.arg \notin demoted THEN insn
            ELSE [insn EXCEPT !.op = IF @ = "LDSLOT" THEN "LDBOUND" ELSE "DEFINE", !.arg = Symbol(insn.arg)]
    IN  [i \in DOMAIN c.code |-> Demoted(c.code[i])]

\* The rest of compile_form_to_bytecode, assemble, and the load of the procedure as a constant of
\* the one around it.
LeaveLambda ==
    /\ Compile(<<"end lambda">>)
    /\ procedures' = [procedures EXCEPT ![Current.procedure] =
           [code        |-> DemoteClosureReferences(Current),
            environment |-> IF Current.lexicalEnvironment = None THEN Global ELSE Current.lexicalEnvironment,
            captured    |-> Current.closureVariables # <<>>]]
    /\ contexts' = IF Depth = 1 THEN <<>>
                   ELSE [Front(contexts) EXCEPT ![Depth - 1] =
                            Emit(@, <<Insn("CLOSURE", Current.procedure, None)>>)]
    /\ UnchangedRun /\ UNCHANGED <<variables, environments>>
-----------------------------------------------------------------------------
(***************************************************************************)
(* Runs.  An assignment stores a value of its own.                         *)
(***************************************************************************)
UnchangedCompiler == UNCHANGED <<contexts, variables, procedures, source>>

\* get_bound_location_in_lexical_environment.
Locate(e, s) ==
    LET from[x \in 0..Len(environments)] ==
            IF x = None \/ environments[x].value[s] # Uninitialised THEN x ELSE from[environments[x].parent]
    IN  from[e]

\* The activation of the procedure of v that a closure made in activation a has v of.
ActivationOf(a, v) ==
    LET from[b \in 0..Len(activations)] ==
            IF activations[b].procedure = variables[v].procedure THEN b ELSE from[activations[b].parent]
    IN  from[a]

Meant(a, insn) ==
    IF insn.variable = None THEN GlobalValue(insn.arg)
    ELSE activations[ActivationOf(a, insn.variable)].meant[insn.variable]

\* CALL of a procedure from outside; its locals are what the stack happens to hold.
Call(f) ==
    LET a == Len(activations) + 1
        own == {v \in DOMAIN variables : variables[v].procedure = f.procedure}
        Argument(v) == IF variables[v].index >= 0 THEN <<v, a, 0>> ELSE Uninitialised
        frame == [i \in {variables[v].index : v \in own} |->
                     IF i >= 0 THEN <<CHOOSE v \in own : variables[v].index = i, a, 0>> ELSE Uninitialised]
    IN  /\ ~Compiling /\ running = Nobody /\ a <= MaxActivations
        /\ procedures[f.procedure].captured /\ (\E b \in 1..a - 1 : activations[b].procedure = f.procedure)
               => May("call again")
        /\ activations' = Append(activations, [procedure |-> f.procedure, parent |-> f.parent, frame |-> frame,
                                               meant |-> [v \in own |-> Argument(v)]])
        /\ running' = [activation |-> a, pc |-> 1]
        /\ UnchangedCompiler /\ UNCHANGED <<environments, closures, observed>>

Executing(ops) ==
    /\ running # Nobody
    /\ procedures[activations[running.activation].procedure].code[running.pc].op \in ops
    /\ running' = IF running.pc = Len(procedures[activations[running.activation].procedure].code) THEN Nobody
                  ELSE [running EXCEPT !.pc = @ + 1]
    /\ UnchangedCompiler

A == running.activation
Here == procedures[activations[A].procedure].code[running.pc]
Location(s) == Locate(procedures[activations[A].procedure].environment, s)
NewValue == <<Here.variable, A, running.pc>>
Assigned == [activations EXCEPT ![ActivationOf(A, Here.variable)].meant[Here.variable] = NewValue]

LoadSlot ==
    /\ Executing({"LDSLOT"})
    /\ observed' = [got |-> activations[A].frame[Here.arg], meant |-> Meant(A, Here)]
    /\ UNCHANGED <<environments, activations, closures>>

StoreSlot ==
    /\ Executing({"STSLOT"})
    /\ activations' = [Assigned EXCEPT ![A].frame[Here.arg] = NewValue]
    /\ UNCHANGED <<environments, closures, observed>>

LoadBound ==
    /\ Executing({"LDBOUND"})
    /\ observed' = [got |-> environments[Location(Here.arg)].value[Here.arg], meant |-> Meant(A, Here)]
    /\ UNCHANGED <<environments, activations, closures>>

\* GET_BOUND_LOCATION and STORE, or a call of define.
StoreBound ==
    /\ Executing({"STBOUND", "DEFINE"})
    /\ LET e == IF Here.op = "DEFINE" THEN Global ELSE Location(Here.arg)
       IN  environments' = [environments EXCEPT ![e].value[Here.arg] = NewValue]
    /\ activations' = Assigned
    /\ UNCHANGED <<closures, observed>>

\* The procedure that the compiler made: nothing is copied.
MakeClosure ==
    /\ Executing({"CLOSURE"})
    /\ closures' = closures \cup {[procedure |-> Here.arg, parent |-> A]}
    /\ UNCHANGED <<environments, activations, observed>>

Next ==
    \/ \E s \in Symbols : Read(s) \/ Assign(s) \/ OpenLet(s) \/ NextVariable(s)
    \/ LetBody \/ CloseLet
    \/ \E args \in {<<>>} \cup {<<s>> : s \in Symbols} : EnterLambda(args)
    \/ LeaveLambda
    \/ \E f \in closures : Call(f)
    \/ LoadSlot \/ StoreSlot \/ LoadBound \/ StoreBound \/ MakeClosure

Spec == Init /\ [][Next]_vars
-----------------------------------------------------------------------------
TypeOK ==
    /\ \A d \in DOMAIN contexts :
           LET slots == contexts[d].slots
           IN  /\ contexts[d].lexicalEnvironment \in 0..Len(environments)
               /\ \A k \in DOMAIN slots : slots[k].variable \in DOMAIN variables
               /\ \A k, l \in DOMAIN slots : slots[k].index = slots[l].index => k = l
    /\ \A p \in DOMAIN procedures : procedures[p].environment \in 0..Len(environments)
    /\ \A e \in DOMAIN environments : environments[e].parent < e
    /\ running = Nobody \/ A \in DOMAIN activations

\* Every read of a variable, captured or not, sees the value of the variable that Scheme's scopes mean,
\* however reads and assignments of a procedure and of those inside it follow each other.
ReadsMeanVariables == observed.got = observed.meant

\* Where an instruction of a procedure keeps its variable: in a slot of the frame, or in an environment.
Storage(p, insn) ==
    CASE insn.op \in {"LDSLOT", "STSLOT"} -> <<"slot", p, insn.arg>>
      [] insn.op = "DEFINE" -> <<"environment", Global, insn.arg>>
      [] OTHER -> <<"environment", Locate(procedures[p].environment, insn.arg), insn.arg>>

Accesses ==
    {access \in [procedure : DOMAIN procedures, insn : UNION {ToSet(procedures[p].code) : p \in DOMAIN procedures}] :
        /\ access.insn \in ToSet(procedures[access.procedure].code)
        /\ access.insn.op # "CLOSURE"}

\* Once compiled, all accesses to a variable are to one place, wherever they are in the nest of
\* procedures, and no two variables share a place in an environment.
OneStoragePerVariable ==
    ~Compiling =>
        \A a, b \in Accesses :
            LET sameStorage == Storage(a.procedure, a.insn) = Storage(b.procedure, b.insn)
            IN  IF a.insn.variable = b.insn.variable
                THEN a.insn.variable # None => sameStorage
                ELSE a.insn.op \in {"LDBOUND", "STBOUND"} => ~sameStorage

\* A call of a procedure makes variables of its own (tests/closure-test-01.test, where two calls of fn
\* give two counters): no read sees what was stored for another activation.
FreshVariables ==
    Len(observed.got) = 3 /\ Len(observed.meant) = 3 => observed.got[2] = observed.meant[2]
=============================================================================
