----------------------------- MODULE MCCompiler -----------------------------
(* Compiler on every small body of a few shapes.                           *)
EXTENDS Compiler

CONSTANT Operations    \* of "nested if", "let init", "begin operand", the forms compiled

X == <<"var", "x">>
Y == <<"var", "y">>
Z == <<"var", "z">>     \* no definition binds z
Vars == {X, Y}
One == <<"const", <<"1">> >>
Constant == <<"const", <<"#f">> >>

Pairs(op, A, B) == {<<op, a, b>> : a \in A, b \in B}
Ifs(T, C, A) == {<<"if", t, c, a>> : t \in T, c \in C, a \in A}

\* Forms without a value.
Statements(A) ==
    {<<"set!", n, a>> : n \in {"x", "y"}, a \in A} \cup {<<"if", t, a>> : t \in Vars, a \in A}

\* Forms with a value.
Simple == Vars \cup {Constant, <<"op", Y, One>>, <<"call", Y, X>>}

\* Whether a form is the last part of another's code that ends with the nop of an if.
RECURSIVE EndsInNop(_)
EndsInNop(e) ==
    e[1] = "if" \/ (e[1] \in {"let", "begin"} /\ EndsInNop(e[3]))

Small ==
    Simple \cup Ifs(Vars, Simple, Simple)
    \cup Pairs("let", {X, Constant}, Simple) \cup Pairs("begin", Statements(Vars), Simple)

\* The initialiser of a let has y in scope: it means the new y, not that around it.
RECURSIVE Mentions(_, _)
Mentions(e, name) ==
    CASE e[1] = "var" -> e[2] = name
      [] e[1] = "const" -> FALSE
      [] e[1] = "set!" -> e[2] = name \/ Mentions(e[3], name)
      [] OTHER -> \E i \in 2 .. Len(e) : Mentions(e[i], name)

\* A begin leaves the values of its first form below that of its last one.
RECURSIVE Leaves(_)
Leaves(e) ==
    CASE e[1] \in {"const", "var"} -> FALSE
      [] e[1] = "set!" -> Leaves(e[3])
      [] OTHER -> (e[1] = "begin" /\ e[2][1] # "set!") \/ \E i \in 2 .. Len(e) : Leaves(e[i])

RECURSIVE Usable(_)
Usable(e) ==
    /\ e[1] = "op" => (~Leaves(e[3]) \/ "begin operand" \in Operations)
    /\ e[1] = "call" => (~Leaves(e[2]) \/ "begin operand" \in Operations)
    /\ e[1] = "let" => (~Mentions(e[2], "y") \/ "let init" \in Operations)
    /\ e[1] = "if" => (~EndsInNop(e[3]) \/ "nested if" \in Operations)
    /\ \A i \in (IF e[1] \in {"const", "var"} THEN {} ELSE IF e[1] = "set!" THEN {3} ELSE 2 .. Len(e)) :
          Usable(e[i])

Bodies ==
    Small
    \cup Ifs({X}, Small, {Constant}) \cup Ifs(Vars, {<<"call", Y, X>>}, Small)
    \cup Ifs(Ifs(Vars, Vars, Vars), Simple, Simple)
    \cup Ifs({X}, {<<"call", X, Y>>}, Ifs({Y}, Simple, Ifs(Vars, Simple, Simple)))
    \cup Pairs("op", Small, {Y}) \cup Pairs("op", {Y}, Small)
    \cup Pairs("call", Small, {X}) \cup Pairs("call", {X}, Small)
    \cup Pairs("let", Small, {Y, <<"call", X, Y>>}) \cup Pairs("let", {X, Y}, Small)
    \cup Pairs("let", Pairs("let", {X, Y}, {X, Y}), Pairs("let", Simple, Simple))
    \cup Pairs("begin", Statements({X, <<"call", Y, X>>}), Small)
    \cup Ifs({X}, {Z}, Simple) \cup Pairs("call", Simple, {Z}) \cup Pairs("let", {Z}, Simple)

MCPrograms == {e \in Bodies : Usable(e)}
MCCompiled == [e \in MCPrograms |-> Compile(e, <<>>)]
MCLocals == [e \in MCPrograms |-> StackSlots(e, 0)]
ASSUME "nested if" \notin Operations => NopsApart
MCArguments == {<<"#f">>, <<"#t">>}
MCGlobals == {<<"#f">>, <<"#t">>, <<"y">>}
=============================================================================
