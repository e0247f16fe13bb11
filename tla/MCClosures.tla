----------------------------- MODULE MCClosures -----------------------------
(***************************************************************************)
(* Programs of three procedures, one in another or side by side, that read *)
(* and assign the variables of each other's lets and arguments.  Every let *)
(* binds a variable and procedures that may capture it.                    *)
(***************************************************************************)
EXTENDS Closures

CONSTANTS x, y, f, g

Read1(s) == << <<"read", s>> >>
Set1(s) == << <<"set!", s>> >>
Lambda(args, body) == << <<"lambda">> \o args >> \o body \o << <<"end lambda">> >>
Let(s, h, procedure, body) ==
    << <<"let", s>>, <<"and", h>> >> \o procedure \o << <<"in">> >> \o body \o << <<"end let">> >>

Forms == {Read1(x), Read1(y), Set1(x)}
Bodies == Forms \cup {a \o b : a \in Forms, b \in Forms}
Optional(bodies) == {<<>>} \cup bodies
Arguments == {<<>>, <<y>>}

\* Procedures without others inside, and with one.
Leaves == {Lambda(args, body) : args \in Arguments, body \in Bodies}
Nests == {Lambda(args, before \o Let(s, g, leaf, after)) :
             args \in Arguments, before \in Optional(Forms), s \in {x, y}, leaf \in Leaves, after \in Optional({Read1(x), Read1(y)})}

Program(body) == body \o << <<"end lambda">> >>

Nested == {Program(Let(x, f, nest, after)) : nest \in Nests, after \in Optional(Forms)}
SideBySide == {Program(Let(x, f, leaf, after) \o Let(s, g, other, <<>>)) :
                  leaf \in Leaves, after \in Optional(Forms), s \in {x, y}, other \in Leaves}

Recursive == {Program(Let(x, f, Lambda(<<>>, a \o b), <<>>)) : a \in {Read1(x), Read1(f)}, b \in {Read1(x), Read1(f)}}

MCPrograms == Nested \cup SideBySide \cup Recursive
=============================================================================
