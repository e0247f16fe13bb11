------------------------------ MODULE MCReader ------------------------------
(***************************************************************************)
(* Data of three levels: atoms; short lists, vectors and abbreviations of  *)
(* atoms; and the same again.  They stand alone, two in a string, quoted   *)
(* at the end of a list, or after a blank or a parenthesis too many.       *)
(***************************************************************************)
EXTENDS Reader

Upto(n, data) == UNION {[1..k -> data] : k \in 0..n}

Atoms == {Atom("symbol", <<"a">>), Atom("number", <<"1">>), Atom("string", <<"s">>)}
Odd == {Atom("boolean", <<"#", "t">>), Atom("string", <<>>), Atom("string", <<"'">>), Atom("string", <<"1">>)}

List(parts) == Compound("list", parts)
Quote(d) == Compound("quote", <<d>>)
Lists(data) == {List(parts) : parts \in Upto(2, data)}

Compounds(data, forms) ==
    Lists(data) \cup {Compound("vector", parts) : parts \in Upto(1, data)}
                \cup {Compound(form, <<part>>) : form \in forms, part \in data}

Level1 == Atoms \cup Odd \cup Compounds(Atoms, Abbreviations)
Level2 == Level1 \cup Compounds(Level1, {"quote", "unquote-splicing"})

AtEndOfList == {List(<<Quote(d)>>) : d \in Lists(Level1)} \cup
               {List(<<d, Quote(e)>>) : d \in Atoms, e \in Level1}

Source(before, data) == [before |-> before, data |-> data]

MCSources == {Source(<<>>, <<d>>) : d \in Level2 \cup AtEndOfList} \cup
             {Source(<<>>, <<d, e>>) : d \in Level1, e \in Atoms \cup Odd} \cup
             {Source(<<c>>, <<d>>) : c \in {" ", "(", ")"}, d \in Level1}

\* Two data in a list, the first of them a quoted list.
Quoted == {Source(<<>>, <<List(<<Quote(List(<<d>>)), e>>)>>) : d \in Atoms, e \in Level1}
=============================================================================
