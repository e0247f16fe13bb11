-------------------------------- MODULE Datum --------------------------------
(***************************************************************************)
(* Scheme data as they are written and as they are meant: Write gives the  *)
(* characters of a datum, Meaning the object that it stands for.  Reader   *)
(* is checked against this module, which knows nothing of tokens.          *)
(*                                                                         *)
(* Objects are sequences, told apart by their lengths: <<>> is the empty   *)
(* list, <<car, cdr>> a pair, <<what>> an atom.                            *)
(***************************************************************************)
EXTENDS Sequences, SequencesExt

Atom(form, text) == [form |-> form, text |-> text, parts |-> <<>>]
Compound(form, parts) == [form |-> form, text |-> <<>>, parts |-> parts]

Grave == "grave accent"     \* TLA+ strings do not hold the character

\* 'EXPR, `TEMPLATE, ,EXPR and ,@EXPR.
Abbreviations == {"quote", "quasiquote", "unquote", "unquote-splicing"}

Mark(form) == CASE form = "quote"            -> <<"'">>
                [] form = "quasiquote"       -> <<Grave>>
                [] form = "unquote"          -> <<",">>
                [] form = "unquote-splicing" -> <<",", "@">>
                [] form = "vector"           -> <<"#">>
                [] form = "list"             -> <<>>

Spaced(texts) == FoldLeft(LAMBDA all, text : IF all = <<>> THEN text ELSE all \o <<" ">> \o text, <<>>, texts)

RECURSIVE Write(_)
Write(d) ==
    CASE d.form = "string"            -> <<"\"">> \o d.text \o <<"\"">>
      [] d.form \in {"list", "vector"} ->
             Mark(d.form) \o <<"(">> \o Spaced([i \in DOMAIN d.parts |-> Write(d.parts[i])]) \o <<")">>
      [] d.form \in Abbreviations     -> Mark(d.form) \o Write(d.parts[1])
      [] OTHER                        -> d.text

WriteAll(data) == Spaced([i \in DOMAIN data |-> Write(data[i])])
-----------------------------------------------------------------------------
Empty == <<>>
Pair(car, cdr) == <<car, cdr>>
Object(form, text) == << [form |-> form, text |-> text] >>
ListOf(objects) == FoldRight(Pair, objects, Empty)
Symbol(name) == Object("symbol", <<name>>)

RECURSIVE Meaning(_)
Meaning(d) ==
    LET parts == [i \in DOMAIN d.parts |-> Meaning(d.parts[i])]
    IN  CASE d.form = "list"          -> ListOf(parts)
          [] d.form = "vector"        -> Pair(Symbol("vector"), ListOf(parts))
          [] d.form \in Abbreviations -> ListOf(<<Symbol(d.form)>> \o parts)
          [] OTHER                    -> Object(d.form, d.text)

MeaningOfAll(data) == ListOf([i \in DOMAIN data |-> Meaning(data[i])])
=============================================================================
