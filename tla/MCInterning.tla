---------------------------- MODULE MCInterning ----------------------------
(* Six spellings of five names, of one to three letters; two have the same hash. *)
EXTENDS Interning

MCSpellings == {"x", "X", "ab", "cd", "abc", "q"}
MCLower == [s \in MCSpellings |-> IF s = "X" THEN "x" ELSE s]
MCLength == [s \in MCSpellings |-> CASE s = "abc" -> 3 [] s \in {"ab", "cd"} -> 2 [] OTHER -> 1]
MCHash == [s \in MCSpellings |-> CASE s \in {"x", "X"} -> 2 [] s = "ab" -> 3 [] s = "q" -> 4 [] OTHER -> 1]
=============================================================================
