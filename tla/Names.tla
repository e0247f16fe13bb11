------------------------------- MODULE Names -------------------------------
(***************************************************************************)
(* What the internment of symbols promises: a symbol (a hash) has at most  *)
(* one name, which it keeps, and which is in lower case.                   *)
(***************************************************************************)
CONSTANTS Spellings, Lower, Hash, NoName

VARIABLE name       \* the name of each symbol

Symbols == {Hash[s] : s \in Spellings}

Init == name = [h \in Symbols |-> NoName]

Register(s) ==
    /\ name[Hash[s]] = NoName
    /\ name' = [name EXCEPT ![Hash[s]] = Lower[s]]

Next == \E s \in Spellings : Register(s)

Spec == Init /\ [][Next]_name
=============================================================================
