------------------------------- MODULE Scopes -------------------------------
(***************************************************************************)
(* What lexical environments promise: scopes in scopes, each a map from    *)
(* symbols to values.  A variable is made once in a scope and keeps its    *)
(* value until it is assigned; an assignment is to the innermost variable  *)
(* of the name.                                                            *)
(***************************************************************************)
EXTENDS Naturals, Sequences

CONSTANTS Symbols, Values, EmptyPair, Unbound, Predefined, Function

VARIABLES
    outer,      \* for each scope, the one around it (the first is the global one)
    value       \* for each scope and symbol, the value or Unbound

Global == 1
NoScope == 0

Fresh == [h \in Symbols |-> Unbound]

Init ==
    /\ outer = <<NoScope>>
    /\ value = <<[h \in Symbols |-> IF h \in Predefined THEN Function ELSE Unbound]>>

Open(s) ==
    /\ outer' = Append(outer, s)
    /\ value' = Append(value, Fresh)

\* A variable that is made has the empty list for its value; one that is there keeps its own.
Declare(s, h) ==
    /\ value' = IF value[s][h] = Unbound THEN [value EXCEPT ![s][h] = EmptyPair] ELSE value
    /\ UNCHANGED outer

Define(h, v) ==
    /\ value' = [value EXCEPT ![Global][h] = v]
    /\ UNCHANGED outer

\* The innermost scope, from s outwards, with a variable h; NoScope if there is none.
Innermost(s, h) ==
    LET at[x \in 0..Len(outer)] ==
            IF x = NoScope THEN NoScope ELSE IF value[x][h] # Unbound THEN x ELSE at[outer[x]]
    IN  at[s]

Assign(s, h, v) ==
    /\ Innermost(s, h) # NoScope
    /\ value' = [value EXCEPT ![Innermost(s, h)][h] = v]
    /\ UNCHANGED outer
=============================================================================
