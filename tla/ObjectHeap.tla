----------------------------- MODULE ObjectHeap -----------------------------
(***************************************************************************)
(* What a garbage-collected heap promises to the program that uses it: a   *)
(* store that grows when the program allocates, changes where the program  *)
(* writes, and may at any moment lose cells, but never one the program can *)
(* still reach.                                                            *)
(***************************************************************************)
CONSTANTS
    Addr,        \* the addresses of cells
    Uses(_, _)   \* Uses(store, a): the addresses the program gets from cell a

VARIABLES
    store,   \* the contents of every cell that is allocated
    roots    \* the addresses the program holds

vars == <<store, roots>>

\* S holds every address that the program can reach in a store.
Holds(S, st, rs) == rs \subseteq S /\ \A a \in S : Uses(st, a) \subseteq S

\* A set of allocated cells holds all that is reachable: nothing dangles.
NothingDangles == \E S \in SUBSET DOMAIN store : Holds(S, store, roots)

Init ==
    /\ DOMAIN store \subseteq Addr
    /\ roots \subseteq Addr
    /\ NothingDangles

\* New cells, which lead only to one another and to what the program holds.
Allocate ==
    /\ DOMAIN store \subseteq DOMAIN store'
    /\ DOMAIN store' \subseteq Addr
    /\ \A a \in DOMAIN store : store'[a] = store[a]
    /\ LET new == DOMAIN store' \ DOMAIN store IN
          /\ \A a \in new : Uses(store', a) \subseteq roots \cup new
          /\ roots' \subseteq roots \cup new

\* One cell that the program holds, or that an object it holds is made of, gets
\* a value that the program holds.
Write ==
    /\ DOMAIN store' = DOMAIN store
    /\ \E r \in roots : \E a \in {r} \cup Uses(store, r) :
          /\ \A c \in DOMAIN store \ {a} : store'[c] = store[c]
          /\ Uses(store', a) \subseteq roots
    /\ roots' \subseteq roots

\* The program comes to hold what it could already reach, or drops what it held.
Move ==
    /\ store' = store
    /\ \A S \in SUBSET DOMAIN store : Holds(S, store, roots) => roots' \subseteq S

\* Cells are reclaimed; none of them is reachable.
Forget ==
    /\ DOMAIN store' \subseteq DOMAIN store
    /\ \A a \in DOMAIN store' : store'[a] = store[a]
    /\ roots' = roots
    /\ \E S \in SUBSET DOMAIN store' : Holds(S, store, roots)

Next == Allocate \/ Write \/ Move \/ Forget

Spec == Init /\ [][Next]_vars
=============================================================================
