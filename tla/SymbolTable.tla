---------------------------- MODULE SymbolTable ----------------------------
(***************************************************************************)
(* Lexical environments (environment.c): each has a parent and a chain of  *)
(* fragments with room for a few variables, found by the hash of their     *)
(* symbols.  A location handed out by bind is kept by nobody: the          *)
(* instructions look a variable up by its symbol each time, so that two    *)
(* entries of one symbol, or an entry out of reach of the search, would    *)
(* split the variable or lose its value without a sign.                    *)
(*                                                                         *)
(* The fragments are objects of the heap; that a collection keeps those    *)
(* that are reachable is GcHeap's concern.                                 *)
(***************************************************************************)
EXTENDS Integers, Sequences, FiniteSetsExt, Functions

CONSTANTS
    Symbols,            \* hashes
    Builtins,           \* the symbols of the functions of environment_initialize, in order
    NumEntries,         \* NUM_ENTRIES_PER_FRAGMENT
    Values,
    MaxEnvironments,    \* bound: environments
    MaxFragments,       \* bound: fragments
    Operations,         \* "setUnbound": assignments to variables that are bound nowhere
    Unbound

SymbolsAssumption ==
    /\ "invalidHash" \notin Symbols /\ NumEntries \in Nat \ {0}
    /\ Builtins \in [1..NumEntries -> Symbols] /\ IsInjective(Builtins)
    /\ {"emptyPair", "function"} \cap Values = {}
    /\ Unbound \notin Values \cup {"emptyPair", "function"}
ASSUME SymbolsAssumption

VARIABLES
    parent,         \* of each environment, its parent or NoEnvironment
    firstFragment,  \* of each environment, or NoFragment
    fragments,      \* the fragments, with their next one
    emptyPair       \* what empty_pair_storage holds

vars == <<parent, firstFragment, fragments, emptyPair>>

INVALID_HASH == "invalidHash"
EmptyPair == "emptyPair"
Function == "function"  \* a special function
Global == 1             \* environment->lexical_environment
NoEnvironment == 0
NoFragment == 0
EntryIndex == 0..NumEntries - 1

EmptyPairStorage == <<NoFragment, 0>>   \* the location of a variable that is bound nowhere
-----------------------------------------------------------------------------
(***************************************************************************)
(* The search: in the fragments of an environment, then in its parents.  A *)
(* location is a fragment and an index in it.                              *)
(***************************************************************************)
Chain(e) ==
    LET chain[f \in 0..Len(fragments)] ==
            IF f = NoFragment THEN <<>> ELSE <<f>> \o chain[fragments[f].next]
    IN  chain[firstFragment[e]]

SymbolAt(f, i) == fragments[f].symbols[i]

\* The entries with the hash that the search comes to before one without symbol.
Hits(f, hash) == {i \in EntryIndex : /\ SymbolAt(f, i) = hash
                                     /\ \A j \in 0..i - 1 : SymbolAt(f, j) \notin {hash, INVALID_HASH}}

EntryOf(f, entries) ==
    IF entries = {} THEN EmptyPairStorage ELSE <<f, CHOOSE i \in entries : \A j \in entries : i <= j>>

\* The first of the locations at[f] in the fragments f of an environment.
FirstIn(e, at) ==
    LET find[f \in 0..Len(fragments)] ==
            IF f = NoFragment THEN EmptyPairStorage
            ELSE IF at[f] # EmptyPairStorage THEN at[f] ELSE find[fragments[f].next]
    IN  find[firstFragment[e]]

LocationIn(e, hash) == FirstIn(e, [f \in DOMAIN fragments |-> EntryOf(f, Hits(f, hash))])

\* A bug: outer variables come first.
BoundLocationOutermost(e, hash) ==
    LET from[x \in 0..Len(parent)] ==
            IF x = NoEnvironment THEN EmptyPairStorage
            ELSE LET outer == from[parent[x]]
                 IN  IF outer # EmptyPairStorage THEN outer ELSE LocationIn(x, hash)
    IN  from[e]

BoundLocation(e, hash) ==
    LET from[x \in 0..Len(parent)] ==
            IF x = NoEnvironment THEN EmptyPairStorage
            ELSE LET location == LocationIn(x, hash)
                 IN  IF location # EmptyPairStorage THEN location ELSE from[parent[x]]
    IN  from[e]
-----------------------------------------------------------------------------
(***************************************************************************)
(* bind: an entry that is there, the first free one, or the first of a new *)
(* fragment at the end of the chain.                                       *)
(***************************************************************************)
\* A bug: values are left as the allocation leaves them.
NewFragmentUninitialised(hash) ==
    [next    |-> NoFragment,
     symbols |-> [i \in EntryIndex |-> IF i = 0 THEN hash ELSE INVALID_HASH],
     objects |-> [i \in EntryIndex |-> IF i = 0 THEN EmptyPair ELSE "invalid"]]

NewFragment(hash) ==
    [next    |-> NoFragment,
     symbols |-> [i \in EntryIndex |-> IF i = 0 THEN hash ELSE INVALID_HASH],
     objects |-> [i \in EntryIndex |-> EmptyPair]]

\* The first free entry of an environment.
FirstFree(e) ==
    FirstIn(e, [f \in DOMAIN fragments |->
                   EntryOf(f, {i \in EntryIndex : SymbolAt(f, i) = INVALID_HASH})])

\* A bug: the new fragment follows the first one, whose successors are lost.
LastFragmentIsFirst(e) == firstFragment[e]

\* Where append_symbol_table_fragment links a new one.
LastFragment(e) == Chain(e)[Len(Chain(e))]

WithFragment(e, hash) ==
    LET new == Len(fragments) + 1
    IN  [location  |-> <<new, 0>>,
         first     |-> IF Chain(e) = <<>> THEN [firstFragment EXCEPT ![e] = new] ELSE firstFragment,
         fragments |-> Append(IF Chain(e) = <<>> THEN fragments
                                                 ELSE [fragments EXCEPT ![LastFragment(e)].next = new],
                              NewFragment(hash))]

\* The tables after bind, and the location that it returns.
Bind(e, hash) ==
    LET there == LocationIn(e, hash)
        free == FirstFree(e)
    IN  IF there # EmptyPairStorage
        THEN [first |-> firstFragment, fragments |-> fragments, location |-> there]
        ELSE IF free = EmptyPairStorage THEN WithFragment(e, hash)
        ELSE [first |-> firstFragment, location |-> free,
              fragments |-> [fragments EXCEPT ![free[1]].symbols[free[2]] = hash]]

Put(fs, location, v) == [fs EXCEPT ![location[1]].objects[location[2]] = v]
-----------------------------------------------------------------------------
\* environment_initialize binds as many functions as a fragment has entries: the first variable that
\* the program defines needs a second one.
Init ==
    /\ parent = <<NoEnvironment>>
    /\ firstFragment = <<1>>
    /\ fragments = <<[next    |-> NoFragment,
                      symbols |-> [i \in EntryIndex |-> Builtins[i + 1]],
                      objects |-> [i \in EntryIndex |-> Function]]>>
    /\ emptyPair = EmptyPair

\* The environment of a procedure whose variables are captured, inside environment e.
NewEnvironment(e) ==
    /\ Len(parent) < MaxEnvironments
    /\ parent' = Append(parent, e)
    /\ firstFragment' = Append(firstFragment, NoFragment)
    /\ UNCHANGED <<fragments, emptyPair>>

\* bind_symbol_for_scoped_environment: a captured variable is bound in its environment.
BindScoped(e, hash) ==
    /\ e # Global
    /\ LET bound == Bind(e, hash)
       IN  /\ Len(bound.fragments) <= MaxFragments
           /\ firstFragment' = bound.first /\ fragments' = bound.fragments
    /\ UNCHANGED <<parent, emptyPair>>

\* evil_define, and the functions that environment_initialize binds.
Define(hash, v) ==
    /\ LET bound == Bind(Global, hash)
       IN  /\ Len(bound.fragments) <= MaxFragments
           /\ firstFragment' = bound.first /\ fragments' = Put(bound.fragments, bound.location, v)
    /\ UNCHANGED <<parent, emptyPair>>

\* GET_BOUND_LOCATION and STORE, which follow each other.  A variable that is bound nowhere has the
\* empty pair itself for its location.
Set(e, hash, v) ==
    LET location == BoundLocation(e, hash) IN
    /\ IF location # EmptyPairStorage
       THEN fragments' = Put(fragments, location, v) /\ UNCHANGED emptyPair
       ELSE /\ "setUnbound" \in Operations
            /\ emptyPair' = v /\ UNCHANGED fragments
    /\ UNCHANGED <<parent, firstFragment>>

Next ==
    \/ \E e \in DOMAIN parent :
           \/ NewEnvironment(e)
           \/ \E hash \in Symbols : BindScoped(e, hash) \/ \E v \in Values : Set(e, hash, v)
    \/ \E hash \in Symbols, v \in Values : Define(hash, v)

Spec == Init /\ [][Next]_vars
-----------------------------------------------------------------------------
TypeOK ==
    /\ parent \in Seq(0..Len(parent)) /\ Len(firstFragment) = Len(parent)
    /\ \A e \in DOMAIN parent : parent[e] < e /\ firstFragment[e] \in 0..Len(fragments)
    /\ \A f \in DOMAIN fragments :
           /\ fragments[f].next \in 0..Len(fragments)
           /\ fragments[f].symbols \in [EntryIndex -> Symbols \cup {INVALID_HASH}]
           /\ fragments[f].objects \in [EntryIndex -> Values \cup {EmptyPair, Function}]

\* Environments are nested scopes of variables: bind makes a variable once, however many fragments
\* there are, what is looked up is the innermost one, and each operation is the one of Scopes: no bind
\* or store changes the value of another variable (environment.c:17-182, evil_define).
ValueOf(e, hash) ==
    LET location == LocationIn(e, hash)
    IN  IF location = EmptyPairStorage THEN Unbound ELSE fragments[location[1]].objects[location[2]]
Scoped == INSTANCE Scopes WITH
    Predefined <- Range(Builtins),
    outer <- parent,
    value <- [e \in DOMAIN parent |-> [h \in Symbols |-> ValueOf(e, h)]]
ImplementsScopes ==
    /\ Scoped!Init
    /\ [][/\ \A e \in DOMAIN parent : NewEnvironment(e) => Scoped!Open(e)
          /\ \A e \in DOMAIN parent, hash \in Symbols :
                 /\ BindScoped(e, hash) => Scoped!Declare(e, hash)
                 /\ \A v \in Values : Set(e, hash, v) => Scoped!Assign(e, hash, v)
          /\ \A hash \in Symbols, v \in Values : Define(hash, v) => Scoped!Define(hash, v)]_vars

\* The search stops at the first entry without symbol and goes on in the next fragment: entries are
\* without gaps, only the last fragment of a chain has room, and no fragment is of two chains or of
\* none, so that environments take no more memory than their variables do.
TablesAreCompact ==
    /\ \A e \in DOMAIN parent : \A k \in DOMAIN Chain(e), i \in EntryIndex :
           SymbolAt(Chain(e)[k], i) = INVALID_HASH =>
               /\ k = Len(Chain(e))
               /\ \A j \in i..NumEntries - 1 : SymbolAt(Chain(e)[k], j) = INVALID_HASH
    /\ \A f \in DOMAIN fragments :
           Cardinality({e \in DOMAIN parent : \E k \in DOMAIN Chain(e) : Chain(e)[k] = f}) = 1

\* The empty list stays the empty list: no assignment reaches empty_pair_storage, which all
\* environments, lists and lookups share (runtime.c:21).
EmptyPairIsEmpty == emptyPair = EmptyPair
=============================================================================
