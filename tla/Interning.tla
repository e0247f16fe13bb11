----------------------------- MODULE Interning -----------------------------
(***************************************************************************)
(* The internment of symbols (runtime.c): a symbol is the hash of its      *)
(* name, and the name is kept in pages of strings, found from the hash     *)
(* through sorted pages of hashes.  New pages go to the front of their     *)
(* list and are searched first; here they are numbered in the order of     *)
(* their creation and searched from the last one.                          *)
(*                                                                         *)
(* register_symbol_impl takes as many steps as intern_string and           *)
(* intern_hash take calls of themselves.                                   *)
(***************************************************************************)
EXTENDS Integers, Sequences, FiniteSetsExt, Functions

CONSTANTS
    Spellings,      \* the texts that are made into symbols
    Lower,          \* tolower of each
    Length,         \* the length of each, in bytes
    Hash,           \* symbol_hash_bytes of each
    StringBytes,    \* the bytes of a page of strings
    HashSlots,      \* the entries of a page of hashes
    MaxPages,       \* bound: pages of each kind
    NoName

SpellingsAssumption ==
    /\ Lower \in [Spellings -> Spellings]
    /\ Length \in [Spellings -> Nat]
    /\ Hash \in [Spellings -> Nat]
    /\ \A s \in Spellings : /\ Lower[Lower[s]] = Lower[s]
                            /\ Length[Lower[s]] = Length[s]
                            /\ Hash[Lower[s]] = Hash[s]
    /\ \A s, t \in Spellings : Length[s] = 0 /\ Length[t] = 0 => s = t
    /\ NoName \notin Spellings
    /\ StringBytes \in Nat /\ HashSlots \in Nat \ {0} /\ MaxPages \in Nat
ASSUME SpellingsAssumption

VARIABLES
    stringPages,    \* string_internment_page_base
    hashPages,      \* hash_internment_page_base
    registering,    \* the arguments of intern_string or intern_hash, or Idle
    symbols         \* the hashes that have been returned

vars == <<stringPages, hashPages, registering, symbols>>

Idle == [call |-> "none"]
Zero == [text |-> NoName, byte |-> 0]       \* the byte that ends a string
-----------------------------------------------------------------------------
(***************************************************************************)
(* Pages of strings.  A string is written at top and named by where it is. *)
(***************************************************************************)
EmptyStringPage == [top |-> 0, available |-> StringBytes, data |-> [b \in 0..StringBytes - 1 |-> Zero]]

HasRoom(page, s) == page.available >= Length[s] + 1

\* The page with a text written at top, and a zero after it; top moves by so many bytes.
Placed(page, text, bytes) ==
    [top       |-> page.top + bytes,
     available |-> page.available - (Length[text] + 1),
     data      |-> [b \in 0..StringBytes - 1 |->
                       IF b \in page.top..page.top + Length[text] - 1
                       THEN [text |-> text, byte |-> b - page.top]
                       ELSE IF b = page.top + Length[text] THEN Zero ELSE page.data[b]]]

\* A bug: upper case is kept.
WriteVerbatim(page, s) == Placed(page, s, Length[s] + 1)

\* A bug: the terminator is not counted.
WriteUnterminated(page, s) == Placed(page, Lower[s], Length[s])

WriteString(page, s) == Placed(page, Lower[s], Length[s] + 1)

\* What is read at a string: a text, or NoName when the bytes are not those of one.
Text(string) ==
    LET data == stringPages[string.page].data
        Written(s) == \A k \in 0..Length[s] :
                          data[string.at + k] = IF k < Length[s] THEN [text |-> s, byte |-> k] ELSE Zero
    IN  IF \E s \in Spellings : Written(s) THEN CHOOSE s \in Spellings : Written(s) ELSE NoName
-----------------------------------------------------------------------------
(***************************************************************************)
(* Pages of hashes, sorted for bsearch.                                    *)
(***************************************************************************)
EmptyHashPage == [entries |-> <<>>, available |-> HashSlots]

BySymbol(a, b) == a.hash < b.hash                       \* interned_hash_entry_comparer

\* A bug: the page is not sorted again.
AddUnsorted(page, entry) ==
    [entries |-> Append(page.entries, entry), available |-> page.available - 1]

\* qsort: the entries in an order that has no symbol before a smaller one.
Sorted(entries) ==
    LET order == CHOOSE p \in Bijection(DOMAIN entries, DOMAIN entries) :
                     \A i, j \in DOMAIN entries : i < j => ~BySymbol(entries[p[j]], entries[p[i]])
    IN  [i \in DOMAIN entries |-> entries[order[i]]]

AddEntry(page, entry) ==
    [entries   |-> Sorted(Append(page.entries, entry)),
     available |-> page.available - 1]

\* bsearch: the place of an entry in a range, from r[1] and before r[2], or 0.
Search(entries, hash) ==
    LET Places == 1..Len(entries) + 1
        find[r \in Places \X Places] ==
            LET middle == (r[1] + r[2]) \div 2
            IN  IF r[1] >= r[2] THEN 0
                ELSE IF entries[middle].hash = hash THEN middle
                ELSE IF hash < entries[middle].hash THEN find[<<r[1], middle>>]
                ELSE find[<<middle + 1, r[2]>>]
    IN  find[<<1, Len(entries) + 1>>]

PagesWith(hash) == {p \in DOMAIN hashPages : Search(hashPages[p].entries, hash) # 0}

FindSymbolName(hash) ==
    LET entries == hashPages[Max(PagesWith(hash))].entries
    IN  IF PagesWith(hash) = {} THEN NoName ELSE Text(entries[Search(entries, hash)].string)
-----------------------------------------------------------------------------
Init ==
    /\ stringPages = <<>>
    /\ hashPages = <<>>
    /\ registering = Idle
    /\ symbols = {}

Register(s) ==
    /\ registering = Idle
    /\ IF PagesWith(Hash[s]) # {}
       THEN symbols' = symbols \cup {Hash[s]} /\ UNCHANGED registering
       ELSE registering' = [call |-> "intern_string", spelling |-> s] /\ UNCHANGED symbols
    /\ UNCHANGED <<stringPages, hashPages>>

\* A bug: a new page is put in the list only if there is none.
StringPagesUnlinked == IF stringPages = <<>> THEN <<EmptyStringPage>> ELSE stringPages

WithStringPage == Append(stringPages, EmptyStringPage)

\* The first page of the list, the newest, with room; or a new page and the same call again.
InternString ==
    /\ registering.call = "intern_string"
    /\ LET s == registering.spelling
           roomy == {p \in DOMAIN stringPages : HasRoom(stringPages[p], s)}
           p == Max(roomy)
       IN  IF roomy # {}
           THEN /\ stringPages' = [stringPages EXCEPT ![p] = WriteString(@, s)]
                /\ registering' = [call |-> "intern_hash", spelling |-> s,
                                   string |-> [page |-> p, at |-> stringPages[p].top]]
           ELSE /\ Len(stringPages) < MaxPages
                /\ stringPages' = WithStringPage
                /\ UNCHANGED registering
    /\ UNCHANGED <<hashPages, symbols>>

InternHash ==
    /\ registering.call = "intern_hash"
    /\ LET free == {p \in DOMAIN hashPages : hashPages[p].available > 0}
           hash == Hash[registering.spelling]
       IN  IF free # {}
           THEN /\ hashPages' = [hashPages EXCEPT ![Max(free)] =
                                    AddEntry(@, [hash |-> hash, string |-> registering.string])]
                /\ symbols' = symbols \cup {hash}
                /\ registering' = Idle
           ELSE /\ Len(hashPages) < MaxPages
                /\ hashPages' = Append(hashPages, EmptyHashPage)
                /\ UNCHANGED <<symbols, registering>>
    /\ UNCHANGED stringPages

Next ==
    \/ \E s \in Spellings : Register(s)
    \/ InternString
    \/ InternHash

Spec == Init /\ [][Next]_vars

\* C runs intern_string and intern_hash to their end.
FairSpec == Spec /\ WF_vars(InternString) /\ WF_vars(InternHash)
-----------------------------------------------------------------------------
Strings == [page : 1..MaxPages, at : 0..StringBytes]

TypeOK ==
    /\ \A p \in DOMAIN stringPages :
           /\ stringPages[p].top \in 0..StringBytes
           /\ stringPages[p].available = StringBytes - stringPages[p].top
    /\ \A p \in DOMAIN hashPages :
           /\ Len(hashPages[p].entries) + hashPages[p].available = HashSlots
           /\ \A k \in DOMAIN hashPages[p].entries : hashPages[p].entries[k].string \in Strings
    /\ registering = Idle \/ registering.spelling \in Spellings
    /\ symbols \subseteq {Hash[s] : s \in Spellings}

\* A symbol that the program holds has a name (the assertion of symbol->string, runtime.c:393), its
\* name is that of the first spelling registered with this hash, in lower case, and stays so while
\* pages fill, are sorted and are added: find_symbol_name implements a map that only grows.
NamesOfSymbols == INSTANCE Names WITH
    name <- [h \in {Hash[s] : s \in Spellings} |-> FindSymbolName(h)]
ImplementsNames == NamesOfSymbols!Spec

\* Every hash the program was given has a name: interned before it was returned.
SymbolsHaveNames == \A h \in symbols : FindSymbolName(h) # NoName

\* register_symbol_impl returns, if no name is longer than a page: intern_string and intern_hash
\* call themselves again after adding a page (runtime.c:303, 343), and there is room in the new one.
RegistrationEnds == registering # Idle ~> registering = Idle
=============================================================================
