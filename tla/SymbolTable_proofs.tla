-------------------------- MODULE SymbolTable_proofs --------------------------
(***************************************************************************)
(* Proofs about the environments of environment.c: that the tables stay    *)
(* compact, and that they implement the nested scopes of Scopes.           *)
(***************************************************************************)
EXTENDS SymbolTable, Induction, FiniteSetTheorems

-----------------------------------------------------------------------------
(* Sequences of fragments, linked in their order.                          *)

Fragment == [next    : Nat,
             symbols : [EntryIndex -> Symbols \cup {INVALID_HASH}],
             objects : [EntryIndex -> Values \cup {EmptyPair, Function}]]

Ordered(fs) ==
    /\ fs \in Seq(Fragment)
    /\ \A f \in 1..Len(fs) : fs[f].next = 0 \/ fs[f].next \in f + 1..Len(fs)

NextOf(fs) == [f \in 1..Len(fs) |-> fs[f].next]

RankOf(fs) == [f \in 0..Len(fs) |-> IF f = 0 THEN 0 ELSE Len(fs) + 1 - f]

LEMMA FragmentLinks ==
    ASSUME NEW fs, Ordered(fs)
    PROVE  Len(fs) \in Nat /\ LinksDown(NextOf(fs), Len(fs), RankOf(fs))
<1>1. Len(fs) \in Nat
  BY DEF Ordered
<1>2. ASSUME NEW f \in 1..Len(fs)
      PROVE  fs[f].next \in 0..Len(fs) /\ RankOf(fs)[fs[f].next] < RankOf(fs)[f]
  <2>1. CASE fs[f].next = 0
    BY <1>1, <2>1 DEF RankOf
  <2>2. CASE fs[f].next \in f + 1..Len(fs)
    BY <1>1, <2>2 DEF RankOf
  <2> QED BY <2>1, <2>2 DEF Ordered
<1>3. \A f \in 0..Len(fs) : RankOf(fs)[f] \in Nat
  BY <1>1 DEF RankOf
<1>4. \A f \in 1..Len(fs) : NextOf(fs)[f] = fs[f].next
  BY DEF NextOf
<1> HIDE DEF NextOf, RankOf
<1> QED BY <1>1, <1>2, <1>3, <1>4 DEF LinksDown

\* What holds of no fragment, and of each if of the next, holds of all.
LEMMA FragmentInduction ==
    ASSUME NEW fs, Ordered(fs), NEW S, 0 \in S, \A f \in 1..Len(fs) : fs[f].next \in S => f \in S
    PROVE  \A f \in 0..Len(fs) : f \in S
<1>1. Len(fs) \in Nat /\ LinksDown(NextOf(fs), Len(fs), RankOf(fs))
  BY FragmentLinks
<1>2. \A f \in 1..Len(fs) : NextOf(fs)[f] \in S => f \in S
  BY DEF NextOf
<1> HIDE DEF NextOf, RankOf
<1> QED BY <1>1, <1>2, LinkInduction

LEMMA FragmentRecursion ==
    ASSUME NEW fs, Ordered(fs), NEW W, NEW base, NEW step, Recursion(Len(fs), W, base, step)
    PROVE  \E g \in [0..Len(fs) -> W] :
               g[0] = base /\ \A f \in 1..Len(fs) : g[f] = step[f][g[fs[f].next]]
<1>1. Len(fs) \in Nat /\ LinksDown(NextOf(fs), Len(fs), RankOf(fs))
  BY FragmentLinks
<1>2. \A f \in 1..Len(fs) : NextOf(fs)[f] = fs[f].next
  BY DEF NextOf
<1> HIDE DEF NextOf, RankOf
<1>3. \E g \in [0..Len(fs) -> W] :
          g[0] = base /\ \A f \in 1..Len(fs) : g[f] = step[f][g[NextOf(fs)[f]]]
  BY <1>1, LinkRecursion
<1> QED BY <1>2, <1>3

-----------------------------------------------------------------------------
(* The fragments from f on: as a set, as a sequence, and searched.         *)

MembersBody(fs, m, f) == IF f = 0 THEN {} ELSE {f} \cup m[fs[f].next]

Members(fs) == CHOOSE m : m = [f \in 0..Len(fs) |-> MembersBody(fs, m, f)]

ChainBody(fs, c, f) == IF f = 0 THEN << >> ELSE <<f>> \o c[fs[f].next]

Chains(fs) == CHOOSE c : c = [f \in 0..Len(fs) |-> ChainBody(fs, c, f)]

SearchBody(fs, at, s, f) ==
    IF f = 0 THEN EmptyPairStorage ELSE IF at[f] # EmptyPairStorage THEN at[f] ELSE s[fs[f].next]

Search(fs, at) == CHOOSE s : s = [f \in 0..Len(fs) |-> SearchBody(fs, at, s, f)]

LEMMA MembersFacts ==
    ASSUME NEW fs, Ordered(fs)
    PROVE  /\ Members(fs) \in [0..Len(fs) -> SUBSET (1..Len(fs))]
           /\ Members(fs)[0] = {}
           /\ \A f \in 1..Len(fs) : Members(fs)[f] = {f} \cup Members(fs)[fs[f].next]
<1> DEFINE L == Len(fs)
           W == SUBSET (1..L)
           step == [f \in 1..L |-> [r \in W |-> {f} \cup r]]
<1>1. L \in Nat /\ \A f \in 1..L : fs[f].next \in 0..L
  BY FragmentLinks DEF LinksDown, NextOf
<1>2. PICK g \in [0..L -> W] : g[0] = {} /\ \A f \in 1..L : g[f] = step[f][g[fs[f].next]]
  <2>1. \A f \in 1..L : step[f] \in [W -> W]
    OBVIOUS
  <2>2. {} \in W
    OBVIOUS
  <2> HIDE DEF step, W
  <2>3. Recursion(L, W, {}, step)
    BY <2>1, <2>2 DEF Recursion
  <2> QED BY <2>3, FragmentRecursion
<1>3. \A f \in 1..L : g[f] = {f} \cup g[fs[f].next]
  BY <1>1, <1>2
<1>4. g = [f \in 0..L |-> MembersBody(fs, g, f)]
  BY <1>1, <1>2, <1>3 DEF MembersBody
<1>5. Members(fs) = [f \in 0..L |-> MembersBody(fs, Members(fs), f)]
  <2> HIDE DEF MembersBody
  <2> QED BY <1>4 DEF Members
<1> DEFINE m == Members(fs)
<1> HIDE DEF m
<1>6. m = [f \in 0..L |-> MembersBody(fs, m, f)]
  BY <1>5 DEF m
<1>7. m[0] = {} /\ \A f \in 1..L : m[f] = {f} \cup m[fs[f].next]
  BY <1>1, <1>6 DEF MembersBody
<1>8. \A f \in 0..L : m[f] \in W
  <2> DEFINE S == {f \in 0..L : m[f] \in W}
  <2>1. 0 \in S
    BY <1>1, <1>7
  <2>2. \A f \in 1..L : fs[f].next \in S => f \in S
    BY <1>1, <1>7
  <2> HIDE DEF S
  <2>3. \A f \in 0..L : f \in S
    BY <2>1, <2>2, FragmentInduction
  <2> QED BY <2>3 DEF S
<1>9. m \in [0..L -> W]
  <2> HIDE DEF MembersBody, W
  <2> QED BY <1>6, <1>8
<1> QED BY <1>7, <1>9 DEF m

LEMMA ChainsFacts ==
    ASSUME NEW fs, Ordered(fs)
    PROVE  /\ Chains(fs) \in [0..Len(fs) -> Seq(1..Len(fs))]
           /\ Chains(fs)[0] = << >>
           /\ \A f \in 1..Len(fs) : Chains(fs)[f] = <<f>> \o Chains(fs)[fs[f].next]
<1> DEFINE L == Len(fs)
           W == Seq(1..L)
           step == [f \in 1..L |-> [r \in W |-> <<f>> \o r]]
<1>1. L \in Nat /\ \A f \in 1..L : fs[f].next \in 0..L
  BY FragmentLinks DEF LinksDown, NextOf
<1>2. PICK g \in [0..L -> W] : g[0] = << >> /\ \A f \in 1..L : g[f] = step[f][g[fs[f].next]]
  <2>1. \A f \in 1..L : step[f] \in [W -> W]
    OBVIOUS
  <2>2. << >> \in W
    OBVIOUS
  <2> HIDE DEF step, W
  <2>3. Recursion(L, W, << >>, step)
    BY <2>1, <2>2 DEF Recursion
  <2> QED BY <2>3, FragmentRecursion
<1>3. \A f \in 1..L : g[f] = <<f>> \o g[fs[f].next]
  <2> SUFFICES ASSUME NEW f \in 1..L PROVE g[f] = <<f>> \o g[fs[f].next]
    OBVIOUS
  <2>1. g[fs[f].next] \in W
    <3> HIDE DEF W
    <3> QED BY <1>1, <1>2
  <2>2. g[f] = step[f][g[fs[f].next]]
    <3> HIDE DEF W, step
    <3> QED BY <1>2
  <2> HIDE DEF W
  <2> QED BY <2>1, <2>2
<1>4. g = [f \in 0..L |-> ChainBody(fs, g, f)]
  <2>1. \A f \in 0..L : g[f] = ChainBody(fs, g, f)
    <3> HIDE DEF W, step
    <3> QED BY <1>1, <1>2, <1>3 DEF ChainBody
  <2> HIDE DEF W, step, ChainBody
  <2> QED BY <1>2, <2>1
<1>5. Chains(fs) = [f \in 0..L |-> ChainBody(fs, Chains(fs), f)]
  <2> HIDE DEF ChainBody
  <2> QED BY <1>4 DEF Chains
<1> DEFINE m == Chains(fs)
<1> HIDE DEF m
<1>6. m = [f \in 0..L |-> ChainBody(fs, m, f)]
  BY <1>5 DEF m
<1>7. m[0] = << >> /\ \A f \in 1..L : m[f] = <<f>> \o m[fs[f].next]
  <2>1. 0 \in 0..L /\ \A f \in 1..L : f \in 0..L /\ f # 0
    BY <1>1
  <2>2. \A f \in 0..L : m[f] = ChainBody(fs, m, f)
    <3> HIDE DEF ChainBody
    <3> QED BY <1>6
  <2> QED BY <2>1, <2>2 DEF ChainBody
<1>8. \A f \in 0..L : m[f] \in W
  <2> DEFINE S == {f \in 0..L : m[f] \in W}
  <2>1. 0 \in S
    <3>1. << >> \in W /\ 0 \in 0..L
      BY <1>1
    <3> HIDE DEF W
    <3> QED BY <1>7, <3>1
  <2>2. \A f \in 1..L : fs[f].next \in S => f \in S
    <3>1. \A f \in 1..L, r \in W : <<f>> \o r \in W /\ f \in 0..L
      BY <1>1
    <3> HIDE DEF W
    <3> QED BY <1>7, <3>1
  <2> HIDE DEF S
  <2>3. \A f \in 0..L : f \in S
    BY <2>1, <2>2, FragmentInduction
  <2> QED BY <2>3 DEF S
<1>9. m \in [0..L -> W]
  <2> HIDE DEF ChainBody, W
  <2> QED BY <1>6, <1>8
<1> QED BY <1>7, <1>9 DEF m

LEMMA SearchFacts ==
    ASSUME NEW fs, Ordered(fs), NEW at
    PROVE  /\ Search(fs, at)[0] = EmptyPairStorage
           /\ \A f \in 1..Len(fs) :
                  Search(fs, at)[f] =
                      IF at[f] # EmptyPairStorage THEN at[f] ELSE Search(fs, at)[fs[f].next]
<1> DEFINE L == Len(fs)
           W == {EmptyPairStorage} \cup {at[f] : f \in 1..L}
           step == [f \in 1..L |-> [r \in W |-> IF at[f] # EmptyPairStorage THEN at[f] ELSE r]]
<1>1. L \in Nat /\ \A f \in 1..L : fs[f].next \in 0..L
  BY FragmentLinks DEF LinksDown, NextOf
<1> HIDE DEF EmptyPairStorage
<1>2. PICK g \in [0..L -> W] :
          g[0] = EmptyPairStorage /\ \A f \in 1..L : g[f] = step[f][g[fs[f].next]]
  <2>1. \A f \in 1..L : step[f] \in [W -> W]
    OBVIOUS
  <2>2. EmptyPairStorage \in W
    OBVIOUS
  <2> HIDE DEF step, W
  <2>3. Recursion(L, W, EmptyPairStorage, step)
    BY <2>1, <2>2 DEF Recursion
  <2> QED BY <2>3, FragmentRecursion
<1>3. \A f \in 1..L : g[f] = IF at[f] # EmptyPairStorage THEN at[f] ELSE g[fs[f].next]
  <2> SUFFICES ASSUME NEW f \in 1..L
               PROVE  g[f] = IF at[f] # EmptyPairStorage THEN at[f] ELSE g[fs[f].next]
    OBVIOUS
  <2>1. g[fs[f].next] \in W
    <3> HIDE DEF W
    <3> QED BY <1>1, <1>2
  <2>2. g[f] = step[f][g[fs[f].next]]
    <3> HIDE DEF W, step
    <3> QED BY <1>2
  <2> HIDE DEF W
  <2> QED BY <2>1, <2>2
<1>4. g = [f \in 0..L |-> SearchBody(fs, at, g, f)]
  <2>1. \A f \in 0..L : g[f] = SearchBody(fs, at, g, f)
    <3> HIDE DEF W, step
    <3> QED BY <1>1, <1>2, <1>3 DEF SearchBody
  <2> HIDE DEF W, step, SearchBody
  <2> QED BY <1>2, <2>1
<1>5. Search(fs, at) = [f \in 0..L |-> SearchBody(fs, at, Search(fs, at), f)]
  <2> HIDE DEF SearchBody
  <2> QED BY <1>4 DEF Search
<1> DEFINE m == Search(fs, at)
<1> HIDE DEF m
<1>6. m = [f \in 0..L |-> SearchBody(fs, at, m, f)]
  BY <1>5 DEF m
<1>7. /\ m[0] = EmptyPairStorage
      /\ \A f \in 1..L : m[f] = IF at[f] # EmptyPairStorage THEN at[f] ELSE m[fs[f].next]
  BY <1>1, <1>6 DEF SearchBody
<1> QED BY <1>7 DEF m

-----------------------------------------------------------------------------
(* What follows a fragment, and what a search finds.                       *)

LEMMA NextFacts ==
    ASSUME NEW fs, Ordered(fs)
    PROVE  Len(fs) \in Nat /\ \A f \in 1..Len(fs) : fs[f].next \in 0..Len(fs) /\ fs[f].next # f
<1>1. Len(fs) \in Nat
  BY DEF Ordered
<1> QED BY <1>1 DEF Ordered

LEMMA MembersClosed ==
    ASSUME NEW fs, Ordered(fs)
    PROVE  \A f \in 0..Len(fs) : \A g \in Members(fs)[f] :
               fs[g].next # 0 => fs[g].next \in Members(fs)[f]
<1> DEFINE L == Len(fs)
           m == Members(fs)
           S == {f \in 0..L : \A g \in m[f] : fs[g].next # 0 => fs[g].next \in m[f]}
<1>1. L \in Nat /\ \A f \in 1..L : fs[f].next \in 0..L
  BY NextFacts
<1>2. /\ m[0] = {}
      /\ \A f \in 1..L : m[f] = {f} \cup m[fs[f].next]
  BY MembersFacts
<1> HIDE DEF m
<1>3. 0 \in S
  BY <1>1, <1>2
<1>4. ASSUME NEW f \in 1..L, fs[f].next \in S PROVE f \in S
  <2>1. fs[f].next # 0 => fs[f].next \in m[fs[f].next]
    BY <1>1, <1>2
  <2> QED BY <1>1, <1>2, <1>4, <2>1
<1> HIDE DEF S
<1>5. \A f \in 0..L : f \in S
  BY <1>3, <1>4, FragmentInduction
<1> QED BY <1>5 DEF S, m

LEMMA LastUnique ==
    ASSUME NEW fs, Ordered(fs), NEW f \in 0..Len(fs), NEW y \in Members(fs)[f], NEW z \in Members(fs)[f],
           fs[y].next = 0, fs[z].next = 0
    PROVE  y = z
<1> DEFINE L == Len(fs)
           m == Members(fs)
           S == {x \in 0..L : \A a, b \in m[x] : fs[a].next = 0 /\ fs[b].next = 0 => a = b}
<1>1. L \in Nat /\ \A x \in 1..L : fs[x].next \in 0..L
  BY NextFacts
<1>2. /\ m[0] = {}
      /\ \A x \in 1..L : m[x] = {x} \cup m[fs[x].next]
  BY MembersFacts
<1> HIDE DEF m
<1>3. 0 \in S
  BY <1>1, <1>2
<1>4. ASSUME NEW x \in 1..L, fs[x].next \in S PROVE x \in S
  BY <1>1, <1>2, <1>4, SMTT(30)
<1> HIDE DEF S
<1>5. \A x \in 0..L : x \in S
  BY <1>3, <1>4, FragmentInduction
<1> QED BY <1>5 DEF S, m

LEMMA ConsFacts ==
    ASSUME NEW X, NEW s \in Seq(X), NEW x \in X
    PROVE  /\ <<x>> \o s \in Seq(X) /\ Len(<<x>> \o s) = Len(s) + 1 /\ (<<x>> \o s)[1] = x
           /\ \A k \in 1..Len(s) : (<<x>> \o s)[k + 1] = s[k]
OBVIOUS

\* A chain goes through its fragments, and ends at the one that has no next.
ChainOver(fs, f, c) ==
    /\ f # 0 => Len(c) \in Nat \ {0}
    /\ f = 0 => Len(c) = 0
    /\ \A k \in 1..Len(c) : c[k] \in Members(fs)[f] /\ (fs[c[k]].next = 0 <=> k = Len(c))
    /\ \A g \in Members(fs)[f] : \E k \in 1..Len(c) : c[k] = g

LEMMA ChainMembers ==
    ASSUME NEW fs, Ordered(fs)
    PROVE  \A f \in 0..Len(fs) : ChainOver(fs, f, Chains(fs)[f])
<1> DEFINE L == Len(fs)
           m == Members(fs)
           c == Chains(fs)
           S == {f \in 0..L : ChainOver(fs, f, c[f])}
<1>1. L \in Nat /\ \A x \in 1..L : fs[x].next \in 0..L
  BY NextFacts
<1>2. /\ m[0] = {}
      /\ \A x \in 1..L : m[x] = {x} \cup m[fs[x].next]
  BY MembersFacts
<1>3. /\ c[0] = << >>
      /\ \A f \in 0..L : c[f] \in Seq(1..L)
      /\ \A f \in 1..L : c[f] = <<f>> \o c[fs[f].next]
  <2> DEFINE W == Seq(1..L)
  <2>1. c \in [0..L -> W] /\ c[0] = << >> /\ \A f \in 1..L : c[f] = <<f>> \o c[fs[f].next]
    BY ChainsFacts
  <2> HIDE DEF W, c
  <2>2. \A f \in 0..L : c[f] \in W
    BY <2>1
  <2> QED BY <2>1, <2>2 DEF W
<1> HIDE DEF m, c
<1>4. 0 \in S
  <2>1. 0 \in 0..L /\ Len(c[0]) = 0
    BY <1>1, <1>3
  <2>2. Members(fs)[0] = {}
    BY <1>2 DEF m
  <2> QED BY <2>1, <2>2 DEF ChainOver
<1>5. ASSUME NEW f \in 1..L, fs[f].next \in S PROVE f \in S
  <2> DEFINE n == fs[f].next
             d == c[n]
             e == c[f]
             l == Len(d)
  <2>1. /\ n \in 0..L /\ f \in 0..L /\ f # 0
        /\ Members(fs)[f] = {f} \cup Members(fs)[n]
    BY <1>1, <1>2 DEF m
  <2>2. d \in Seq(1..L) /\ e = <<f>> \o d
    BY <1>3, <2>1
  <2>3. /\ l \in Nat /\ Len(e) = l + 1 /\ e[1] = f
        /\ \A k \in 1..l : e[k + 1] = d[k]
    <3> HIDE DEF d, e
    <3> QED BY <2>2, ConsFacts
  <2>4. ChainOver(fs, n, d)
    BY <1>5
  <2> HIDE DEF d, e
  <2>5. /\ n # 0 => l # 0
        /\ n = 0 => l = 0
        /\ \A k \in 1..l : d[k] \in Members(fs)[n] /\ (fs[d[k]].next = 0 <=> k = l)
        /\ \A g \in Members(fs)[n] : \E k \in 1..l : d[k] = g
    BY <2>4 DEF ChainOver
  <2> HIDE DEF l
  <2>6. ASSUME NEW k \in 1..l + 1
        PROVE  e[k] \in Members(fs)[f] /\ (fs[e[k]].next = 0 <=> k = l + 1)
    <3>1. CASE k = 1
      BY <2>1, <2>3, <2>5, <3>1 DEF n
    <3>2. CASE k # 1
      <4>1. k - 1 \in 1..l /\ (k - 1) + 1 = k /\ (k - 1 = l <=> k = l + 1)
        BY <2>3, <3>2
      <4> DEFINE j == k - 1
      <4>2. e[j + 1] = d[j] /\ d[j] \in Members(fs)[n] /\ (fs[d[j]].next = 0 <=> j = l)
        <5> HIDE DEF j, n
        <5>1. j \in 1..l
          BY <4>1 DEF j
        <5> QED BY <2>3, <2>5, <5>1
      <4> QED BY <2>1, <4>1, <4>2
    <3> QED BY <3>1, <3>2
  <2>7. ASSUME NEW g \in Members(fs)[f] PROVE \E k \in 1..l + 1 : e[k] = g
    <3>1. CASE g = f
      BY <2>3, <3>1
    <3>2. CASE g \in Members(fs)[n]
      <4>1. PICK k \in 1..l : d[k] = g
        BY <2>5, <3>2
      <4>2. k + 1 \in 1..l + 1 /\ e[k + 1] = g
        BY <2>3, <4>1
      <4> QED BY <4>2
    <3> QED BY <2>1, <3>1, <3>2
  <2>8. ChainOver(fs, f, e)
    <3>1. Len(e) \in Nat \ {0}
      BY <2>3
    <3> QED BY <2>1, <2>3, <2>6, <2>7, <3>1 DEF ChainOver
  <2> QED BY <2>1, <2>8 DEF e
<1> HIDE DEF S
<1>6. \A f \in 0..L : f \in S
  BY <1>4, <1>5, FragmentInduction
<1> QED BY <1>6 DEF S, c

LEMMA SearchMembers ==
    ASSUME NEW fs, Ordered(fs), NEW at
    PROVE  \A f \in 0..Len(fs) :
               \/ /\ Search(fs, at)[f] = EmptyPairStorage
                  /\ \A g \in Members(fs)[f] : at[g] = EmptyPairStorage
               \/ \E g \in Members(fs)[f] :
                      at[g] # EmptyPairStorage /\ Search(fs, at)[f] = at[g]
<1> DEFINE L == Len(fs)
           m == Members(fs)
           s == Search(fs, at)
           S == {f \in 0..L : \/ s[f] = EmptyPairStorage /\ \A g \in m[f] : at[g] = EmptyPairStorage
                              \/ \E g \in m[f] : at[g] # EmptyPairStorage /\ s[f] = at[g]}
<1>1. L \in Nat /\ \A x \in 1..L : fs[x].next \in 0..L
  BY NextFacts
<1>2. /\ m[0] = {}
      /\ \A x \in 1..L : m[x] = {x} \cup m[fs[x].next]
  BY MembersFacts
<1>3. /\ s[0] = EmptyPairStorage
      /\ \A f \in 1..L : s[f] = IF at[f] # EmptyPairStorage THEN at[f] ELSE s[fs[f].next]
  <2> HIDE DEF EmptyPairStorage
  <2> QED BY SearchFacts
<1> HIDE DEF m, s, EmptyPairStorage
<1>4. 0 \in S
  BY <1>1, <1>2, <1>3
<1>5. ASSUME NEW f \in 1..L, fs[f].next \in S PROVE f \in S
  BY <1>1, <1>2, <1>3, <1>5
<1> HIDE DEF S
<1>6. \A f \in 0..L : f \in S
  BY <1>4, <1>5, FragmentInduction
<1> QED BY <1>6 DEF S, s, m

-----------------------------------------------------------------------------
(* The members of chains when the fragments change.                        *)

LEMMA MembersSame ==
    ASSUME NEW fs, Ordered(fs), NEW gs, Ordered(gs), Len(gs) = Len(fs),
           \A f \in 1..Len(fs) : gs[f].next = fs[f].next
    PROVE  \A f \in 0..Len(fs) : Members(gs)[f] = Members(fs)[f]
<1> DEFINE L == Len(fs)
           m == Members(fs)
           n == Members(gs)
           S == {f \in 0..L : n[f] = m[f]}
<1>1. L \in Nat /\ \A x \in 1..L : fs[x].next \in 0..L
  BY NextFacts
<1>2. /\ m[0] = {}
      /\ \A x \in 1..L : m[x] = {x} \cup m[fs[x].next]
  BY MembersFacts
<1>3. /\ n[0] = {}
      /\ \A x \in 1..L : n[x] = {x} \cup n[gs[x].next]
  BY MembersFacts
<1> HIDE DEF m, n
<1>n. \A f \in 1..L : gs[f].next = fs[f].next
  OBVIOUS
<1>o. 0 \in 0..L /\ \A f \in 1..L : f \in 0..L
  BY <1>1
<1>4. 0 \in S
  <2>1. n[0] = m[0]
    BY <1>2, <1>3
  <2> QED BY <1>o, <2>1
<1>5. ASSUME NEW f \in 1..L, fs[f].next \in S PROVE f \in S
  <2>1. /\ m[f] = {f} \cup m[fs[f].next]
        /\ n[f] = {f} \cup n[gs[f].next]
        /\ gs[f].next = fs[f].next
    BY <1>2, <1>3, <1>n
  <2>2. n[fs[f].next] = m[fs[f].next]
    BY <1>5
  <2>3. n[f] = m[f]
    BY <2>1, <2>2, Zenon
  <2> QED BY <1>o, <2>3
<1> HIDE DEF S
<1>6. \A f \in 0..L : f \in S
  BY <1>4, <1>5, FragmentInduction
<1> QED BY <1>6 DEF S, m, n

\* A fragment is added, at the end of the chains through z if there is a z.
Extends(fs, gs, z) ==
    /\ Len(gs) = Len(fs) + 1 /\ gs[Len(fs) + 1].next = 0
    /\ \A f \in 1..Len(fs) : gs[f].next = IF f = z THEN Len(fs) + 1 ELSE fs[f].next
    /\ z \in 1..Len(fs) => fs[z].next = 0

LEMMA MembersMore ==
    ASSUME NEW fs, Ordered(fs), NEW gs, Ordered(gs), NEW z \in 0..Len(fs), Extends(fs, gs, z)
    PROVE  /\ Members(gs)[Len(fs) + 1] = {Len(fs) + 1}
           /\ \A f \in 0..Len(fs) :
                  Members(gs)[f] =
                      Members(fs)[f] \cup (IF z \in Members(fs)[f] THEN {Len(fs) + 1} ELSE {})
<1> DEFINE L == Len(fs)
           m == Members(fs)
           n == Members(gs)
           S == {f \in 0..L : n[f] = m[f] \cup (IF z \in m[f] THEN {L + 1} ELSE {})}
<1>1. L \in Nat /\ \A x \in 1..L : fs[x].next \in 0..L
  BY NextFacts
<1>2. /\ m[0] = {}
      /\ \A x \in 1..L : m[x] = {x} \cup m[fs[x].next]
      /\ \A x \in 0..L : m[x] \subseteq 1..L
  BY MembersFacts
<1>3. /\ n[0] = {}
      /\ \A x \in 1..L + 1 : n[x] = {x} \cup n[gs[x].next]
  BY MembersFacts DEF Extends
<1>n. z \in 0..L /\ L + 1 \in 1..L + 1 /\ \A x \in 1..L : x \in 1..L + 1 /\ x \in 0..L
  BY <1>1
<1>4. /\ gs[L + 1].next = 0
      /\ \A f \in 1..L : gs[f].next = IF f = z THEN L + 1 ELSE fs[f].next
      /\ z \in 1..L => fs[z].next = 0
  BY DEF Extends
<1> HIDE DEF m, n
<1>5. n[L + 1] = {L + 1}
  BY <1>3, <1>4, <1>n
<1>6. 0 \in S
  BY <1>1, <1>2, <1>3
<1>7. ASSUME NEW f \in 1..L, fs[f].next \in S PROVE f \in S
  <2>1. n[f] = {f} \cup n[gs[f].next] /\ m[f] = {f} \cup m[fs[f].next]
    BY <1>2, <1>3, <1>n
  <2>2. CASE f = z
    <3>1. n[f] = {f} \cup {L + 1} /\ m[f] = {f}
      BY <1>2, <1>4, <1>5, <2>1, <2>2
    <3> QED BY <1>n, <2>2, <3>1
  <2>3. CASE f # z
    <3>1. n[f] = {f} \cup n[fs[f].next]
      BY <1>4, <2>1, <2>3
    <3>2. n[fs[f].next] = m[fs[f].next] \cup (IF z \in m[fs[f].next] THEN {L + 1} ELSE {})
      BY <1>7
    <3>3. z \in m[f] <=> z \in m[fs[f].next]
      BY <2>1, <2>3
    <3>4. n[f] = m[f] \cup (IF z \in m[f] THEN {L + 1} ELSE {})
      <4> HIDE DEF L
      <4> QED BY <2>1, <3>1, <3>2, <3>3
    <3> QED BY <1>n, <3>4
  <2> QED BY <2>2, <2>3
<1> HIDE DEF S
<1>8. \A f \in 0..L : f \in S
  BY <1>6, <1>7, FragmentInduction
<1> QED BY <1>5, <1>8 DEF S, m, n

-----------------------------------------------------------------------------
(* What the searches of the model find, in tables that are compact.        *)

\* Entries have no gaps, only the last fragment of a chain has room, and room is initialised.
Compact(fs) ==
    \A f \in 1..Len(fs), i \in EntryIndex :
        fs[f].symbols[i] = INVALID_HASH =>
            /\ fs[f].next = 0
            /\ fs[f].objects[i] = EmptyPair
            /\ \A j \in EntryIndex : i <= j => fs[f].symbols[j] = INVALID_HASH

HitsOf(fs, f, h) ==
    {i \in EntryIndex : fs[f].symbols[i] = h /\ \A j \in 0..i - 1 : fs[f].symbols[j] \notin {h, INVALID_HASH}}

FreeOf(fs, f) == {i \in EntryIndex : fs[f].symbols[i] = INVALID_HASH}

Located(fs, f, h) == Search(fs, [x \in DOMAIN fs |-> EntryOf(x, HitsOf(fs, x, h))])[f]

FirstFreeOf(fs, f) == Search(fs, [x \in DOMAIN fs |-> EntryOf(x, FreeOf(fs, x))])[f]

LEMMA Indices == EntryIndex \in SUBSET Nat /\ 0 \in EntryIndex
BY SymbolsAssumption DEF SymbolsAssumption, EntryIndex

LEMMA EntryOfFacts ==
    ASSUME NEW f \in Nat \ {0}, NEW entries \in SUBSET EntryIndex
    PROVE  /\ entries = {} => EntryOf(f, entries) = EmptyPairStorage
           /\ entries # {} => /\ EntryOf(f, entries) # EmptyPairStorage
                              /\ \E i \in entries : /\ EntryOf(f, entries) = <<f, i>>
                                                    /\ \A j \in entries : i <= j
<1> SUFFICES ASSUME entries # {}
             PROVE  /\ EntryOf(f, entries) # EmptyPairStorage
                    /\ \E i \in entries : /\ EntryOf(f, entries) = <<f, i>>
                                          /\ \A j \in entries : i <= j
  BY DEF EntryOf
<1>1. entries \in SUBSET Nat
  BY Indices
<1>2. \E i \in entries : \A j \in entries : i <= j
  BY <1>1, SetMin
<1> DEFINE k == CHOOSE i \in entries : \A j \in entries : i <= j
<1>3. k \in entries /\ \A j \in entries : k <= j
  BY <1>2
<1>4. EntryOf(f, entries) = <<f, k>>
  BY DEF EntryOf
<1> HIDE DEF k
<1>5. <<f, k>> # EmptyPairStorage
  BY DEF EmptyPairStorage, NoFragment
<1> QED BY <1>3, <1>4, <1>5

LEMMA HitsFacts ==
    ASSUME NEW fs, Compact(fs), NEW f \in 1..Len(fs), NEW h, h # INVALID_HASH,
           NEW i \in EntryIndex, fs[f].symbols[i] = h
    PROVE  HitsOf(fs, f, h) # {}
<1> DEFINE T == {j \in EntryIndex : fs[f].symbols[j] = h}
<1>1. T \in SUBSET Nat /\ T # {}
  BY Indices
<1>2. PICK k \in T : \A j \in T : k <= j
  <2> HIDE DEF T
  <2> QED BY <1>1, SetMin
<1>3. k \in Nat /\ k \in EntryIndex /\ fs[f].symbols[k] = h
  BY <1>1, <1>2
<1>4. \A j \in 0..k - 1 : j \in EntryIndex /\ j < k /\ j <= k
  BY <1>3, SymbolsAssumption DEF EntryIndex, SymbolsAssumption
<1>5. \A j \in 0..k - 1 : fs[f].symbols[j] # h
  BY <1>2, <1>3, <1>4
<1>6. \A j \in 0..k - 1 : fs[f].symbols[j] # INVALID_HASH
  BY <1>3, <1>4 DEF Compact
<1> QED BY <1>3, <1>5, <1>6 DEF HitsOf

LEMMA LocatedFacts ==
    ASSUME NEW fs, Ordered(fs), Compact(fs), NEW f \in 0..Len(fs), NEW h, h # INVALID_HASH
    PROVE  \/ /\ Located(fs, f, h) = EmptyPairStorage
              /\ \A g \in Members(fs)[f], i \in EntryIndex : fs[g].symbols[i] # h
           \/ \E g \in Members(fs)[f], i \in EntryIndex :
                  /\ Located(fs, f, h) = <<g, i>> /\ fs[g].symbols[i] = h
                  /\ Located(fs, f, h) # EmptyPairStorage
<1> DEFINE at == [x \in DOMAIN fs |-> EntryOf(x, HitsOf(fs, x, h))]
           m == Members(fs)[f]
           l == Search(fs, at)[f]
<1>1. m \subseteq 1..Len(fs) /\ DOMAIN fs = 1..Len(fs) /\ Len(fs) \in Nat
  BY MembersFacts DEF Ordered
<1>2. \A g \in m : at[g] = EntryOf(g, HitsOf(fs, g, h)) /\ g \in Nat \ {0} /\ g \in 1..Len(fs)
  BY <1>1
<1>3. \A g \in m : HitsOf(fs, g, h) \in SUBSET EntryIndex
  BY DEF HitsOf
<1>4. Located(fs, f, h) = l
  BY DEF Located
<1>5. \/ l = EmptyPairStorage /\ \A g \in m : at[g] = EmptyPairStorage
      \/ \E g \in m : at[g] # EmptyPairStorage /\ l = at[g]
  <2> HIDE DEF at, EmptyPairStorage
  <2> QED BY SearchMembers
<1> HIDE DEF at, l, m, EmptyPairStorage
<1>6. CASE l = EmptyPairStorage /\ \A g \in m : at[g] = EmptyPairStorage
  <2>1. ASSUME NEW g \in m, NEW i \in EntryIndex, fs[g].symbols[i] = h PROVE FALSE
    <3>1. HitsOf(fs, g, h) # {}
      BY <1>2, <2>1, HitsFacts
    <3>2. EntryOf(g, HitsOf(fs, g, h)) # EmptyPairStorage
      BY <1>2, <1>3, <3>1, EntryOfFacts
    <3> QED BY <1>2, <1>6, <3>2
  <2> QED BY <1>4, <1>6, <2>1 DEF m
<1>7. CASE \E g \in m : at[g] # EmptyPairStorage /\ l = at[g]
  <2>1. PICK g \in m : at[g] # EmptyPairStorage /\ l = at[g]
    BY <1>7
  <2>2. EntryOf(g, HitsOf(fs, g, h)) = l /\ l # EmptyPairStorage
    BY <1>2, <2>1
  <2>3. HitsOf(fs, g, h) # {}
    BY <1>2, <1>3, <2>2, EntryOfFacts
  <2>4. PICK i \in HitsOf(fs, g, h) : EntryOf(g, HitsOf(fs, g, h)) = <<g, i>>
    BY <1>2, <1>3, <2>3, EntryOfFacts
  <2>5. i \in EntryIndex /\ fs[g].symbols[i] = h
    BY <2>4 DEF HitsOf
  <2> QED BY <1>4, <2>2, <2>4, <2>5 DEF m
<1> QED BY <1>5, <1>6, <1>7

LEMMA FirstFreeFacts ==
    ASSUME NEW fs, Ordered(fs), NEW f \in 0..Len(fs)
    PROVE  \/ /\ FirstFreeOf(fs, f) = EmptyPairStorage
              /\ \A g \in Members(fs)[f], i \in EntryIndex : fs[g].symbols[i] # INVALID_HASH
           \/ \E g \in Members(fs)[f], i \in EntryIndex :
                  /\ FirstFreeOf(fs, f) = <<g, i>> /\ FirstFreeOf(fs, f) # EmptyPairStorage
                  /\ fs[g].symbols[i] = INVALID_HASH
                  /\ \A j \in EntryIndex : fs[g].symbols[j] = INVALID_HASH => i <= j
<1> DEFINE at == [x \in DOMAIN fs |-> EntryOf(x, FreeOf(fs, x))]
           m == Members(fs)[f]
           l == Search(fs, at)[f]
<1>1. m \subseteq 1..Len(fs) /\ DOMAIN fs = 1..Len(fs) /\ Len(fs) \in Nat
  BY MembersFacts DEF Ordered
<1>2. \A g \in m : at[g] = EntryOf(g, FreeOf(fs, g)) /\ g \in Nat \ {0} /\ g \in 1..Len(fs)
  BY <1>1
<1>3. \A g \in m : FreeOf(fs, g) \in SUBSET EntryIndex
  BY DEF FreeOf
<1>4. FirstFreeOf(fs, f) = l
  BY DEF FirstFreeOf
<1>5. \/ l = EmptyPairStorage /\ \A g \in m : at[g] = EmptyPairStorage
      \/ \E g \in m : at[g] # EmptyPairStorage /\ l = at[g]
  <2> HIDE DEF at, EmptyPairStorage
  <2> QED BY SearchMembers
<1> HIDE DEF at, l, m, EmptyPairStorage
<1>6. CASE l = EmptyPairStorage /\ \A g \in m : at[g] = EmptyPairStorage
  <2>1. ASSUME NEW g \in m, NEW i \in EntryIndex, fs[g].symbols[i] = INVALID_HASH PROVE FALSE
    <3>1. FreeOf(fs, g) # {}
      BY <2>1 DEF FreeOf
    <3>2. EntryOf(g, FreeOf(fs, g)) # EmptyPairStorage
      BY <1>2, <1>3, <3>1, EntryOfFacts
    <3> QED BY <1>2, <1>6, <3>2
  <2> QED BY <1>4, <1>6, <2>1 DEF m
<1>7. CASE \E g \in m : at[g] # EmptyPairStorage /\ l = at[g]
  <2>1. PICK g \in m : at[g] # EmptyPairStorage /\ l = at[g]
    BY <1>7
  <2>2. EntryOf(g, FreeOf(fs, g)) = l /\ l # EmptyPairStorage
    BY <1>2, <2>1
  <2>3. FreeOf(fs, g) # {}
    BY <1>2, <1>3, <2>2, EntryOfFacts
  <2>4. PICK i \in FreeOf(fs, g) : /\ EntryOf(g, FreeOf(fs, g)) = <<g, i>>
                                  /\ \A j \in FreeOf(fs, g) : i <= j
    BY <1>2, <1>3, <2>3, EntryOfFacts
  <2>5. i \in EntryIndex /\ fs[g].symbols[i] = INVALID_HASH
        /\ \A j \in EntryIndex : fs[g].symbols[j] = INVALID_HASH => i <= j
    BY <2>4 DEF FreeOf
  <2> QED BY <1>4, <2>2, <2>4, <2>5 DEF m
<1> QED BY <1>5, <1>6, <1>7

-----------------------------------------------------------------------------
(* The operators of the model, as functions of the tables.                 *)

Valued(fs, f, h) ==
    LET location == Located(fs, f, h)
    IN  IF location = EmptyPairStorage THEN Unbound ELSE fs[location[1]].objects[location[2]]

LEMMA ModelSearches ==
    ASSUME NEW e
    PROVE  /\ Chain(e) = Chains(fragments)[firstFragment[e]]
           /\ FirstFree(e) = FirstFreeOf(fragments, firstFragment[e])
           /\ \A h : /\ LocationIn(e, h) = Located(fragments, firstFragment[e], h)
                     /\ ValueOf(e, h) = Valued(fragments, firstFragment[e], h)
<1>1. Chain(e) = Chains(fragments)[firstFragment[e]]
  BY DEF Chain, Chains, ChainBody, NoFragment
<1>2. \A at : FirstIn(e, at) = Search(fragments, at)[firstFragment[e]]
  BY DEF FirstIn, Search, SearchBody, NoFragment
<1>3. FirstFree(e) = FirstFreeOf(fragments, firstFragment[e])
  BY <1>2 DEF FirstFree, FirstFreeOf, FreeOf, SymbolAt
<1>4. ASSUME NEW h PROVE LocationIn(e, h) = Located(fragments, firstFragment[e], h)
  BY <1>2 DEF LocationIn, Located, HitsOf, Hits, SymbolAt
<1>5. ASSUME NEW h PROVE ValueOf(e, h) = Valued(fragments, firstFragment[e], h)
  BY <1>4 DEF ValueOf, Valued
<1> QED BY <1>1, <1>3, <1>4, <1>5

-----------------------------------------------------------------------------
(* The invariant: every fragment is in the chain of one environment, where *)
(* no symbol is twice, and the tables are compact.                         *)

Heads(fs, first) == first \in Seq(Nat) /\ \A e \in 1..Len(first) : first[e] \in 0..Len(fs)

Owned(fs, first) ==
    /\ \A f \in 1..Len(fs) : \E e \in 1..Len(first) : f \in Members(fs)[first[e]]
    /\ \A d, e \in 1..Len(first) :
           d # e => \A f \in 1..Len(fs) : ~ (f \in Members(fs)[first[d]] /\ f \in Members(fs)[first[e]])

\* Symbol h is at index i of fragment g, which is in the chain of f.
At(fs, f, h, g, i) == g \in Members(fs)[f] /\ i \in EntryIndex /\ fs[g].symbols[i] = h

Once(fs, first) ==
    \A e \in 1..Len(first), h \in Symbols : \A g, x, i, j :
        At(fs, first[e], h, g, i) /\ At(fs, first[e], h, x, j) => g = x /\ i = j

Tables(fs, first) ==
    Ordered(fs) /\ Heads(fs, first) /\ Compact(fs) /\ Owned(fs, first) /\ Once(fs, first)

LEMMA SymbolsValid == \A h \in Symbols : h # INVALID_HASH
BY SymbolsAssumption DEF SymbolsAssumption, INVALID_HASH

\* The variables of an environment are the symbols in its chain.
LEMMA Contents ==
    ASSUME NEW fs, NEW first, Tables(fs, first), NEW e \in 1..Len(first), NEW h \in Symbols
    PROVE  /\ \A g, i : At(fs, first[e], h, g, i) =>
                  /\ Located(fs, first[e], h) = <<g, i>>
                  /\ Located(fs, first[e], h) # EmptyPairStorage
                  /\ Valued(fs, first[e], h) = fs[g].objects[i]
                  /\ Valued(fs, first[e], h) \in Values \cup {EmptyPair, Function}
                  /\ Valued(fs, first[e], h) # Unbound
           /\ (\A g, i : ~ At(fs, first[e], h, g, i)) =>
                  /\ Located(fs, first[e], h) = EmptyPairStorage
                  /\ Valued(fs, first[e], h) = Unbound
<1> DEFINE l == Located(fs, first[e], h)
           v == Valued(fs, first[e], h)
<1>1. Ordered(fs) /\ Compact(fs) /\ Once(fs, first) /\ first[e] \in 0..Len(fs) /\ h # INVALID_HASH
  BY SymbolsValid DEF Tables, Heads
<1>2. \/ /\ l = EmptyPairStorage
         /\ \A g \in Members(fs)[first[e]], i \in EntryIndex : fs[g].symbols[i] # h
      \/ \E g \in Members(fs)[first[e]], i \in EntryIndex :
             l = <<g, i>> /\ fs[g].symbols[i] = h /\ l # EmptyPairStorage
  BY <1>1, LocatedFacts
<1>3. v = IF l = EmptyPairStorage THEN Unbound ELSE fs[l[1]].objects[l[2]]
  BY DEF Valued
<1> HIDE DEF l, v
<1>4. ASSUME NEW g, NEW i, At(fs, first[e], h, g, i)
      PROVE  /\ l = <<g, i>> /\ l # EmptyPairStorage
             /\ v = fs[g].objects[i]
             /\ v \in Values \cup {EmptyPair, Function} /\ v # Unbound
  <2>1. g \in Members(fs)[first[e]] /\ i \in EntryIndex /\ fs[g].symbols[i] = h
    BY <1>4 DEF At
  <2>2. PICK x \in Members(fs)[first[e]], j \in EntryIndex :
            l = <<x, j>> /\ fs[x].symbols[j] = h /\ l # EmptyPairStorage
    BY <1>2, <2>1
  <2>3. x = g /\ j = i
    <3>1. At(fs, first[e], h, x, j)
      BY <2>2 DEF At
    <3>2. At(fs, first[e], h, g, i)
      BY <1>4
    <3> QED BY <1>1, <3>1, <3>2 DEF Once
  <2>4. l = <<g, i>> /\ l # EmptyPairStorage
    BY <2>2, <2>3
  <2>5. v = fs[g].objects[i]
    BY <1>3, <2>4
  <2>6. g \in 1..Len(fs)
    BY <1>1, <2>1, MembersFacts
  <2>7. fs[g] \in Fragment
    BY <1>1, <2>6 DEF Ordered
  <2>8. v \in Values \cup {EmptyPair, Function}
    BY <2>1, <2>5, <2>7 DEF Fragment
  <2>9. v # Unbound
    BY <2>8, SymbolsAssumption DEF SymbolsAssumption, EmptyPair, Function
  <2> QED BY <2>4, <2>5, <2>8, <2>9
<1>5. ASSUME \A g, i : ~ At(fs, first[e], h, g, i)
      PROVE  l = EmptyPairStorage /\ v = Unbound
  BY <1>2, <1>3, <1>5 DEF At
<1> QED BY <1>4, <1>5 DEF l, v

\* Two tables, of which the second has the same variables in environment e as the
\* first has in d, but for the symbol h.
Keeps(fs, f, gs, g, k) ==
    \A x, i : /\ At(gs, g, k, x, i) <=> At(fs, f, k, x, i)
              /\ At(fs, f, k, x, i) => gs[x].objects[i] = fs[x].objects[i]

LEMMA ValueKept ==
    ASSUME NEW fs, NEW first, Tables(fs, first), NEW gs, NEW gfirst, Tables(gs, gfirst),
           NEW d \in 1..Len(first), NEW e \in 1..Len(gfirst), NEW k \in Symbols,
           Keeps(fs, first[d], gs, gfirst[e], k)
    PROVE  Valued(gs, gfirst[e], k) = Valued(fs, first[d], k)
<1> DEFINE v == Valued(fs, first[d], k)
           w == Valued(gs, gfirst[e], k)
<1>1. /\ \A x, i : At(fs, first[d], k, x, i) => v = fs[x].objects[i]
      /\ (\A x, i : ~ At(fs, first[d], k, x, i)) => v = Unbound
  BY Contents
<1>2. /\ \A x, i : At(gs, gfirst[e], k, x, i) => w = gs[x].objects[i]
      /\ (\A x, i : ~ At(gs, gfirst[e], k, x, i)) => w = Unbound
  BY Contents
<1> HIDE DEF v, w
<1>3. v = w
  BY <1>1, <1>2 DEF Keeps
<1> QED BY <1>3 DEF v, w

-----------------------------------------------------------------------------
(* A store to a variable.                                                  *)

Stored(fs, g, i, v) == [fs EXCEPT ![g].objects[i] = v]

LEMMA StoredFacts ==
    ASSUME NEW fs, Ordered(fs), NEW g \in 1..Len(fs), NEW i \in EntryIndex, NEW v \in Values
    PROVE  LET gs == Stored(fs, g, i, v)
           IN  /\ Ordered(gs) /\ Len(gs) = Len(fs)
               /\ \A f \in 1..Len(fs) : gs[f].next = fs[f].next /\ gs[f].symbols = fs[f].symbols
               /\ \A f \in 1..Len(fs), j \in EntryIndex :
                      gs[f].objects[j] = IF f = g /\ j = i THEN v ELSE fs[f].objects[j]
<1> DEFINE gs == Stored(fs, g, i, v)
           o == [fs[g].objects EXCEPT ![i] = v]
           r == [fs[g] EXCEPT !.objects = o]
<1>1. fs \in Seq(Fragment) /\ fs[g] \in Fragment
  BY DEF Ordered
<1>2. gs = [fs EXCEPT ![g] = r]
  BY DEF Stored
<1>3. /\ o \in [EntryIndex -> Values \cup {EmptyPair, Function}]
      /\ \A j \in EntryIndex : o[j] = IF j = i THEN v ELSE fs[g].objects[j]
  BY <1>1 DEF Fragment
<1> HIDE DEF o
<1>4. r \in Fragment /\ r.next = fs[g].next /\ r.symbols = fs[g].symbols /\ r.objects = o
  BY <1>1, <1>3 DEF Fragment
<1> HIDE DEF r, gs
<1>5. gs \in Seq(Fragment) /\ Len(gs) = Len(fs) /\ \A f \in 1..Len(fs) : gs[f] = IF f = g THEN r ELSE fs[f]
  <2> DEFINE X == Fragment
  <2>1. fs \in Seq(X) /\ r \in X
    BY <1>1, <1>4
  <2> HIDE DEF X
  <2>2. gs \in Seq(X) /\ Len(gs) = Len(fs) /\ \A f \in 1..Len(fs) : gs[f] = IF f = g THEN r ELSE fs[f]
    BY <1>2, <2>1
  <2> QED BY <2>2 DEF X
<1>6. \A f \in 1..Len(fs) : gs[f].next = fs[f].next /\ gs[f].symbols = fs[f].symbols
  BY <1>4, <1>5
<1>7. \A f \in 1..Len(fs), j \in EntryIndex :
          gs[f].objects[j] = IF f = g /\ j = i THEN v ELSE fs[f].objects[j]
  BY <1>3, <1>4, <1>5
<1>8. Ordered(gs)
  BY <1>5, <1>6 DEF Ordered
<1> QED BY <1>5, <1>6, <1>7, <1>8 DEF gs

LEMMA StoredTables ==
    ASSUME NEW fs, NEW first, Tables(fs, first), NEW e \in 1..Len(first), NEW h \in Symbols,
           NEW g, NEW i, At(fs, first[e], h, g, i), NEW v \in Values
    PROVE  LET gs == Stored(fs, g, i, v)
           IN  /\ Tables(gs, first)
               /\ \A d \in 1..Len(first), k \in Symbols :
                      Valued(gs, first[d], k) = IF d = e /\ k = h THEN v ELSE Valued(fs, first[d], k)
<1> DEFINE gs == Stored(fs, g, i, v)
<1>1. /\ Ordered(fs) /\ Heads(fs, first) /\ Compact(fs) /\ Owned(fs, first) /\ Once(fs, first)
      /\ g \in 1..Len(fs) /\ i \in EntryIndex /\ g \in Members(fs)[first[e]] /\ fs[g].symbols[i] = h
  BY MembersFacts DEF Tables, At, Heads
<1>2. /\ Ordered(gs) /\ Len(gs) = Len(fs)
      /\ \A f \in 1..Len(fs) : gs[f].next = fs[f].next /\ gs[f].symbols = fs[f].symbols
      /\ \A f \in 1..Len(fs), j \in EntryIndex :
             gs[f].objects[j] = IF f = g /\ j = i THEN v ELSE fs[f].objects[j]
  BY <1>1, StoredFacts
<1> HIDE DEF gs
<1>3. \A f \in 0..Len(fs) : Members(gs)[f] = Members(fs)[f] /\ Members(fs)[f] \subseteq 1..Len(fs)
  BY <1>1, <1>2, MembersSame, MembersFacts
<1>4. \A d \in 1..Len(first) : Members(gs)[first[d]] = Members(fs)[first[d]]
                               /\ Members(fs)[first[d]] \subseteq 1..Len(fs)
  BY <1>1, <1>3 DEF Heads
<1>5. \A d \in 1..Len(first) : \A k, x, j : At(gs, first[d], k, x, j) <=> At(fs, first[d], k, x, j)
  BY <1>2, <1>4 DEF At
<1>6. Heads(gs, first) /\ Owned(gs, first)
  BY <1>1, <1>2, <1>4 DEF Heads, Owned
<1>7. Compact(gs)
  <2> SUFFICES ASSUME NEW f \in 1..Len(fs), NEW j \in EntryIndex, gs[f].symbols[j] = INVALID_HASH
               PROVE  /\ gs[f].next = 0 /\ gs[f].objects[j] = EmptyPair
                      /\ \A k \in EntryIndex : j <= k => gs[f].symbols[k] = INVALID_HASH
    BY <1>2 DEF Compact
  <2>1. fs[f].symbols[j] = INVALID_HASH
    BY <1>2
  <2>2. ~ (f = g /\ j = i)
    BY <1>1, <2>1, SymbolsValid
  <2> QED BY <1>1, <1>2, <2>1, <2>2 DEF Compact
<1>8. Once(gs, first)
  <2> SUFFICES ASSUME NEW d \in 1..Len(first), NEW k \in Symbols, NEW x, NEW y, NEW a, NEW b,
                      At(gs, first[d], k, x, a), At(gs, first[d], k, y, b)
               PROVE  x = y /\ a = b
    BY Zenon DEF Once
  <2>1. At(fs, first[d], k, x, a) /\ At(fs, first[d], k, y, b)
    BY <1>5
  <2> QED BY <1>1, <2>1 DEF Once
<1>9. Tables(gs, first)
  BY <1>2, <1>6, <1>7, <1>8 DEF Tables
<1>10. ASSUME NEW d \in 1..Len(first), NEW k \in Symbols
       PROVE  Valued(gs, first[d], k) = IF d = e /\ k = h THEN v ELSE Valued(fs, first[d], k)
  <2>1. CASE d = e /\ k = h
    <3>1. At(gs, first[d], k, g, i) /\ gs[g].objects[i] = v
      BY <1>1, <1>2, <1>5, <2>1
    <3> QED BY <1>9, <2>1, <3>1, Contents
  <2>2. CASE ~ (d = e /\ k = h)
    <3>1. ASSUME NEW x, NEW j, At(fs, first[d], k, x, j) PROVE gs[x].objects[j] = fs[x].objects[j]
      <4>1. /\ x \in Members(fs)[first[d]] /\ x \in 1..Len(fs) /\ j \in EntryIndex
            /\ fs[x].symbols[j] = k
        BY <1>4, <3>1 DEF At
      <4>2. CASE x = g
        <5>1. d = e
          BY <1>1, <4>1, <4>2 DEF Owned
        <5>2. j # i
          BY <1>1, <2>2, <4>1, <4>2, <5>1
        <5> QED BY <1>2, <4>1, <5>2
      <4>3. CASE x # g
        BY <1>2, <4>1, <4>3
      <4> QED BY <4>2, <4>3
    <3>2. Keeps(fs, first[d], gs, first[d], k)
      BY <1>5, <3>1 DEF Keeps
    <3> QED BY <1>9, <2>2, <3>2, ValueKept
  <2> QED BY <2>1, <2>2
<1> QED BY <1>9, <1>10 DEF gs

-----------------------------------------------------------------------------
(* A new variable: a free entry is claimed, or a fragment added.           *)

\* The tables gs have the variables of fs, and one of symbol h at index i of g in environment e.
Adds(fs, first, gs, gfirst, e, h, g, i) ==
    /\ Ordered(gs) /\ Compact(gs) /\ Heads(gs, gfirst) /\ Owned(gs, gfirst)
    /\ Len(gfirst) = Len(first)
    /\ \A d \in 1..Len(first), k \in Symbols : \A x, j :
           At(gs, gfirst[d], k, x, j) <=>
               At(fs, first[d], k, x, j) \/ (d = e /\ k = h /\ x = g /\ j = i)
    /\ gs[g].objects[i] = EmptyPair
    /\ \A x \in 1..Len(fs) : gs[x].objects = fs[x].objects

LEMMA AddsTables ==
    ASSUME NEW fs, NEW first, Tables(fs, first), NEW e \in 1..Len(first), NEW h \in Symbols,
           \A x, j : ~ At(fs, first[e], h, x, j),
           NEW gs, NEW gfirst, NEW g, NEW i, Adds(fs, first, gs, gfirst, e, h, g, i)
    PROVE  /\ Tables(gs, gfirst) /\ At(gs, gfirst[e], h, g, i)
           /\ \A d \in 1..Len(first), k \in Symbols :
                  Valued(gs, gfirst[d], k) = IF d = e /\ k = h THEN EmptyPair ELSE Valued(fs, first[d], k)
<1>1. /\ Ordered(gs) /\ Compact(gs) /\ Heads(gs, gfirst) /\ Owned(gs, gfirst)
      /\ Len(gfirst) = Len(first)
      /\ gs[g].objects[i] = EmptyPair
      /\ \A x \in 1..Len(fs) : gs[x].objects = fs[x].objects
  BY DEF Adds
<1>2. \A d \in 1..Len(first), k \in Symbols : \A x, j :
           At(gs, gfirst[d], k, x, j) <=>
               At(fs, first[d], k, x, j) \/ (d = e /\ k = h /\ x = g /\ j = i)
  BY Zenon DEF Adds
<1>3. Once(gs, gfirst)
  <2> SUFFICES ASSUME NEW d \in 1..Len(first), NEW k \in Symbols, NEW x, NEW y, NEW a, NEW b,
                      At(gs, gfirst[d], k, x, a), At(gs, gfirst[d], k, y, b)
               PROVE  x = y /\ a = b
    BY <1>1, Zenon DEF Once
  <2>1. /\ At(fs, first[d], k, x, a) \/ (d = e /\ k = h /\ x = g /\ a = i)
        /\ At(fs, first[d], k, y, b) \/ (d = e /\ k = h /\ y = g /\ b = i)
    BY <1>2
  <2>2. At(fs, first[d], k, x, a) /\ At(fs, first[d], k, y, b) => x = y /\ a = b
    BY DEF Tables, Once
  <2> QED BY <2>1, <2>2
<1>4. Tables(gs, gfirst)
  BY <1>1, <1>3 DEF Tables
<1>5. At(gs, gfirst[e], h, g, i)
  BY <1>2
<1>6. ASSUME NEW d \in 1..Len(first), NEW k \in Symbols
      PROVE  Valued(gs, gfirst[d], k) = IF d = e /\ k = h THEN EmptyPair ELSE Valued(fs, first[d], k)
  <2>d. d \in 1..Len(gfirst)
    BY <1>1
  <2>1. CASE d = e /\ k = h
    BY <1>1, <1>4, <1>5, <2>1, <2>d, Contents
  <2>2. CASE ~ (d = e /\ k = h)
    <3>1. \A x, j : At(gs, gfirst[d], k, x, j) <=> At(fs, first[d], k, x, j)
      BY <1>2, <2>2
    <3>2. \A x, j : At(fs, first[d], k, x, j) => gs[x].objects[j] = fs[x].objects[j]
      <4>1. \A x, j : At(fs, first[d], k, x, j) => x \in 1..Len(fs)
        BY MembersFacts DEF At, Tables, Heads
      <4> QED BY <1>1, <4>1
    <3>3. Keeps(fs, first[d], gs, gfirst[d], k)
      BY <3>1, <3>2 DEF Keeps
    <3> QED BY <1>4, <2>2, <2>d, <3>3, ValueKept
  <2> QED BY <2>1, <2>2
<1> QED BY <1>4, <1>5, <1>6

Claimed(fs, g, i, h) == [fs EXCEPT ![g].symbols[i] = h]

\* The tables gs are fs with symbol h in entry i of fragment g.
ClaimedIn(fs, gs, g, i, h) ==
    /\ Ordered(gs) /\ Len(gs) = Len(fs)
    /\ \A f \in 1..Len(fs) : gs[f].next = fs[f].next /\ gs[f].objects = fs[f].objects
    /\ \A f \in 1..Len(fs), j \in EntryIndex :
           gs[f].symbols[j] = IF f = g /\ j = i THEN h ELSE fs[f].symbols[j]

LEMMA ClaimedFacts ==
    ASSUME NEW fs, Ordered(fs), NEW g \in 1..Len(fs), NEW i \in EntryIndex, NEW h \in Symbols
    PROVE  ClaimedIn(fs, Claimed(fs, g, i, h), g, i, h)
<1> DEFINE gs == Claimed(fs, g, i, h)
           o == [fs[g].symbols EXCEPT ![i] = h]
           r == [fs[g] EXCEPT !.symbols = o]
<1>1. fs \in Seq(Fragment) /\ fs[g] \in Fragment
  BY DEF Ordered
<1>2. gs = [fs EXCEPT ![g] = r]
  BY DEF Claimed
<1>3. /\ o \in [EntryIndex -> Symbols \cup {INVALID_HASH}]
      /\ \A j \in EntryIndex : o[j] = IF j = i THEN h ELSE fs[g].symbols[j]
  BY <1>1 DEF Fragment
<1> HIDE DEF o
<1>4. r \in Fragment /\ r.next = fs[g].next /\ r.objects = fs[g].objects /\ r.symbols = o
  BY <1>1, <1>3 DEF Fragment
<1> HIDE DEF r, gs
<1>5. gs \in Seq(Fragment) /\ Len(gs) = Len(fs) /\ \A f \in 1..Len(fs) : gs[f] = IF f = g THEN r ELSE fs[f]
  <2> DEFINE X == Fragment
  <2>1. fs \in Seq(X) /\ r \in X
    BY <1>1, <1>4
  <2> HIDE DEF X
  <2>2. gs \in Seq(X) /\ Len(gs) = Len(fs) /\ \A f \in 1..Len(fs) : gs[f] = IF f = g THEN r ELSE fs[f]
    BY <1>2, <2>1
  <2> QED BY <2>2 DEF X
<1>6. \A f \in 1..Len(fs) : gs[f].next = fs[f].next /\ gs[f].objects = fs[f].objects
  BY <1>4, <1>5
<1>7. \A f \in 1..Len(fs), j \in EntryIndex :
          gs[f].symbols[j] = IF f = g /\ j = i THEN h ELSE fs[f].symbols[j]
  BY <1>3, <1>4, <1>5
<1>8. Ordered(gs)
  BY <1>5, <1>6 DEF Ordered
<1> QED BY <1>5, <1>6, <1>7, <1>8 DEF gs, ClaimedIn

\* bind takes the first entry that is free.
LEMMA ClaimAdds ==
    ASSUME NEW fs, NEW first, Tables(fs, first), NEW e \in 1..Len(first), NEW h \in Symbols,
           NEW g \in Members(fs)[first[e]], NEW i \in EntryIndex, fs[g].symbols[i] = INVALID_HASH,
           \A j \in EntryIndex : fs[g].symbols[j] = INVALID_HASH => i <= j
    PROVE  Adds(fs, first, Claimed(fs, g, i, h), first, e, h, g, i)
<1> DEFINE gs == Claimed(fs, g, i, h)
<1>1. /\ Ordered(fs) /\ Heads(fs, first) /\ Compact(fs) /\ Owned(fs, first)
      /\ g \in 1..Len(fs)
  <2>1. Ordered(fs) /\ Heads(fs, first) /\ Compact(fs) /\ Owned(fs, first)
    BY Zenon DEF Tables
  <2>2. first[e] \in 0..Len(fs)
    BY <2>1 DEF Heads
  <2>3. Members(fs)[first[e]] \subseteq 1..Len(fs)
    BY <2>1, <2>2, MembersFacts
  <2> QED BY <2>1, <2>3
<1>2. /\ Ordered(gs) /\ Len(gs) = Len(fs)
      /\ \A f \in 1..Len(fs) : gs[f].next = fs[f].next /\ gs[f].objects = fs[f].objects
      /\ \A f \in 1..Len(fs), j \in EntryIndex :
             gs[f].symbols[j] = IF f = g /\ j = i THEN h ELSE fs[f].symbols[j]
  <2>1. ClaimedIn(fs, gs, g, i, h)
    BY <1>1, ClaimedFacts
  <2> HIDE DEF gs
  <2> QED BY ONLY <2>1 DEF ClaimedIn
<1> HIDE DEF gs
<1>3. \A f \in 0..Len(fs) : Members(gs)[f] = Members(fs)[f] /\ Members(fs)[f] \subseteq 1..Len(fs)
  <2>1. \A f \in 0..Len(fs) : Members(gs)[f] = Members(fs)[f]
    BY <1>1, <1>2, MembersSame
  <2>2. \A f \in 0..Len(fs) : Members(fs)[f] \subseteq 1..Len(fs)
    BY <1>1, MembersFacts
  <2> QED BY <2>1, <2>2
<1>4. \A d \in 1..Len(first) : Members(gs)[first[d]] = Members(fs)[first[d]]
                               /\ Members(fs)[first[d]] \subseteq 1..Len(fs)
  BY <1>1, <1>3 DEF Heads
<1>5. Heads(gs, first) /\ Owned(gs, first)
  BY <1>1, <1>2, <1>4 DEF Heads, Owned
<1>6. Compact(gs)
  <2> SUFFICES ASSUME NEW f \in 1..Len(fs), NEW j \in EntryIndex, gs[f].symbols[j] = INVALID_HASH
               PROVE  /\ gs[f].next = 0 /\ gs[f].objects[j] = EmptyPair
                      /\ \A k \in EntryIndex : j <= k => gs[f].symbols[k] = INVALID_HASH
    BY <1>2 DEF Compact
  <2>1. ~ (f = g /\ j = i) /\ fs[f].symbols[j] = INVALID_HASH
    BY <1>2, SymbolsValid
  <2>2. /\ fs[f].next = 0 /\ fs[f].objects[j] = EmptyPair
        /\ \A k \in EntryIndex : j <= k => fs[f].symbols[k] = INVALID_HASH
    BY <1>1, <2>1 DEF Compact
  <2>3. ASSUME NEW k \in EntryIndex, j <= k PROVE gs[f].symbols[k] = INVALID_HASH
    <3>1. ~ (f = g /\ k = i)
      <4>1. f = g => i <= j
        BY <2>1
      <4>2. i \in Nat /\ j \in Nat /\ k \in Nat
        BY Indices
      <4> QED BY <2>1, <2>3, <4>1, <4>2
    <3> QED BY <1>2, <2>2, <2>3, <3>1
  <2> QED BY <1>2, <2>2, <2>3
<1>7. ASSUME NEW d \in 1..Len(first), NEW k \in Symbols, NEW x, NEW j
      PROVE  At(gs, first[d], k, x, j) <=>
                 At(fs, first[d], k, x, j) \/ (d = e /\ k = h /\ x = g /\ j = i)
  <2>1. CASE x \in Members(fs)[first[d]] /\ j \in EntryIndex
    <3>1. x \in 1..Len(fs) /\ gs[x].symbols[j] = IF x = g /\ j = i THEN h ELSE fs[x].symbols[j]
      BY <1>2, <1>4, <2>1
    <3>2. x = g => d = e
      BY <1>1, <2>1 DEF Owned
    <3> QED BY <1>4, <2>1, <3>1, <3>2, SymbolsValid DEF At
  <2>2. CASE ~ (x \in Members(fs)[first[d]] /\ j \in EntryIndex)
    BY <1>4, <2>2 DEF At
  <2> QED BY <2>1, <2>2
<1>8. gs[g].objects[i] = EmptyPair
  BY <1>1, <1>2 DEF Compact
<1> QED BY <1>2, <1>5, <1>6, <1>7, <1>8 DEF Adds, gs

LEMMA ExceptFacts ==
    ASSUME NEW X, NEW s \in Seq(X), NEW i \in 1..Len(s), NEW x \in X, NEW t, t = [s EXCEPT ![i] = x]
    PROVE  t \in Seq(X) /\ Len(t) = Len(s) /\ \A j \in 1..Len(s) : t[j] = IF j = i THEN x ELSE s[j]
OBVIOUS

LEMMA AppendFacts ==
    ASSUME NEW X, NEW s \in Seq(X), NEW x \in X, NEW t, t = Append(s, x)
    PROVE  /\ t \in Seq(X) /\ Len(t) = Len(s) + 1 /\ t[Len(s) + 1] = x
           /\ \A j \in 1..Len(s) : t[j] = s[j]
OBVIOUS

Grown(fs, z, h) == Append(IF z = 0 THEN fs ELSE [fs EXCEPT ![z].next = Len(fs) + 1], NewFragment(h))

LEMMA GrownFacts ==
    ASSUME NEW fs, Ordered(fs), NEW z \in 0..Len(fs), z # 0 => fs[z].next = 0, NEW h \in Symbols
    PROVE  LET gs == Grown(fs, z, h)
               n == Len(fs) + 1
           IN  /\ Ordered(gs) /\ Extends(fs, gs, z)
               /\ \A f \in 1..Len(fs) : gs[f].symbols = fs[f].symbols /\ gs[f].objects = fs[f].objects
               /\ \A j \in EntryIndex : /\ gs[n].symbols[j] = IF j = 0 THEN h ELSE INVALID_HASH
                                        /\ gs[n].objects[j] = EmptyPair
<1> DEFINE X == Fragment
           L == Len(fs)
           n == L + 1
           r == [fs[z] EXCEPT !.next = n]
           ls == IF z = 0 THEN fs ELSE [fs EXCEPT ![z] = r]
           w == NewFragment(h)
           gs == Grown(fs, z, h)
<1>1. fs \in Seq(X) /\ L \in Nat /\ n \in Nat /\ \A f \in 1..L : fs[f].next = 0 \/ fs[f].next \in f + 1..L
  BY DEF Ordered
<1>2. gs = Append(ls, w)
  BY DEF Grown
<1>3. w \in X /\ w.next = 0 /\ \A j \in EntryIndex :
          w.symbols[j] = (IF j = 0 THEN h ELSE INVALID_HASH) /\ w.objects[j] = EmptyPair
  BY DEF NewFragment, Fragment, NoFragment
<1>4. z # 0 => r \in X /\ r.next = n /\ r.symbols = fs[z].symbols /\ r.objects = fs[z].objects
  <2> SUFFICES ASSUME z # 0
               PROVE  r \in X /\ r.next = n /\ r.symbols = fs[z].symbols /\ r.objects = fs[z].objects
    OBVIOUS
  <2>1. fs[z] \in Fragment
    BY <1>1
  <2> HIDE DEF n
  <2> QED BY <1>1, <2>1 DEF Fragment
<1> HIDE DEF r, w, gs, X
<1>5. /\ ls \in Seq(X) /\ Len(ls) = L
      /\ \A f \in 1..L : ls[f] = IF z # 0 /\ f = z THEN r ELSE fs[f]
  <2>1. CASE z = 0
    BY <1>1, <2>1
  <2>2. CASE z # 0
    <3>1. ls = [fs EXCEPT ![z] = r] /\ z \in 1..L
      BY <1>1, <2>2
    <3>2. r \in X
      BY <1>4, <2>2
    <3> HIDE DEF ls
    <3>3. ls \in Seq(X) /\ Len(ls) = Len(fs) /\ \A f \in 1..Len(fs) : ls[f] = IF f = z THEN r ELSE fs[f]
      BY <1>1, <3>1, <3>2, ExceptFacts
    <3> QED BY <2>2, <3>3
  <2> QED BY <2>1, <2>2
<1> HIDE DEF ls
<1>6. /\ gs \in Seq(X) /\ Len(gs) = n /\ gs[n] = w
      /\ \A f \in 1..L : gs[f] = IF z # 0 /\ f = z THEN r ELSE fs[f]
  <2>1. /\ gs \in Seq(X) /\ Len(gs) = Len(ls) + 1 /\ gs[Len(ls) + 1] = w
        /\ \A f \in 1..Len(ls) : gs[f] = ls[f]
    BY <1>2, <1>3, <1>5, AppendFacts
  <2> HIDE DEF L
  <2> QED BY <1>5, <2>1
<1>7. \A f \in 1..L : /\ gs[f].symbols = fs[f].symbols /\ gs[f].objects = fs[f].objects
                      /\ gs[f].next = IF f = z THEN n ELSE fs[f].next
  BY <1>1, <1>4, <1>6
<1>8. Extends(fs, gs, z)
  BY <1>1, <1>3, <1>6, <1>7 DEF Extends
<1>9. Ordered(gs)
  <2>1. ASSUME NEW f \in 1..n PROVE gs[f].next = 0 \/ gs[f].next \in f + 1..n
    <3>1. CASE f = n
      BY <1>3, <1>6, <3>1
    <3>2. CASE f \in 1..L
      <4>1. gs[f].next = n \/ gs[f].next = fs[f].next
        BY <1>7, <3>2
      <4>2. n \in f + 1..n /\ f + 1..L \subseteq f + 1..n
        BY <1>1, <3>2
      <4> QED BY <1>1, <3>2, <4>1, <4>2
    <3> QED BY <1>1, <3>1, <3>2
  <2> QED BY <1>6, <2>1 DEF Ordered, X
<1>10. \A j \in EntryIndex : /\ gs[n].symbols[j] = IF j = 0 THEN h ELSE INVALID_HASH
                             /\ gs[n].objects[j] = EmptyPair
  BY <1>3, <1>6
<1> QED BY <1>7, <1>8, <1>9, <1>10 DEF gs

\* append_symbol_table_fragment, in an environment without room.
LEMMA GrowAdds ==
    ASSUME NEW fs, NEW first, Tables(fs, first), NEW e \in 1..Len(first), NEW h \in Symbols,
           \A g \in Members(fs)[first[e]], i \in EntryIndex : fs[g].symbols[i] # INVALID_HASH,
           NEW z, NEW gfirst,
           \/ first[e] = 0 /\ z = 0 /\ gfirst = [first EXCEPT ![e] = Len(fs) + 1]
           \/ z \in Members(fs)[first[e]] /\ fs[z].next = 0 /\ gfirst = first
    PROVE  Adds(fs, first, Grown(fs, z, h), gfirst, e, h, Len(fs) + 1, 0)
<1> DEFINE gs == Grown(fs, z, h)
           L == Len(fs)
           n == L + 1
<1>1. Ordered(fs) /\ Heads(fs, first) /\ Compact(fs) /\ Owned(fs, first) /\ L \in Nat
  BY NextFacts DEF Tables
<1>2. /\ \A f \in 0..L : Members(fs)[f] \subseteq 1..L
      /\ Members(fs)[0] = {}
  BY <1>1, MembersFacts
<1>3. z \in 0..L /\ (z # 0 => fs[z].next = 0)
  BY <1>1, <1>2 DEF Heads
<1>4. /\ Ordered(gs) /\ Extends(fs, gs, z)
      /\ \A f \in 1..L : gs[f].symbols = fs[f].symbols /\ gs[f].objects = fs[f].objects
      /\ \A j \in EntryIndex : /\ gs[n].symbols[j] = IF j = 0 THEN h ELSE INVALID_HASH
                               /\ gs[n].objects[j] = EmptyPair
  BY <1>1, <1>3, GrownFacts
<1> HIDE DEF gs
<1>5. /\ Members(gs)[n] = {n}
      /\ \A f \in 0..L : Members(gs)[f] = Members(fs)[f] \cup (IF z \in Members(fs)[f] THEN {n} ELSE {})
  BY <1>1, <1>3, <1>4, MembersMore
<1>6. /\ Len(gs) = n /\ gs[n].next = 0
      /\ \A f \in 1..L : gs[f].next = IF f = z THEN n ELSE fs[f].next
  BY <1>4 DEF Extends
<1>7. /\ gfirst \in Seq(Nat) /\ Len(gfirst) = Len(first)
      /\ \A d \in 1..Len(first) :
             /\ first[d] \in 0..L /\ gfirst[d] \in 0..n
             /\ Members(gs)[gfirst[d]] = Members(fs)[first[d]] \cup (IF d = e THEN {n} ELSE {})
  <2>1. CASE first[e] = 0 /\ z = 0 /\ gfirst = [first EXCEPT ![e] = n]
    <3>1. /\ gfirst \in Seq(Nat) /\ Len(gfirst) = Len(first)
          /\ \A d \in 1..Len(first) : gfirst[d] = IF d = e THEN n ELSE first[d]
      <4> HIDE DEF n
      <4>1. n \in Nat
        BY <1>1 DEF n
      <4> QED BY <1>1, <2>1, <4>1 DEF Heads
    <3>2. \A d \in 1..Len(first) : first[d] \in 0..L /\ first[d] \in 0..n
      BY <1>1 DEF Heads
    <3>3. \A f \in 0..L : 0 \notin Members(fs)[f]
      BY <1>2
    <3>4. ASSUME NEW d \in 1..Len(first)
          PROVE  /\ gfirst[d] \in 0..n
                 /\ Members(gs)[gfirst[d]] = Members(fs)[first[d]] \cup (IF d = e THEN {n} ELSE {})
      <4>1. CASE d = e
        BY <1>1, <1>2, <1>5, <2>1, <3>1, <4>1
      <4>2. CASE d # e
        <5>1. gfirst[d] = first[d] /\ first[d] \in 0..L
          BY <3>1, <3>2, <4>2
        <5>2. Members(gs)[first[d]] = Members(fs)[first[d]] \cup {}
          BY <1>5, <2>1, <3>3, <5>1
        <5> QED BY <3>2, <4>2, <5>1, <5>2
      <4> QED BY <4>1, <4>2
    <3> QED BY <3>1, <3>2, <3>4
  <2>2. CASE z \in Members(fs)[first[e]] /\ fs[z].next = 0 /\ gfirst = first
    <3>1. \A d \in 1..Len(first) : first[d] \in 0..L /\ first[d] \in 0..n
      BY <1>1 DEF Heads
    <3>2. \A d \in 1..Len(first) : z \in Members(fs)[first[d]] <=> d = e
      <4>1. z \in 1..L
        BY <1>2, <2>2, <3>1
      <4> QED BY <1>1, <2>2, <4>1 DEF Owned
    <3>3. first \in Seq(Nat)
      BY <1>1 DEF Heads
    <3> HIDE DEF n, L
    <3> QED BY <1>5, <2>2, <3>1, <3>2, <3>3
  <2> QED BY <2>1, <2>2
<1>8. \A d \in 1..Len(first) : Members(fs)[first[d]] \subseteq 1..L /\ n \notin Members(fs)[first[d]]
  BY <1>1, <1>2, <1>7
<1>9. Heads(gs, gfirst)
  BY <1>6, <1>7 DEF Heads
<1>10. Owned(gs, gfirst)
  <2>1. ASSUME NEW f \in 1..n PROVE \E d \in 1..Len(first) : f \in Members(gs)[gfirst[d]]
    <3>1. CASE f = n
      BY <1>7, <3>1
    <3>2. CASE f \in 1..L
      BY <1>1, <1>7, <3>2 DEF Owned
    <3> QED BY <1>1, <3>1, <3>2
  <2>2. ASSUME NEW c \in 1..Len(first), NEW d \in 1..Len(first), c # d, NEW f \in 1..n
        PROVE  ~ (f \in Members(gs)[gfirst[c]] /\ f \in Members(gs)[gfirst[d]])
    <3>1. CASE f = n
      BY <1>7, <1>8, <2>2, <3>1
    <3>2. CASE f # n
      <4>1. f \in 1..L
        BY <1>1, <3>2
      <4>2. ~ (f \in Members(fs)[first[c]] /\ f \in Members(fs)[first[d]])
        BY <1>1, <2>2, <4>1 DEF Owned
      <4> QED BY <1>7, <3>2, <4>2
    <3> QED BY <3>1, <3>2
  <2> HIDE DEF n, L
  <2>3. Len(gs) = n /\ Len(gfirst) = Len(first)
    BY <1>6, <1>7
  <2> HIDE DEF gs
  <2> QED BY ONLY <2>1, <2>2, <2>3 DEF Owned
<1>11. Compact(gs)
  <2> SUFFICES ASSUME NEW f \in 1..n, NEW j \in EntryIndex, gs[f].symbols[j] = INVALID_HASH
               PROVE  /\ gs[f].next = 0 /\ gs[f].objects[j] = EmptyPair
                      /\ \A k \in EntryIndex : j <= k => gs[f].symbols[k] = INVALID_HASH
    BY <1>6 DEF Compact
  <2>1. CASE f = n
    <3>1. j # 0
      BY <1>4, <2>1, SymbolsValid
    <3>2. \A k \in EntryIndex : j <= k => k # 0
      BY <3>1, Indices
    <3> QED BY <1>4, <1>6, <2>1, <3>2
  <2>2. CASE f # n
    <3>1. f \in 1..L
      BY <1>1, <2>2
    <3>2. fs[f].symbols[j] = INVALID_HASH
      BY <1>4, <3>1
    <3>3. f # z
      <4>1. z = 0 \/ z \in Members(fs)[first[e]]
        OBVIOUS
      <4> QED BY <3>1, <3>2, <4>1
    <3> QED BY <1>1, <1>4, <1>6, <3>1, <3>2, <3>3 DEF Compact
  <2> QED BY <2>1, <2>2
<1>12. ASSUME NEW d \in 1..Len(first), NEW k \in Symbols, NEW x, NEW j
       PROVE  At(gs, gfirst[d], k, x, j) <=>
                  At(fs, first[d], k, x, j) \/ (d = e /\ k = h /\ x = n /\ j = 0)
  <2>1. CASE x = n
    <3>1. ~ At(fs, first[d], k, x, j)
      BY <1>8, <2>1 DEF At
    <3>2. At(gs, gfirst[d], k, x, j) <=> (d = e /\ j \in EntryIndex /\ gs[n].symbols[j] = k)
      BY <1>7, <1>8, <2>1 DEF At
    <3>3. j \in EntryIndex => (gs[n].symbols[j] = k <=> j = 0 /\ k = h)
      BY <1>4, SymbolsValid
    <3> QED BY <2>1, <3>1, <3>2, <3>3, Indices
  <2>2. CASE x # n
    <3>1. x \in Members(gs)[gfirst[d]] <=> x \in Members(fs)[first[d]]
      BY <1>7, <2>2
    <3>2. x \in Members(fs)[first[d]] => gs[x].symbols = fs[x].symbols
      BY <1>4, <1>8
    <3> QED BY <2>2, <3>1, <3>2 DEF At
  <2> QED BY <2>1, <2>2
<1>13. gs[n].objects[0] = EmptyPair
  BY <1>4, Indices
<1> HIDE DEF n
<1> QED BY <1>4, <1>7, <1>9, <1>10, <1>11, <1>12, <1>13 DEF Adds, gs, n

-----------------------------------------------------------------------------
(* bind.                                                                   *)

Bound(b, e, h) ==
    /\ Tables(b.fragments, b.first) /\ Len(b.first) = Len(firstFragment)
    /\ At(b.fragments, b.first[e], h, b.location[1], b.location[2])
    /\ \A d \in 1..Len(firstFragment), k \in Symbols :
           Valued(b.fragments, b.first[d], k) =
               IF d = e /\ k = h /\ Valued(fragments, firstFragment[d], k) = Unbound
               THEN EmptyPair ELSE Valued(fragments, firstFragment[d], k)

LEMMA BindFacts ==
    ASSUME Tables(fragments, firstFragment), NEW e \in 1..Len(firstFragment), NEW h \in Symbols
    PROVE  Bound(Bind(e, h), e, h)
<1> DEFINE f == firstFragment[e]
           there == LocationIn(e, h)
           free == FirstFree(e)
           b == Bind(e, h)
<1>1. /\ Ordered(fragments) /\ f \in 0..Len(fragments)
      /\ \A x \in 0..Len(fragments) : Members(fragments)[x] \subseteq 1..Len(fragments)
  BY MembersFacts DEF Tables, Heads
<1>2. there = Located(fragments, f, h) /\ free = FirstFreeOf(fragments, f)
  BY ModelSearches
<1>3. b = IF there # EmptyPairStorage
          THEN [first |-> firstFragment, fragments |-> fragments, location |-> there]
          ELSE IF free = EmptyPairStorage THEN WithFragment(e, h)
          ELSE [first |-> firstFragment, location |-> free,
                fragments |-> [fragments EXCEPT ![free[1]].symbols[free[2]] = h]]
  BY DEF Bind
<1> HIDE DEF there, free, b
<1>4. CASE there # EmptyPairStorage
  <2>1. b.first = firstFragment /\ b.fragments = fragments /\ b.location = there
    BY <1>3, <1>4
  <2>2. PICK g, i : At(fragments, f, h, g, i)
    BY <1>2, <1>4, Contents
  <2>3. there = <<g, i>> /\ Valued(fragments, f, h) # Unbound
    BY <1>2, <2>2, Contents
  <2>4. At(b.fragments, b.first[e], h, b.location[1], b.location[2])
    BY <2>1, <2>2, <2>3
  <2> QED BY <2>1, <2>3, <2>4 DEF Bound, b
<1>5. CASE there = EmptyPairStorage
  <2>1. \A x, j : ~ At(fragments, f, h, x, j)
    BY <1>2, <1>5, Contents
  <2>2. Valued(fragments, f, h) = Unbound
    BY <2>1, Contents
  <2>3. ASSUME NEW g, NEW i, b.location = <<g, i>>,
               Adds(fragments, firstFragment, b.fragments, b.first, e, h, g, i)
        PROVE  Bound(b, e, h)
    <3>1. /\ Tables(b.fragments, b.first) /\ At(b.fragments, b.first[e], h, g, i)
          /\ \A d \in 1..Len(firstFragment), k \in Symbols :
                 Valued(b.fragments, b.first[d], k) =
                     IF d = e /\ k = h THEN EmptyPair ELSE Valued(fragments, firstFragment[d], k)
      BY <2>1, <2>3, AddsTables
    <3>2. Len(b.first) = Len(firstFragment)
      BY <2>3 DEF Adds
    <3>3. At(b.fragments, b.first[e], h, b.location[1], b.location[2])
      BY <2>3, <3>1
    <3> QED BY <2>2, <3>1, <3>2, <3>3 DEF Bound
  <2>4. CASE free # EmptyPairStorage
    <3>1. PICK g \in Members(fragments)[f], i \in EntryIndex :
              /\ free = <<g, i>> /\ fragments[g].symbols[i] = INVALID_HASH
              /\ \A j \in EntryIndex : fragments[g].symbols[j] = INVALID_HASH => i <= j
      BY <1>1, <1>2, <2>4, FirstFreeFacts
    <3>2. b.first = firstFragment /\ b.location = free
          /\ b.fragments = [fragments EXCEPT ![free[1]].symbols[free[2]] = h]
      BY <1>3, <1>5, <2>4
    <3>3. b.fragments = Claimed(fragments, g, i, h)
      BY <3>1, <3>2 DEF Claimed
    <3>4. Adds(fragments, firstFragment, Claimed(fragments, g, i, h), firstFragment, e, h, g, i)
      BY <3>1, ClaimAdds
    <3> QED BY <2>3, <3>1, <3>2, <3>3, <3>4 DEF b
  <2>5. CASE free = EmptyPairStorage
    <3> DEFINE n == Len(fragments) + 1
               c == Chain(e)
               z == IF c = << >> THEN 0 ELSE LastFragment(e)
    <3>1. \A g \in Members(fragments)[f], i \in EntryIndex : fragments[g].symbols[i] # INVALID_HASH
      <4>1. ~ \E g \in Members(fragments)[f], i \in EntryIndex : FirstFreeOf(fragments, f) # EmptyPairStorage
        BY <1>2, <2>5
      <4> QED BY <1>1, <4>1, FirstFreeFacts
    <3>2. b = WithFragment(e, h)
      BY <1>3, <1>5, <2>5
    <3>3. /\ b.location = <<n, 0>>
          /\ b.first = IF c = << >> THEN [firstFragment EXCEPT ![e] = n] ELSE firstFragment
          /\ b.fragments = Append(IF c = << >> THEN fragments
                                  ELSE [fragments EXCEPT ![LastFragment(e)].next = n], NewFragment(h))
      <4> HIDE DEF c, NewFragment
      <4> QED BY <3>2 DEF WithFragment, c
    <3>4. c \in Seq(1..Len(fragments)) /\ ChainOver(fragments, f, c)
      <4>1. c = Chains(fragments)[f]
        BY ModelSearches
      <4> DEFINE W == Seq(1..Len(fragments))
      <4>2. Chains(fragments)[f] \in W
        <5>1. Chains(fragments) \in [0..Len(fragments) -> W]
          BY <1>1, ChainsFacts
        <5> HIDE DEF W
        <5> QED BY <1>1, <5>1
      <4> HIDE DEF c
      <4> QED BY <1>1, <4>1, <4>2, ChainMembers
    <3>5. CASE c = << >>
      <4>1. f = 0
        BY <3>4, <3>5 DEF ChainOver
      <4>2. b.first = [firstFragment EXCEPT ![e] = n] /\ b.fragments = Grown(fragments, 0, h)
        BY <3>3, <3>5 DEF Grown
      <4>3. Adds(fragments, firstFragment, Grown(fragments, 0, h), [firstFragment EXCEPT ![e] = n], e, h, n, 0)
        BY <3>1, <4>1, GrowAdds
      <4> QED BY <2>3, <3>3, <4>2, <4>3 DEF b
    <3>6. CASE c # << >>
      <4> DEFINE y == LastFragment(e)
      <4>1. y = c[Len(c)] /\ Len(c) \in 1..Len(c)
        BY <3>4, <3>6 DEF LastFragment
      <4>2. y \in Members(fragments)[f] /\ fragments[y].next = 0
        <5> HIDE DEF y, c
        <5> QED BY <3>4, <4>1 DEF ChainOver
      <4>3. y # 0
        BY <1>1, <4>2
      <4>4. b.first = firstFragment /\ b.fragments = Grown(fragments, y, h)
        <5> HIDE DEF y, c
        <5> QED BY <3>3, <3>6, <4>3 DEF Grown, y
      <4> HIDE DEF y
      <4>5. Adds(fragments, firstFragment, Grown(fragments, y, h), firstFragment, e, h, n, 0)
        BY <3>1, <4>2, GrowAdds
      <4> QED BY <2>3, <3>3, <4>4, <4>5 DEF b
    <3> QED BY <3>5, <3>6
  <2> QED BY <2>4, <2>5
<1> QED BY <1>4, <1>5 DEF b

-----------------------------------------------------------------------------
(* Environments in environments.                                           *)

Nested == parent \in Seq(Nat) /\ \A x \in 1..Len(parent) : parent[x] < x

StateInv ==
    /\ Nested /\ Len(parent) = Len(firstFragment) /\ 1 <= Len(parent)
    /\ Tables(fragments, firstFragment)

ParentRank == [x \in 0..Len(parent) |-> x]

LEMMA ParentLinks ==
    ASSUME Nested
    PROVE  /\ Len(parent) \in Nat /\ DOMAIN parent = 1..Len(parent)
           /\ \A x \in 1..Len(parent) : parent[x] \in 0..Len(parent) /\ parent[x] # x
           /\ LinksDown(parent, Len(parent), ParentRank)
<1>1. Len(parent) \in Nat /\ DOMAIN parent = 1..Len(parent)
  BY DEF Nested
<1>2. ASSUME NEW x \in 1..Len(parent) PROVE parent[x] \in 0..Len(parent) /\ parent[x] < x
  BY <1>1 DEF Nested
<1>3. \A x \in 0..Len(parent) : ParentRank[x] = x
  BY DEF ParentRank
<1> HIDE DEF ParentRank
<1>4. LinksDown(parent, Len(parent), ParentRank)
  BY <1>1, <1>2, <1>3 DEF LinksDown
<1> QED BY <1>1, <1>2, <1>4

\* What the environments hold, as Scopes sees it.
Variables == [e \in DOMAIN parent |-> [h \in Symbols |-> ValueOf(e, h)]]

BoundBody(h, b, x) ==
    IF x = 0 THEN EmptyPairStorage
    ELSE IF LocationIn(x, h) # EmptyPairStorage THEN LocationIn(x, h) ELSE b[parent[x]]

Bounds(h) == CHOOSE b : b = [x \in 0..Len(parent) |-> BoundBody(h, b, x)]

InnerBody(h, b, x) == IF x = 0 THEN 0 ELSE IF Variables[x][h] # Unbound THEN x ELSE b[parent[x]]

Inner(h) == CHOOSE b : b = [x \in 0..Len(parent) |-> InnerBody(h, b, x)]

LEMMA BoundsFacts ==
    ASSUME Nested, NEW h
    PROVE  Bounds(h)[0] = EmptyPairStorage /\ \A x \in 1..Len(parent) :
               Bounds(h)[x] = IF LocationIn(x, h) # EmptyPairStorage THEN LocationIn(x, h)
                              ELSE Bounds(h)[parent[x]]
<1> DEFINE L == Len(parent)
           W == {EmptyPairStorage} \cup {LocationIn(x, h) : x \in 1..L}
           step == [x \in 1..L |->
                        [r \in W |-> IF LocationIn(x, h) # EmptyPairStorage THEN LocationIn(x, h) ELSE r]]
<1>1. /\ L \in Nat /\ LinksDown(parent, L, ParentRank)
      /\ \A x \in 1..L : parent[x] \in 0..L
  BY ParentLinks
<1> HIDE DEF EmptyPairStorage, LocationIn
<1>2. \E b \in [0..L -> W] : b[0] = EmptyPairStorage /\ \A x \in 1..L : b[x] = step[x][b[parent[x]]]
  <2>1. \A x \in 1..L : step[x] \in [W -> W]
    OBVIOUS
  <2>2. EmptyPairStorage \in W
    OBVIOUS
  <2> HIDE DEF step, W, L
  <2>3. Recursion(L, W, EmptyPairStorage, step)
    BY <2>1, <2>2 DEF Recursion
  <2> QED BY <1>1, <2>3, LinkRecursion
<1>3. PICK b \in [0..L -> W] : b[0] = EmptyPairStorage /\ \A x \in 1..L : b[x] = step[x][b[parent[x]]]
  BY <1>2
<1>4. \A x \in 1..L : b[x] = IF LocationIn(x, h) # EmptyPairStorage THEN LocationIn(x, h) ELSE b[parent[x]]
  <2> SUFFICES ASSUME NEW x \in 1..L
               PROVE  b[x] = IF LocationIn(x, h) # EmptyPairStorage THEN LocationIn(x, h) ELSE b[parent[x]]
    OBVIOUS
  <2>1. b[parent[x]] \in W
    <3> HIDE DEF W
    <3> QED BY <1>1, <1>3
  <2>2. b[x] = step[x][b[parent[x]]]
    <3> HIDE DEF W, step
    <3> QED BY <1>3
  <2> HIDE DEF W
  <2> QED BY <2>1, <2>2
<1>5. b = [x \in 0..L |-> BoundBody(h, b, x)]
  <2>1. \A x \in 0..L : b[x] = BoundBody(h, b, x)
    <3> HIDE DEF W, step
    <3> QED BY <1>1, <1>3, <1>4 DEF BoundBody
  <2> HIDE DEF W, step, BoundBody
  <2> QED BY <1>3, <2>1
<1> DEFINE m == Bounds(h)
<1>6. m = [x \in 0..L |-> BoundBody(h, m, x)]
  <2> HIDE DEF BoundBody
  <2> QED BY <1>5 DEF Bounds
<1> HIDE DEF m
<1>7. /\ m[0] = EmptyPairStorage
      /\ \A x \in 1..L : m[x] = IF LocationIn(x, h) # EmptyPairStorage THEN LocationIn(x, h) ELSE m[parent[x]]
  BY <1>1, <1>6 DEF BoundBody
<1> QED BY <1>7 DEF m

LEMMA InnerFacts ==
    ASSUME Nested, NEW h
    PROVE  Inner(h)[0] = 0 /\ \A x \in 1..Len(parent) :
               Inner(h)[x] = IF Variables[x][h] # Unbound THEN x ELSE Inner(h)[parent[x]]
<1> DEFINE L == Len(parent)
           W == 0..L
           step == [x \in 1..L |-> [r \in W |-> IF Variables[x][h] # Unbound THEN x ELSE r]]
<1>1. /\ L \in Nat /\ LinksDown(parent, L, ParentRank)
      /\ \A x \in 1..L : parent[x] \in 0..L
  BY ParentLinks
<1> HIDE DEF Variables
<1>2. \E b \in [0..L -> W] : b[0] = 0 /\ \A x \in 1..L : b[x] = step[x][b[parent[x]]]
  <2>1. \A x \in 1..L : step[x] \in [W -> W]
    BY <1>1
  <2>2. 0 \in W
    BY <1>1
  <2> HIDE DEF step, W, L
  <2>3. Recursion(L, W, 0, step)
    BY <2>1, <2>2 DEF Recursion
  <2> QED BY <1>1, <2>3, LinkRecursion
<1>3. PICK b \in [0..L -> W] : b[0] = 0 /\ \A x \in 1..L : b[x] = step[x][b[parent[x]]]
  BY <1>2
<1>4. \A x \in 1..L : b[x] = IF Variables[x][h] # Unbound THEN x ELSE b[parent[x]]
  <2> SUFFICES ASSUME NEW x \in 1..L
               PROVE  b[x] = IF Variables[x][h] # Unbound THEN x ELSE b[parent[x]]
    OBVIOUS
  <2>1. b[parent[x]] \in W
    <3> HIDE DEF W
    <3>1. parent[x] \in 0..L
      BY <1>1
    <3> QED BY <1>3, <3>1
  <2>2. b[x] = step[x][b[parent[x]]]
    <3> HIDE DEF W, step
    <3> QED BY <1>3
  <2> HIDE DEF W
  <2> QED BY <2>1, <2>2
<1>5. b = [x \in 0..L |-> InnerBody(h, b, x)]
  <2>1. \A x \in 0..L : b[x] = InnerBody(h, b, x)
    <3> HIDE DEF W, step
    <3> QED BY <1>1, <1>3, <1>4 DEF InnerBody
  <2> HIDE DEF W, step, InnerBody
  <2> QED BY <1>3, <2>1
<1> DEFINE m == Inner(h)
<1>6. m = [x \in 0..L |-> InnerBody(h, m, x)]
  <2> HIDE DEF InnerBody
  <2> QED BY <1>5 DEF Inner
<1> HIDE DEF m
<1>7. /\ m[0] = 0
      /\ \A x \in 1..L : m[x] = IF Variables[x][h] # Unbound THEN x ELSE m[parent[x]]
  BY <1>1, <1>6 DEF InnerBody
<1> QED BY <1>7 DEF m

LEMMA VariablesFacts ==
    ASSUME StateInv
    PROVE  /\ DOMAIN parent = 1..Len(firstFragment) /\ Len(parent) = Len(firstFragment)
           /\ Variables = [e \in 1..Len(firstFragment) |->
                               [h \in Symbols |-> Valued(fragments, firstFragment[e], h)]]
<1>1. DOMAIN parent = 1..Len(firstFragment)
  BY DEF StateInv, Nested
<1> QED BY <1>1, ModelSearches DEF Variables, StateInv

\* The search for a variable ends in the innermost environment that has it.
LEMMA InnermostIsFound ==
    ASSUME StateInv, NEW h \in Symbols, NEW e \in 1..Len(parent)
    PROVE  \/ Bounds(h)[e] = EmptyPairStorage /\ Inner(h)[e] = 0
           \/ \E x \in 1..Len(parent) :
                  /\ Inner(h)[e] = x /\ Bounds(h)[e] = Located(fragments, firstFragment[x], h)
                  /\ Bounds(h)[e] # EmptyPairStorage
<1> DEFINE L == Len(parent)
           b == Bounds(h)
           n == Inner(h)
           S == {x \in 0..L :
                    \/ b[x] = EmptyPairStorage /\ n[x] = 0
                    \/ \E y \in 1..L : /\ n[x] = y /\ b[x] = Located(fragments, firstFragment[y], h)
                                       /\ b[x] # EmptyPairStorage}
<1>0. Nested
  BY DEF StateInv
<1>1. /\ L \in Nat /\ LinksDown(parent, L, ParentRank)
      /\ \A x \in 1..L : parent[x] \in 0..L /\ x \in 0..L
  BY <1>0, ParentLinks
<1>2. /\ b[0] = EmptyPairStorage
      /\ \A x \in 1..L : b[x] = IF LocationIn(x, h) # EmptyPairStorage THEN LocationIn(x, h) ELSE b[parent[x]]
  BY <1>0, BoundsFacts
<1>3. /\ n[0] = 0
      /\ \A x \in 1..L : n[x] = IF Variables[x][h] # Unbound THEN x ELSE n[parent[x]]
  BY <1>0, InnerFacts
<1>4. \A x \in 1..L : LocationIn(x, h) = Located(fragments, firstFragment[x], h)
  BY ModelSearches
<1>5. \A x \in 1..L : Variables[x][h] # Unbound <=> LocationIn(x, h) # EmptyPairStorage
  <2> SUFFICES ASSUME NEW x \in 1..L
               PROVE  Variables[x][h] # Unbound <=> LocationIn(x, h) # EmptyPairStorage
    OBVIOUS
  <2>1. x \in 1..Len(firstFragment) /\ Variables[x][h] = Valued(fragments, firstFragment[x], h)
    BY VariablesFacts
  <2>2. Tables(fragments, firstFragment)
    BY DEF StateInv
  <2>3. Valued(fragments, firstFragment[x], h) # Unbound
        <=> Located(fragments, firstFragment[x], h) # EmptyPairStorage
    <3>1. CASE \E g, i : At(fragments, firstFragment[x], h, g, i)
      BY <2>1, <2>2, <3>1, Contents
    <3>2. CASE \A g, i : ~ At(fragments, firstFragment[x], h, g, i)
      BY <2>1, <2>2, <3>2, Contents
    <3> QED BY <3>1, <3>2
  <2> QED BY <1>4, <2>1, <2>3
<1> HIDE DEF b, n, L
<1>6. 0 \in S
  BY <1>1, <1>2, <1>3
<1>7. ASSUME NEW x \in 1..L, parent[x] \in S PROVE x \in S
  <2>1. CASE LocationIn(x, h) # EmptyPairStorage
    BY <1>1, <1>2, <1>3, <1>4, <1>5, <2>1
  <2>2. CASE LocationIn(x, h) = EmptyPairStorage
    <3>1. b[x] = b[parent[x]] /\ n[x] = n[parent[x]]
      BY <1>2, <1>3, <1>5, <2>2
    <3> QED BY <1>1, <1>7, <3>1
  <2> QED BY <2>1, <2>2
<1> HIDE DEF S
<1>8. \A x \in 0..L : x \in S
  BY <1>1, <1>6, <1>7, LinkInduction
<1>9. e \in S
  BY <1>1, <1>8 DEF L
<1> QED BY <1>9 DEF S, b, n, L

-----------------------------------------------------------------------------
(* The steps: each keeps the invariant and is a step of Scopes.            *)

\* StateInv of the next state, with its tables named.
LEMMA NextInv ==
    ASSUME NEW gs, NEW gfirst, NEW p, fragments' = gs, firstFragment' = gfirst, parent' = p
    PROVE  /\ StateInv' <=>
                  /\ p \in Seq(Nat) /\ \A x \in 1..Len(p) : p[x] < x
                  /\ Len(p) = Len(gfirst) /\ 1 <= Len(p) /\ Tables(gs, gfirst)
           /\ Variables' = [e \in DOMAIN p |-> [h \in Symbols |-> Valued(gs, gfirst[e], h)]]
<1>1. StateInv' <=> /\ p \in Seq(Nat) /\ \A x \in 1..Len(p) : p[x] < x
                    /\ Len(p) = Len(gfirst) /\ 1 <= Len(p) /\ Tables(gs, gfirst)
  BY DEF StateInv, Nested
<1>2. \A e, at : FirstIn(e, at)' = Search(gs, at)[gfirst[e]]
  BY DEF FirstIn, Search, SearchBody, NoFragment
<1>3. \A e, h : LocationIn(e, h)' = Located(gs, gfirst[e], h)
  BY <1>2 DEF LocationIn, Located, HitsOf, Hits, SymbolAt
<1>4. \A e, h : ValueOf(e, h)' = Valued(gs, gfirst[e], h)
  BY <1>3 DEF ValueOf, Valued
<1>5. Variables' = [e \in DOMAIN p |-> [h \in Symbols |-> Valued(gs, gfirst[e], h)]]
  BY <1>4 DEF Variables
<1> QED BY <1>1, <1>5

LEMMA OpenStep ==
    ASSUME StateInv, NEW e \in DOMAIN parent, NewEnvironment(e)
    PROVE  StateInv' /\ Scoped!Open(e)
<1> DEFINE L == Len(parent)
           p == Append(parent, e)
           first == firstFragment
           gfirst == Append(first, 0)
           fs == fragments
<1>1. /\ parent' = p /\ firstFragment' = gfirst /\ fragments' = fs
  BY DEF NewEnvironment, NoFragment
<1>2. /\ parent \in Seq(Nat) /\ \A x \in 1..L : parent[x] < x
      /\ L = Len(first) /\ L \in Nat /\ 1 <= L /\ DOMAIN parent = 1..L /\ e \in 1..L
      /\ Tables(fs, first) /\ first \in Seq(Nat)
  BY DEF StateInv, Nested, Tables, Heads
<1>3. /\ p \in Seq(Nat) /\ Len(p) = L + 1 /\ DOMAIN p = 1..L + 1
      /\ \A x \in 1..L : p[x] = parent[x]
      /\ p[L + 1] = e
  BY <1>2
<1>4. /\ gfirst \in Seq(Nat) /\ Len(gfirst) = L + 1 /\ gfirst[L + 1] = 0
      /\ \A x \in 1..L : gfirst[x] = first[x]
  BY <1>2
<1> HIDE DEF p, gfirst
<1>5. /\ Ordered(fs) /\ Heads(fs, first) /\ Compact(fs) /\ Owned(fs, first) /\ Once(fs, first)
      /\ Members(fs)[0] = {} /\ Len(fs) \in Nat
  BY <1>2, MembersFacts, NextFacts DEF Tables
<1>6. Heads(fs, gfirst)
  <2>1. ASSUME NEW x \in 1..L + 1 PROVE gfirst[x] \in 0..Len(fs)
    <3>1. CASE x = L + 1
      BY <1>4, <1>5, <3>1
    <3>2. CASE x \in 1..L
      BY <1>2, <1>4, <1>5, <3>2 DEF Heads
    <3> QED BY <1>2, <3>1, <3>2
  <2> QED BY <1>4, <2>1 DEF Heads
<1>7. \A x \in 1..L + 1 : x = L + 1 \/ x \in 1..L
  BY <1>2
<1>8. Owned(fs, gfirst)
  <2>1. ASSUME NEW f \in 1..Len(fs) PROVE \E d \in 1..L + 1 : f \in Members(fs)[gfirst[d]]
    <3>1. PICK d \in 1..L : f \in Members(fs)[first[d]]
      BY <1>2, <1>5 DEF Owned
    <3>2. d \in 1..L + 1 /\ gfirst[d] = first[d]
      BY <1>2, <1>4
    <3> QED BY <3>1, <3>2
  <2>2. ASSUME NEW c \in 1..L + 1, NEW d \in 1..L + 1, c # d, NEW f \in 1..Len(fs)
        PROVE  ~ (f \in Members(fs)[gfirst[c]] /\ f \in Members(fs)[gfirst[d]])
    <3>1. CASE c = L + 1 \/ d = L + 1
      BY <1>4, <1>5, <3>1
    <3>2. CASE c \in 1..L /\ d \in 1..L
      BY <1>2, <1>4, <1>5, <2>2, <3>2 DEF Owned
    <3> QED BY <1>7, <3>1, <3>2
  <2> QED BY <1>4, <2>1, <2>2 DEF Owned
<1>9. Once(fs, gfirst)
  <2> SUFFICES ASSUME NEW d \in 1..L + 1, NEW k \in Symbols, NEW x, NEW y, NEW a, NEW b,
                      At(fs, gfirst[d], k, x, a), At(fs, gfirst[d], k, y, b)
               PROVE  x = y /\ a = b
    BY <1>4, Zenon DEF Once
  <2>1. CASE d = L + 1
    BY <1>4, <1>5, <2>1 DEF At
  <2>2. CASE d \in 1..L
    <3>1. At(fs, first[d], k, x, a) /\ At(fs, first[d], k, y, b)
      BY <1>4, <2>2
    <3> QED BY <1>2, <1>5, <2>2, <3>1 DEF Once
  <2> QED BY <1>7, <2>1, <2>2
<1>10. Tables(fs, gfirst)
  BY <1>5, <1>6, <1>8, <1>9 DEF Tables
<1>11. \A x \in 1..L + 1 : p[x] < x
  BY <1>2, <1>3, <1>7, SMTT(30)
<1>12. StateInv' /\ Variables' = [d \in DOMAIN p |-> [h \in Symbols |-> Valued(fs, gfirst[d], h)]]
  <2>1. /\ StateInv' <=>
               /\ p \in Seq(Nat) /\ \A x \in 1..Len(p) : p[x] < x
               /\ Len(p) = Len(gfirst) /\ 1 <= Len(p) /\ Tables(fs, gfirst)
        /\ Variables' = [d \in DOMAIN p |-> [h \in Symbols |-> Valued(fs, gfirst[d], h)]]
    BY <1>1, NextInv
  <2>2. 1 <= Len(p)
    BY <1>2, <1>3
  <2> QED BY <1>3, <1>4, <1>10, <1>11, <2>1, <2>2
<1>13. Variables' = Append(Variables, Scoped!Fresh)
  <2> DEFINE V == [d \in 1..L |-> [h \in Symbols |-> Valued(fs, first[d], h)]]
             w == [h \in Symbols |-> Unbound]
  <2>1. Variables = V
    BY <1>2, VariablesFacts
  <2>2. \A h \in Symbols : Valued(fs, gfirst[L + 1], h) = Unbound
    <3>1. \A h, g, i : ~ At(fs, gfirst[L + 1], h, g, i)
      BY <1>4, <1>5 DEF At
    <3>2. L + 1 \in 1..Len(gfirst)
      BY <1>2, <1>4
    <3> QED BY <1>10, <3>1, <3>2, Contents
  <2>3. \A d \in 1..L : gfirst[d] = first[d]
    BY <1>4
  <2>4. /\ Variables'[L + 1] = w
        /\ \A d \in 1..L : Variables'[d] = V[d]
    <3>1. L + 1 \in DOMAIN p /\ \A d \in 1..L : d \in DOMAIN p
      BY <1>2, <1>3
    <3>2. \A d \in DOMAIN p : Variables'[d] = [h \in Symbols |-> Valued(fs, gfirst[d], h)]
      BY <1>12
    <3>3. Variables'[L + 1] = [h \in Symbols |-> Valued(fs, gfirst[L + 1], h)]
      BY <3>1, <3>2
    <3>4. ASSUME NEW d \in 1..L PROVE Variables'[d] = V[d]
      <4>1. Variables'[d] = [h \in Symbols |-> Valued(fs, gfirst[d], h)]
        BY <3>1, <3>2
      <4>2. gfirst[d] = first[d]
        BY <2>3
      <4> QED BY <4>1, <4>2
    <3> QED BY <2>2, <3>3, <3>4
  <2>5. Variables' = [d \in 1..L + 1 |-> Variables'[d]]
    BY <1>3, <1>12
  <2>6. V = [d \in 1..L |-> V[d]]
    OBVIOUS
  <2> HIDE DEF V, w
  <2>7. Append(V, w) = [d \in 1..L + 1 |-> Append(V, w)[d]]
        /\ \A d \in 1..L + 1 : Append(V, w)[d] = IF d = L + 1 THEN w ELSE V[d]
    BY <1>2, <2>6, SMTT(30)
  <2>8. \A d \in 1..L + 1 : Variables'[d] = Append(V, w)[d]
    BY <1>7, <2>4, <2>7
  <2>9. Variables' = Append(V, w)
    BY <2>5, <2>7, <2>8
  <2>10. Scoped!Fresh = w
    BY DEF Scoped!Fresh, w
  <2> QED BY <2>1, <2>9, <2>10
<1>14. Scoped!Open(e)
  BY <1>1, <1>13 DEF Scoped!Open, Variables, p
<1> QED BY <1>12, <1>14

\* The variables of tables with as many environments as there are.
VariablesOf(gs, gfirst) == [d \in 1..Len(firstFragment) |-> [k \in Symbols |-> Valued(gs, gfirst[d], k)]]

\* The variables after a step that leaves the environments where they are.
LEMMA SameEnvironments ==
    ASSUME StateInv, NEW gs, NEW gfirst, fragments' = gs, firstFragment' = gfirst, UNCHANGED parent,
           Tables(gs, gfirst), Len(gfirst) = Len(firstFragment)
    PROVE  /\ StateInv'
           /\ Variables' = VariablesOf(gs, gfirst)
<1>1. /\ parent \in Seq(Nat) /\ \A x \in 1..Len(parent) : parent[x] < x
      /\ Len(parent) = Len(firstFragment) /\ 1 <= Len(parent) /\ DOMAIN parent = 1..Len(firstFragment)
  BY DEF StateInv, Nested
<1>2. /\ StateInv' <=>
               /\ parent \in Seq(Nat) /\ \A x \in 1..Len(parent) : parent[x] < x
               /\ Len(parent) = Len(gfirst) /\ 1 <= Len(parent) /\ Tables(gs, gfirst)
      /\ Variables' = [d \in DOMAIN parent |-> [k \in Symbols |-> Valued(gs, gfirst[d], k)]]
  <2> DEFINE p == parent
  <2>1. parent' = p
    OBVIOUS
  <2> HIDE DEF p
  <2>2. /\ StateInv' <=>
               /\ p \in Seq(Nat) /\ \A x \in 1..Len(p) : p[x] < x
               /\ Len(p) = Len(gfirst) /\ 1 <= Len(p) /\ Tables(gs, gfirst)
        /\ Variables' = [d \in DOMAIN p |-> [k \in Symbols |-> Valued(gs, gfirst[d], k)]]
    BY <2>1, NextInv
  <2> QED BY <2>2 DEF p
<1> QED BY <1>1, <1>2 DEF VariablesOf

\* The tables differ in the variable h of environment e, which is v.
Differ(gs, gfirst, e, h, v) ==
    \A d \in 1..Len(firstFragment), k \in Symbols :
        Valued(gs, gfirst[d], k) = IF d = e /\ k = h THEN v ELSE Valued(fragments, firstFragment[d], k)

LEMMA OneChanges ==
    ASSUME StateInv, NEW e \in 1..Len(firstFragment), NEW h \in Symbols, NEW v, NEW gs, NEW gfirst,
           Differ(gs, gfirst, e, h, v)
    PROVE  VariablesOf(gs, gfirst) = [Variables EXCEPT ![e][h] = v]
<1> DEFINE I == 1..Len(firstFragment)
           A(d) == [k \in Symbols |-> Valued(fragments, firstFragment[d], k)]
           B(d) == [k \in Symbols |-> Valued(gs, gfirst[d], k)]
<1>1. Variables = [d \in I |-> A(d)]
  BY VariablesFacts
<1>2. \A d \in I : d # e => B(d) = A(d)
  BY DEF Differ
<1>3. B(e) = [A(e) EXCEPT ![h] = v]
  BY DEF Differ
<1> HIDE DEF A, B
<1>4. [d \in I |-> B(d)] = [Variables EXCEPT ![e] = [A(e) EXCEPT ![h] = v]]
  BY <1>1, <1>2, <1>3
<1>5. Variables[e] = A(e)
  BY <1>1
<1>6. [d \in I |-> B(d)] = [Variables EXCEPT ![e][h] = v]
  BY <1>4, <1>5
<1> QED BY <1>6 DEF B, VariablesOf

LEMMA NoneChanges ==
    ASSUME StateInv, NEW gs, NEW gfirst,
           \A d \in 1..Len(firstFragment), k \in Symbols :
               Valued(gs, gfirst[d], k) = Valued(fragments, firstFragment[d], k)
    PROVE  VariablesOf(gs, gfirst) = Variables
BY VariablesFacts DEF VariablesOf

LEMMA DeclareStep ==
    ASSUME StateInv, NEW e \in DOMAIN parent, NEW h \in Symbols, BindScoped(e, h)
    PROVE  StateInv' /\ Scoped!Declare(e, h)
<1> DEFINE b == Bind(e, h)
           first == firstFragment
           old(d, k) == Valued(fragments, first[d], k)
<1>1. firstFragment' = b.first /\ fragments' = b.fragments /\ UNCHANGED parent
  BY DEF BindScoped
<1>2. e \in 1..Len(first) /\ Tables(fragments, first)
  BY VariablesFacts DEF StateInv
<1>3. Bound(b, e, h)
  BY <1>2, BindFacts
<1> HIDE DEF b
<1>4. /\ Tables(b.fragments, b.first) /\ Len(b.first) = Len(first)
      /\ \A d \in 1..Len(first), k \in Symbols :
             Valued(b.fragments, b.first[d], k) =
                 IF d = e /\ k = h /\ old(d, k) = Unbound THEN EmptyPair ELSE old(d, k)
  BY <1>3 DEF Bound
<1>5. /\ StateInv'
      /\ Variables' = VariablesOf(b.fragments, b.first)
  BY <1>1, <1>4, SameEnvironments
<1>6. Variables[e][h] = old(e, h)
  BY <1>2, VariablesFacts
<1>7. Variables' = IF Variables[e][h] = Unbound THEN [Variables EXCEPT ![e][h] = EmptyPair] ELSE Variables
  <2>1. CASE old(e, h) = Unbound
    <3>1. Differ(b.fragments, b.first, e, h, EmptyPair)
      BY <1>4, <2>1 DEF Differ
    <3> QED BY <1>2, <1>5, <1>6, <2>1, <3>1, OneChanges
  <2>2. CASE old(e, h) # Unbound
    <3>1. \A d \in 1..Len(first), k \in Symbols : Valued(b.fragments, b.first[d], k) = old(d, k)
      BY <1>4, <2>2
    <3> QED BY <1>5, <1>6, <2>2, <3>1, NoneChanges
  <2> QED BY <2>1, <2>2
<1>8. Scoped!Declare(e, h)
  <2> DEFINE A == Variables'
             B == IF Variables[e][h] = Unbound THEN [Variables EXCEPT ![e][h] = EmptyPair] ELSE Variables
  <2>1. A = B /\ UNCHANGED parent
    BY <1>1, <1>7
  <2> QED BY <2>1 DEF Scoped!Declare, Variables
<1> QED BY <1>5, <1>8

LEMMA DefineStep ==
    ASSUME StateInv, NEW h \in Symbols, NEW v \in Values, Define(h, v)
    PROVE  StateInv' /\ Scoped!Define(h, v)
<1> DEFINE b == Bind(Global, h)
           first == firstFragment
           g == b.location[1]
           i == b.location[2]
           gs == Stored(b.fragments, g, i, v)
           old(d, k) == Valued(fragments, first[d], k)
<1>1. firstFragment' = b.first /\ fragments' = gs /\ UNCHANGED parent
  BY DEF Define, Put, Stored
<1>2. Global \in 1..Len(first) /\ Tables(fragments, first)
  BY DEF StateInv, Global, Nested
<1>3. Bound(b, Global, h)
  BY <1>2, BindFacts
<1> HIDE DEF b
<1>4. /\ Tables(b.fragments, b.first) /\ Len(b.first) = Len(first)
      /\ At(b.fragments, b.first[Global], h, g, i)
      /\ \A d \in 1..Len(first), k \in Symbols :
             Valued(b.fragments, b.first[d], k) =
                 IF d = Global /\ k = h /\ old(d, k) = Unbound THEN EmptyPair ELSE old(d, k)
  BY <1>3 DEF Bound
<1>5. /\ Tables(gs, b.first)
      /\ \A d \in 1..Len(b.first), k \in Symbols :
             Valued(gs, b.first[d], k) =
                 IF d = Global /\ k = h THEN v ELSE Valued(b.fragments, b.first[d], k)
  <2> HIDE DEF g, i
  <2>1. Global \in 1..Len(b.first)
    BY <1>2, <1>4
  <2> QED BY <1>4, <2>1, StoredTables
<1> HIDE DEF gs
<1>6. Differ(gs, b.first, Global, h, v)
  BY <1>4, <1>5 DEF Differ
<1>7. /\ StateInv'
      /\ Variables' = VariablesOf(gs, b.first)
  BY <1>1, <1>4, <1>5, SameEnvironments
<1>8. Variables' = [Variables EXCEPT ![Global][h] = v]
  <2> HIDE DEF Global
  <2> QED BY <1>2, <1>6, <1>7, OneChanges
<1>9. Scoped!Define(h, v)
  <2> DEFINE A == Variables'
             B == [Variables EXCEPT ![Global][h] = v]
  <2>1. A = B /\ UNCHANGED parent
    BY <1>1, <1>8
  <2> QED BY <2>1 DEF Scoped!Define, Variables, Scoped!Global, Global
<1> QED BY <1>7, <1>9

LEMMA SetStep ==
    ASSUME StateInv, NEW e \in DOMAIN parent, NEW h \in Symbols, NEW v \in Values, Set(e, h, v)
    PROVE  StateInv' /\ ("setUnbound" \notin Operations => Scoped!Assign(e, h, v))
<1> DEFINE l == BoundLocation(e, h)
           first == firstFragment
           gs == Stored(fragments, l[1], l[2], v)
<1>1. /\ UNCHANGED <<parent, firstFragment>>
      /\ \/ l # EmptyPairStorage /\ fragments' = gs
         \/ l = EmptyPairStorage /\ fragments' = fragments /\ "setUnbound" \in Operations
  BY DEF Set, Put, Stored
<1>2. /\ DOMAIN parent = 1..Len(parent) /\ Len(parent) = Len(first) /\ e \in 1..Len(parent)
      /\ Tables(fragments, first)
  BY VariablesFacts DEF StateInv
<1>3. l = Bounds(h)[e]
  BY DEF BoundLocation, Bounds, BoundBody, NoEnvironment
<1>4. Scoped!Innermost(e, h) = Inner(h)[e]
  BY DEF Scoped!Innermost, Inner, InnerBody, Variables, Scoped!NoScope
<1>5. \/ l = EmptyPairStorage /\ Inner(h)[e] = 0
      \/ \E x \in 1..Len(parent) : /\ Inner(h)[e] = x /\ l = Located(fragments, first[x], h)
                                   /\ l # EmptyPairStorage
  BY <1>2, <1>3, InnermostIsFound
<1> HIDE DEF l
<1>6. CASE l = EmptyPairStorage
  <2>1. /\ fragments' = fragments /\ firstFragment' = first /\ "setUnbound" \in Operations /\ UNCHANGED parent
    BY <1>1, <1>6
  <2>2. StateInv'
    BY <1>2, <2>1, SameEnvironments
  <2> QED BY <2>1, <2>2
<1>7. CASE l # EmptyPairStorage
  <2>1. PICK x \in 1..Len(parent) : Inner(h)[e] = x /\ l = Located(fragments, first[x], h)
    BY <1>5, <1>7
  <2>2. x \in 1..Len(first)
    BY <1>2
  <2>3. PICK g, i : At(fragments, first[x], h, g, i)
    BY <1>2, <1>7, <2>1, <2>2, Contents
  <2>4. l = <<g, i>>
    BY <1>2, <2>1, <2>2, <2>3, Contents
  <2>5. l[1] = g /\ l[2] = i
    BY <2>4
  <2>6. /\ Tables(gs, first)
        /\ \A d \in 1..Len(first), k \in Symbols :
               Valued(gs, first[d], k) = IF d = x /\ k = h THEN v ELSE Valued(fragments, first[d], k)
    BY <1>2, <2>2, <2>3, <2>5, StoredTables
  <2>7. fragments' = gs /\ firstFragment' = first /\ UNCHANGED parent
    BY <1>1, <1>7
  <2> HIDE DEF gs
  <2>8. StateInv' /\ Variables' = VariablesOf(gs, first)
    BY <2>6, <2>7, SameEnvironments
  <2>9. Differ(gs, first, x, h, v)
    BY <2>6 DEF Differ
  <2>10. Variables' = [Variables EXCEPT ![x][h] = v]
    BY <2>2, <2>8, <2>9, OneChanges
  <2>11. Scoped!Assign(e, h, v)
    <3> DEFINE A == Variables'
               n == Scoped!Innermost(e, h)
    <3>1. n = x /\ n # 0
      BY <1>2, <1>4, <2>1
    <3>2. A = [Variables EXCEPT ![n][h] = v] /\ UNCHANGED parent
      BY <2>7, <2>10, <3>1
    <3> HIDE DEF n
    <3>3. n # 0 /\ A = [Variables EXCEPT ![n][h] = v] /\ UNCHANGED parent
      BY <3>1, <3>2
    <3> QED BY <3>3 DEF Scoped!Assign, Variables, Scoped!NoScope, n
  <2> QED BY <2>8, <2>11
<1> QED BY <1>6, <1>7

-----------------------------------------------------------------------------
(* The initial state, and the theorems.                                    *)

LEMMA InitStep ==
    ASSUME Init
    PROVE  StateInv /\ Scoped!Init
<1> DEFINE r == [next    |-> NoFragment,
                 symbols |-> [i \in EntryIndex |-> Builtins[i + 1]],
                 objects |-> [i \in EntryIndex |-> Function]]
           fs == <<r>>
           first == <<1>>
<1>1. parent = <<0>> /\ firstFragment = first /\ fragments = fs
  BY DEF Init, NoEnvironment
<1>2. /\ r.next = 0 /\ \A i \in EntryIndex : r.symbols[i] = Builtins[i + 1] /\ r.objects[i] = Function
  BY DEF NoFragment
<1>3. /\ \A i \in EntryIndex : i + 1 \in 1..NumEntries /\ Builtins[i + 1] \in Symbols
      /\ \A i, j \in EntryIndex : Builtins[i + 1] = Builtins[j + 1] => i = j
  <2>1. NumEntries \in Nat /\ Builtins \in [1..NumEntries -> Symbols] /\ IsInjective(Builtins)
    BY SymbolsAssumption DEF SymbolsAssumption
  <2>2. \A i \in EntryIndex : i \in Nat /\ i + 1 \in 1..NumEntries
    BY <2>1 DEF EntryIndex
  <2>3. \A a, b \in 1..NumEntries : Builtins[a] = Builtins[b] => a = b
    BY <2>1 DEF IsInjective
  <2>4. \A i \in EntryIndex : Builtins[i + 1] \in Symbols
    BY <2>1, <2>2
  <2>5. ASSUME NEW i \in EntryIndex, NEW j \in EntryIndex, Builtins[i + 1] = Builtins[j + 1] PROVE i = j
    <3>1. i + 1 = j + 1
      BY <2>2, <2>3, <2>5
    <3> QED BY <2>2, <3>1
  <2> QED BY <2>2, <2>4, <2>5
<1>4. r \in Fragment
  BY <1>3 DEF Fragment, NoFragment
<1> HIDE DEF r
<1>5. fs \in Seq(Fragment) /\ Len(fs) = 1 /\ fs[1] = r
  <2> DEFINE X == Fragment
  <2> HIDE DEF X
  <2>1. r \in X
    BY <1>4 DEF X
  <2>2. fs \in Seq(X) /\ Len(fs) = 1 /\ fs[1] = r
    BY <2>1
  <2> QED BY <2>2 DEF X
<1>6. first \in Seq(Nat) /\ Len(first) = 1 /\ first[1] = 1
  OBVIOUS
<1> HIDE DEF fs, first
<1>n. 1..1 = {1} /\ 1 \in 0..1
  OBVIOUS
<1>7. Ordered(fs)
  BY <1>2, <1>5, <1>n DEF Ordered
<1>8. Members(fs)[1] = {1}
  BY <1>2, <1>5, <1>7, <1>n, MembersFacts
<1>9. Heads(fs, first) /\ Owned(fs, first)
  BY <1>5, <1>6, <1>8, <1>n DEF Heads, Owned
<1>10. Compact(fs)
  BY <1>2, <1>3, <1>5, <1>n, SymbolsValid DEF Compact
<1>11. Once(fs, first)
  BY <1>2, <1>3, <1>5, <1>6, <1>8, <1>n DEF Once, At
<1>12. Tables(fs, first)
  BY <1>7, <1>9, <1>10, <1>11 DEF Tables
<1>13. StateInv
  <2>1. parent \in Seq(Nat) /\ Len(parent) = 1 /\ parent[1] = 0
    BY <1>1
  <2> QED BY <1>1, <1>6, <1>12, <1>n, <2>1 DEF StateInv, Nested
<1>14. \A h \in Symbols :
           Valued(fs, 1, h) = IF h \in Range(Builtins) THEN Function ELSE Unbound
  <2> SUFFICES ASSUME NEW h \in Symbols
               PROVE  Valued(fs, 1, h) = IF h \in Range(Builtins) THEN Function ELSE Unbound
    OBVIOUS
  <2>1. NumEntries \in Nat /\ DOMAIN Builtins = 1..NumEntries
    BY SymbolsAssumption DEF SymbolsAssumption
  <2>2. h \in Range(Builtins) <=> \E i \in EntryIndex : Builtins[i + 1] = h
    <3>1. ASSUME NEW a \in 1..NumEntries, Builtins[a] = h PROVE \E i \in EntryIndex : Builtins[i + 1] = h
      <4>1. a - 1 \in EntryIndex /\ (a - 1) + 1 = a
        BY <2>1 DEF EntryIndex
      <4> QED BY <3>1, <4>1
    <3> QED BY <1>3, <2>1, <3>1 DEF Range
  <2>3. \A i \in EntryIndex : Builtins[i + 1] = h => At(fs, 1, h, 1, i) /\ fs[1].objects[i] = Function
    BY <1>2, <1>5, <1>8 DEF At
  <2>4. (\A i \in EntryIndex : Builtins[i + 1] # h) => \A g, i : ~ At(fs, 1, h, g, i)
    BY <1>2, <1>5, <1>8 DEF At
  <2>5. CASE h \in Range(Builtins)
    <3>1. PICK i \in EntryIndex : At(fs, 1, h, 1, i) /\ fs[1].objects[i] = Function
      BY <2>2, <2>3, <2>5
    <3>2. Valued(fs, first[1], h) = fs[1].objects[i]
      BY <1>6, <1>12, <1>n, <3>1, Contents
    <3> QED BY <1>6, <2>5, <3>1, <3>2
  <2>6. CASE h \notin Range(Builtins)
    <3>1. \A g, i : ~ At(fs, first[1], h, g, i)
      BY <1>6, <2>2, <2>4, <2>6
    <3>2. Valued(fs, first[1], h) = Unbound
      BY <1>6, <1>12, <1>n, <3>1, Contents
    <3> QED BY <1>6, <2>6, <3>2
  <2> QED BY <2>5, <2>6
<1>15. Variables = <<[h \in Symbols |-> IF h \in Range(Builtins) THEN Function ELSE Unbound]>>
  <2>1. Variables = [d \in 1..1 |-> [h \in Symbols |-> Valued(fs, first[d], h)]]
    BY <1>1, <1>6, <1>13, VariablesFacts
  <2> DEFINE w == [h \in Symbols |-> IF h \in Range(Builtins) THEN Function ELSE Unbound]
  <2>2. \A d \in 1..1 : [h \in Symbols |-> Valued(fs, first[d], h)] = w
    BY <1>6, <1>14, <1>n
  <2> HIDE DEF w
  <2>3. <<w>> = [d \in 1..1 |-> w]
    OBVIOUS
  <2>4. Variables = <<w>>
    BY <2>1, <2>2, <2>3
  <2> QED BY <2>4 DEF w
<1>16. Scoped!Init
  BY <1>1, <1>15 DEF Scoped!Init, Variables, Scoped!NoScope
<1> QED BY <1>13, <1>16

LEMMA InvKept == Init /\ [][Next]_vars => []StateInv
<1>1. Init => StateInv
  BY InitStep
<1>2. StateInv /\ [Next]_vars => StateInv'
  <2> SUFFICES ASSUME StateInv, [Next]_vars PROVE StateInv'
    OBVIOUS
  <2>1. ASSUME NEW e \in DOMAIN parent, NewEnvironment(e) PROVE StateInv'
    BY <2>1, OpenStep
  <2>2. ASSUME NEW e \in DOMAIN parent, NEW h \in Symbols, BindScoped(e, h) PROVE StateInv'
    BY <2>2, DeclareStep
  <2>3. ASSUME NEW e \in DOMAIN parent, NEW h \in Symbols, NEW v \in Values, Set(e, h, v) PROVE StateInv'
    BY <2>3, SetStep
  <2>4. ASSUME NEW h \in Symbols, NEW v \in Values, Define(h, v) PROVE StateInv'
    BY <2>4, DefineStep
  <2>5. CASE UNCHANGED vars
    <3>1. fragments' = fragments /\ firstFragment' = firstFragment /\ UNCHANGED parent
      BY <2>5 DEF vars
    <3>2. Tables(fragments, firstFragment)
      BY DEF StateInv
    <3> QED BY <3>1, <3>2, SameEnvironments
  <2> QED BY <2>1, <2>2, <2>3, <2>4, <2>5 DEF Next
<1> QED BY <1>1, <1>2, PTL

\* The tables keep their types, and an environment is made after the one around it.
THEOREM TablesAreTyped == Spec => []TypeOK
<1>1. StateInv => TypeOK
  <2> SUFFICES ASSUME StateInv PROVE TypeOK
    OBVIOUS
  <2>1. /\ parent \in Seq(Nat) /\ \A x \in 1..Len(parent) : parent[x] < x
        /\ Len(parent) = Len(firstFragment) /\ DOMAIN parent = 1..Len(parent) /\ Len(parent) \in Nat
        /\ Ordered(fragments) /\ Heads(fragments, firstFragment)
    BY DEF StateInv, Nested, Tables
  <2>2. parent \in Seq(0..Len(parent))
    <3>1. \A x \in 1..Len(parent) : parent[x] \in 0..Len(parent)
      BY <2>1
    <3> QED BY <2>1, <3>1
  <2>3. \A e \in DOMAIN parent : parent[e] < e /\ firstFragment[e] \in 0..Len(fragments)
    BY <2>1 DEF Heads
  <2>4. fragments \in Seq(Fragment) /\ DOMAIN fragments = 1..Len(fragments)
    BY <2>1 DEF Ordered
  <2>5. ASSUME NEW f \in DOMAIN fragments
        PROVE  /\ fragments[f].next \in 0..Len(fragments)
               /\ fragments[f].symbols \in [EntryIndex -> Symbols \cup {INVALID_HASH}]
               /\ fragments[f].objects \in [EntryIndex -> Values \cup {EmptyPair, Function}]
    <3>1. fragments[f] \in Fragment
      BY <2>4
    <3>2. fragments[f].next \in 0..Len(fragments)
      BY <2>1, <2>4, NextFacts
    <3> QED BY <3>1, <3>2 DEF Fragment
  <2> QED BY <2>1, <2>2, <2>3, <2>5 DEF TypeOK
<1> QED BY InvKept, <1>1, PTL DEF Spec

\* The search for an entry misses none: entries have no gaps, only the last fragment of an
\* environment has room, and every fragment belongs to one environment.
THEOREM TablesStayCompact == Spec => []TablesAreCompact
<1>1. StateInv => TablesAreCompact
  <2> SUFFICES ASSUME StateInv PROVE TablesAreCompact
    OBVIOUS
  <2>1. /\ DOMAIN parent = 1..Len(firstFragment)
        /\ Ordered(fragments) /\ Heads(fragments, firstFragment)
        /\ Compact(fragments) /\ Owned(fragments, firstFragment)
    BY VariablesFacts DEF StateInv, Tables
  <2>2. DOMAIN fragments = 1..Len(fragments)
    BY <2>1 DEF Ordered
  <2>3. \A x \in 0..Len(fragments) : Members(fragments)[x] \subseteq 1..Len(fragments)
    BY <2>1, MembersFacts
  <2>4. ASSUME NEW e \in DOMAIN parent
        PROVE  /\ DOMAIN Chain(e) = 1..Len(Chain(e))
               /\ ChainOver(fragments, firstFragment[e], Chain(e))
               /\ firstFragment[e] \in 0..Len(fragments)
    <3> DEFINE f == firstFragment[e]
               W == Seq(1..Len(fragments))
    <3>1. Chain(e) = Chains(fragments)[f] /\ f \in 0..Len(fragments)
      BY <2>1, ModelSearches DEF Heads
    <3>2. Chains(fragments)[f] \in W
      <4>1. Chains(fragments) \in [0..Len(fragments) -> W]
        BY <2>1, ChainsFacts
      <4> HIDE DEF W
      <4> QED BY <3>1, <4>1
    <3>3. ChainOver(fragments, f, Chain(e))
      BY <2>1, <3>1, ChainMembers
    <3> QED BY <3>1, <3>2, <3>3
  <2>5. ASSUME NEW e \in DOMAIN parent, NEW k \in DOMAIN Chain(e), NEW i \in EntryIndex,
               SymbolAt(Chain(e)[k], i) = INVALID_HASH
        PROVE  /\ k = Len(Chain(e))
               /\ \A j \in i..NumEntries - 1 : SymbolAt(Chain(e)[k], j) = INVALID_HASH
    <3> DEFINE g == Chain(e)[k]
    <3>1. g \in Members(fragments)[firstFragment[e]] /\ (fragments[g].next = 0 <=> k = Len(Chain(e)))
      BY <2>4, SMTT(30) DEF ChainOver
    <3>2. g \in 1..Len(fragments)
      BY <2>3, <2>4, <3>1
    <3>3. fragments[g].symbols[i] = INVALID_HASH
      BY <2>5 DEF SymbolAt
    <3> HIDE DEF g
    <3>4. /\ fragments[g].next = 0
          /\ \A j \in EntryIndex : i <= j => fragments[g].symbols[j] = INVALID_HASH
      BY <2>1, <3>2, <3>3 DEF Compact
    <3>5. \A j \in i..NumEntries - 1 : j \in EntryIndex /\ i <= j
      BY SymbolsAssumption DEF EntryIndex, SymbolsAssumption
    <3> QED BY <3>1, <3>4, <3>5 DEF SymbolAt, g
  <2>6. ASSUME NEW f \in DOMAIN fragments
        PROVE  Cardinality({e \in DOMAIN parent : \E k \in DOMAIN Chain(e) : Chain(e)[k] = f}) = 1
    <3> DEFINE E == {e \in DOMAIN parent : \E k \in DOMAIN Chain(e) : Chain(e)[k] = f}
    <3>1. ASSUME NEW e \in DOMAIN parent
          PROVE  e \in E <=> f \in Members(fragments)[firstFragment[e]]
      <4> DEFINE c == Chain(e)
      <4>1. /\ DOMAIN c = 1..Len(c)
            /\ \A k \in 1..Len(c) : c[k] \in Members(fragments)[firstFragment[e]]
            /\ \A g \in Members(fragments)[firstFragment[e]] : \E k \in 1..Len(c) : c[k] = g
        BY <2>4 DEF ChainOver
      <4> QED BY <4>1
    <3>2. PICK e \in DOMAIN parent : f \in Members(fragments)[firstFragment[e]]
      BY <2>1, <2>2 DEF Owned
    <3>3. \A d \in DOMAIN parent : f \in Members(fragments)[firstFragment[d]] => d = e
      BY <2>1, <2>2, <3>2 DEF Owned
    <3>4. E = {e}
      BY <3>1, <3>2, <3>3
    <3> HIDE DEF E
    <3> QED BY <3>4, FS_Singleton DEF E
  <2> QED BY <2>5, <2>6 DEF TablesAreCompact
<1> QED BY InvKept, <1>1, PTL DEF Spec

\* Environments are nested scopes of variables, and their operations those of Scopes:
\* every variable is made once, found from inside, and changed by nothing but an
\* assignment to it.  Where the code would store to the empty pair, it is not so.
THEOREM EnvironmentsAreScopes == "setUnbound" \notin Operations => (Spec => ImplementsScopes)
<1> DEFINE A == /\ \A e \in DOMAIN parent : NewEnvironment(e) => Scoped!Open(e)
                /\ \A e \in DOMAIN parent, hash \in Symbols :
                       /\ BindScoped(e, hash) => Scoped!Declare(e, hash)
                       /\ \A v \in Values : Set(e, hash, v) => Scoped!Assign(e, hash, v)
                /\ \A hash \in Symbols, v \in Values : Define(hash, v) => Scoped!Define(hash, v)
<1> SUFFICES ASSUME "setUnbound" \notin Operations PROVE Spec => ImplementsScopes
  OBVIOUS
<1>1. Init => Scoped!Init
  BY InitStep
<1>2. StateInv => A
  <2> SUFFICES ASSUME StateInv PROVE A
    OBVIOUS
  <2>1. ASSUME NEW e \in DOMAIN parent, NewEnvironment(e) PROVE Scoped!Open(e)
    BY <2>1, OpenStep
  <2>2. ASSUME NEW e \in DOMAIN parent, NEW hash \in Symbols, BindScoped(e, hash)
        PROVE  Scoped!Declare(e, hash)
    BY <2>2, DeclareStep
  <2>3. ASSUME NEW e \in DOMAIN parent, NEW hash \in Symbols, NEW v \in Values, Set(e, hash, v)
        PROVE  Scoped!Assign(e, hash, v)
    BY <2>3, SetStep
  <2>4. ASSUME NEW hash \in Symbols, NEW v \in Values, Define(hash, v) PROVE Scoped!Define(hash, v)
    BY <2>4, DefineStep
  <2> QED BY <2>1, <2>2, <2>3, <2>4
<1> HIDE DEF A
<1>3. Spec => Scoped!Init /\ [][A]_vars
  BY InvKept, <1>1, <1>2, PTL DEF Spec
<1> QED BY <1>3 DEF ImplementsScopes, A

==============================================================================
