------------------------------ MODULE Induction ------------------------------
(***************************************************************************)
(* Induction and recursion as facts about sets and functions: on the       *)
(* natural numbers, and along links, as those of the fragments of an       *)
(* environment and those from an environment to its parent.  A link leads  *)
(* from 1..L to 0..L, where 0 is the end, and to a place of a smaller      *)
(* rank.                                                                   *)
(***************************************************************************)
EXTENDS Integers, WellFoundedInduction, TLAPS

LEMMA SetMin == ASSUME NEW T \in SUBSET Nat, T # {} PROVE \E x \in T : \A y \in T : x <= y
<1> DEFINE R == {ss \in Nat \X Nat : ss[1] < ss[2]}
<1>1. IsWellFoundedOn(OpToRel(<, Nat), Nat)
  BY NatLessThanWellFounded
<1>2. OpToRel(<, Nat) = R
  BY DEF OpToRel
<1>3. \E x \in T : \A y \in T : ~ (<<y, x>> \in R)
  <2> HIDE DEF R
  <2> QED BY <1>1, <1>2, WFMin
<1>4. PICK x \in T : \A y \in T : ~ (<<y, x>> \in R)
  BY <1>3
<1>5. ASSUME NEW y \in T PROVE x <= y
  <2>1. x \in Nat /\ y \in Nat
    OBVIOUS
  <2>2. ~ (<<y, x>> \in R)
    BY <1>4
  <2>3. ~ (y < x)
    BY <2>1, <2>2
  <2> QED BY <2>1, <2>3
<1> QED BY <1>5

LEMMA SetInduction ==
    ASSUME NEW G \in SUBSET Nat, 0 \in G, \A n \in G : n + 1 \in G
    PROVE  G = Nat
<1> SUFFICES ASSUME Nat \ G # {} PROVE FALSE
  OBVIOUS
<1>1. PICK x \in Nat \ G : \A y \in Nat \ G : x <= y
  BY SetMin
<1>2. x # 0 /\ x - 1 \in Nat /\ x - 1 \in G
  BY <1>1
<1> QED BY <1>1, <1>2

LinksDown(nxt, L, rank) ==
    /\ \A f \in 1..L : nxt[f] \in 0..L /\ rank[nxt[f]] < rank[f]
    /\ \A f \in 0..L : rank[f] \in Nat

\* What holds at the end of the links, and of each place if of the next, holds everywhere.
LEMMA LinkInduction ==
    ASSUME NEW L \in Nat, NEW nxt, NEW rank, LinksDown(nxt, L, rank),
           NEW S, 0 \in S, \A f \in 1..L : nxt[f] \in S => f \in S
    PROVE  \A f \in 0..L : f \in S
<1> DEFINE T == {rank[f] : f \in (0..L) \ S}
<1> SUFFICES ASSUME T # {} PROVE FALSE
  OBVIOUS
<1>1. T \in SUBSET Nat
  BY DEF LinksDown
<1>2. PICK x \in T : \A y \in T : x <= y
  <2> HIDE DEF T
  <2> QED BY <1>1, SetMin
<1>3. PICK f \in (0..L) \ S : x = rank[f]
  BY <1>2
<1>4. f \in 1..L
  BY <1>3
<1>5. nxt[f] \in 0..L /\ rank[nxt[f]] < rank[f] /\ rank[nxt[f]] \in Nat /\ rank[f] \in Nat
  BY <1>4 DEF LinksDown
<1>6. nxt[f] \in (0..L) \ S
  BY <1>3, <1>4, <1>5
<1>7. rank[nxt[f]] \in T
  BY <1>6
<1> QED BY <1>2, <1>3, <1>5, <1>7

\* Of a recursion along the links: its result at the end, and how the result at each place
\* comes from the one at the next.
Recursion(L, W, base, step) == base \in W /\ \A f \in 1..L : step[f] \in [W -> W]

\* A function may be defined at each place from its value at the next.
LEMMA LinkRecursion ==
    ASSUME NEW L \in Nat, NEW nxt, NEW rank, LinksDown(nxt, L, rank),
           NEW W, NEW base, NEW step, Recursion(L, W, base, step)
    PROVE  \E g \in [0..L -> W] :
               g[0] = base /\ \A f \in 1..L : g[f] = step[f][g[nxt[f]]]
<1>0. base \in W /\ \A f \in 1..L : step[f] \in [W -> W]
  BY DEF Recursion
<1> DEFINE Low(n) == {f \in 0..L : f = 0 \/ rank[f] < n}
           P(g, n) == /\ g \in [Low(n) -> W]
                      /\ g[0] = base
                      /\ \A f \in Low(n) \ {0} : g[f] = step[f][g[nxt[f]]]
           G == {n \in Nat : \E g : P(g, n)}
<1>1. 0 \in G
  <2> DEFINE g == [f \in Low(0) |-> base]
  <2>1. Low(0) = {0}
    BY DEF LinksDown
  <2>2. P(g, 0)
    BY <1>0, <2>1
  <2> QED BY <2>2
<1>2. ASSUME NEW n \in G PROVE n + 1 \in G
  <2>n. n \in Nat
    BY <1>2
  <2>1. PICK g : P(g, n)
    BY <1>2
  <2>2. ASSUME NEW f \in Low(n + 1) \ {0} PROVE f \in 1..L /\ nxt[f] \in Low(n) /\ nxt[f] \in Low(n + 1)
    <3>1. f \in 1..L /\ rank[f] < n + 1
      OBVIOUS
    <3>2. nxt[f] \in 0..L /\ rank[nxt[f]] < rank[f] /\ rank[nxt[f]] \in Nat /\ rank[f] \in Nat
      BY <3>1 DEF LinksDown
    <3>3. rank[nxt[f]] < n /\ rank[nxt[f]] < n + 1
      BY <2>n, <3>1, <3>2
    <3> QED BY <3>1, <3>2, <3>3
  <2>3. Low(n) \subseteq Low(n + 1) /\ 0 \in Low(n)
    BY <2>n DEF LinksDown
  <2> DEFINE h == [f \in Low(n + 1) |-> IF f = 0 THEN base ELSE step[f][g[nxt[f]]]]
  <2>4. \A f \in Low(n) : h[f] = g[f]
    <3> HIDE DEF Low
    <3> QED BY <2>1, <2>3
  <2>5. \A f \in Low(n + 1) \ {0} : h[f] = step[f][h[nxt[f]]]
    <3> SUFFICES ASSUME NEW f \in Low(n + 1) \ {0} PROVE h[f] = step[f][h[nxt[f]]]
      OBVIOUS
    <3>1. h[f] = step[f][g[nxt[f]]]
      <4> HIDE DEF Low
      <4> QED OBVIOUS
    <3>2. h[nxt[f]] = g[nxt[f]]
      <4> HIDE DEF Low, h
      <4> QED BY <2>2, <2>4
    <3> HIDE DEF h
    <3> QED BY <3>1, <3>2
  <2>6. h \in [Low(n + 1) -> W]
    <3> SUFFICES ASSUME NEW f \in Low(n + 1), f # 0 PROVE step[f][g[nxt[f]]] \in W
      <4> HIDE DEF Low
      <4> QED BY <1>0
    <3>1. f \in 1..L /\ nxt[f] \in Low(n)
      BY <2>2
    <3>2. g[nxt[f]] \in W
      <4> HIDE DEF Low
      <4> QED BY <2>1, <3>1
    <3> QED BY <1>0, <3>1, <3>2
  <2>7. h[0] = base
    <3> HIDE DEF Low
    <3> QED BY <2>3
  <2>8. P(h, n + 1)
    <3> HIDE DEF h, Low
    <3> QED BY <2>5, <2>6, <2>7
  <2> HIDE DEF P
  <2> QED BY <2>n, <2>8
<1>3. G = Nat
  <2> HIDE DEF G
  <2>1. G \in SUBSET Nat
    BY DEF G
  <2> QED BY <1>1, <1>2, <2>1, SetInduction
<1>4. \E m \in Nat : \A f \in 0..L : rank[f] < m
  \* the ranks of the first i places have a bound
  <2> DEFINE H == {i \in Nat : i <= L => \E m \in Nat : \A f \in 0..i : rank[f] < m}
  <2>1. 0 \in H
    <3>1. rank[0] \in Nat
      BY DEF LinksDown
    <3>2. \A f \in 0..0 : rank[f] < rank[0] + 1
      BY <3>1
    <3> QED BY <3>1, <3>2
  <2>2. ASSUME NEW i \in H PROVE i + 1 \in H
    <3>1. SUFFICES ASSUME i + 1 <= L PROVE \E m \in Nat : \A f \in 0..i + 1 : rank[f] < m
      OBVIOUS
    <3>2. PICK m \in Nat : \A f \in 0..i : rank[f] < m
      BY <3>1
    <3>3. rank[i + 1] \in Nat
      BY <3>1 DEF LinksDown
    <3> DEFINE r == rank[i + 1]
               k == m + r + 1
    <3>4. k \in Nat /\ m <= k /\ r < k
      BY <3>3
    <3>5. \A f \in 0..i + 1 : f = i + 1 \/ f \in 0..i
      BY <2>2
    <3>6. ASSUME NEW f \in 0..i + 1 PROVE rank[f] < k
      <4>1. rank[f] \in Nat
        BY <3>1 DEF LinksDown
      <4> HIDE DEF k
      <4> QED BY <3>2, <3>4, <3>5, <4>1
    <3> HIDE DEF k
    <3> QED BY <3>4, <3>6
  <2>3. H = Nat
    <3> HIDE DEF H
    <3>1. H \in SUBSET Nat
      BY DEF H
    <3> QED BY <2>1, <2>2, <3>1, SetInduction
  <2> QED BY <2>3
<1>5. PICK m \in Nat : \A f \in 0..L : rank[f] < m
  BY <1>4
<1>6. PICK g : P(g, m)
  BY <1>3
<1>7. Low(m) = 0..L
  BY <1>5
<1>8. \A f \in 1..L : f \in Low(m) \ {0}
  BY <1>7
<1>9. g \in [0..L -> W] /\ g[0] = base
  <2> HIDE DEF Low
  <2> QED BY <1>6, <1>7
<1>10. \A f \in 1..L : g[f] = step[f][g[nxt[f]]]
  <2> HIDE DEF Low
  <2> QED BY <1>6, <1>8
<1> QED BY <1>9, <1>10
==============================================================================
