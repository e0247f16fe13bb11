---------------------------- MODULE Passes_proofs ----------------------------
(***************************************************************************)
(* Proofs about the passes over the instructions of a procedure: what the  *)
(* list is after each of their iterations, and that the code made of it    *)
(* does what the list said before them.                                    *)
(***************************************************************************)
EXTENDS Passes, Induction

-----------------------------------------------------------------------------
(* Lists as compile_form makes them, with the return.                      *)

Nop(l, i) == l[i].op = "NOP"

GoodList(l) ==
    /\ \E S : l \in Seq(S)
    /\ Len(l) >= 1 /\ l[Len(l)] = Insn("RETURN", 0, 0)
    /\ \A i \in 1..Len(l) - 1 :
          /\ l[i] = Insn(l[i].op, l[i].data, l[i].to)
          /\ l[i].op \in Opcodes
          /\ l[i].op \in {"BRANCH", "COND_BRANCH"} => l[i].to \in Nat
          /\ l[i].op = "BRANCH" => i + l[i].to \in i + 1..Len(l)
          /\ l[i].op = "COND_BRANCH" => /\ i + l[i].to \in i + 1..Len(l) - 1
                                        /\ l[i + l[i].to].op \notin {"NOP", "BRANCH"}
          /\ ~(Nop(l, i) /\ Nop(l, i + 1))

LEMMA ListsAreGood ==
    ASSUME NopsApart, NEW p \in Programs
    PROVE  GoodList(ListOf(p))
<1> DEFINE c == Compiled[p]
           r == Insn("RETURN", 0, 0)
           l == Append(c, r)
           S == {c[i] : i \in DOMAIN c}
           T == S \cup {r}
<1>1. c \in Seq(S) /\ Len(c) \in Nat /\ DOMAIN c = 1..Len(c)
  <2>1. c \in Seq(S)
    BY CompiledAssumption, Zenon DEF CompiledAssumption
  <2> HIDE DEF c, S
  <2> QED BY <2>1
<1>2. c \in Seq(T) /\ r \in T
  BY <1>1
<1> HIDE DEF S, T
<1>3. l \in Seq(T) /\ Len(l) = Len(c) + 1 /\ l[Len(c) + 1] = r /\ \A i \in 1..Len(c) : l[i] = c[i]
  BY <1>2
<1>4. \A i \in 1..Len(c) : /\ c[i] = Insn(c[i].op, c[i].data, c[i].to)
                           /\ c[i].op \in Opcodes
                           /\ c[i].op = "BRANCH" => c[i].to \in 1..Len(c) + 1 - i
                           /\ c[i].op = "COND_BRANCH" =>
                                  /\ c[i].to \in 1..Len(c) - i
                                  /\ c[i + c[i].to].op \notin {"NOP", "BRANCH"}
  BY <1>1, CompiledAssumption DEF CompiledAssumption
<1>5. \A i \in 1..Len(c) - 1 : ~(c[i].op = "NOP" /\ c[i + 1].op = "NOP")
  BY DEF NopsApart
<1>6. r.op = "RETURN"
  BY DEF Insn
<1> HIDE DEF c, l, r
<1>7. ASSUME NEW i \in 1..Len(l) - 1
      PROVE  /\ l[i] = Insn(l[i].op, l[i].data, l[i].to)
             /\ l[i].op \in Opcodes
             /\ l[i].op \in {"BRANCH", "COND_BRANCH"} => l[i].to \in Nat
             /\ l[i].op = "BRANCH" => i + l[i].to \in i + 1..Len(l)
             /\ l[i].op = "COND_BRANCH" => /\ i + l[i].to \in i + 1..Len(l) - 1
                                           /\ l[i + l[i].to].op \notin {"NOP", "BRANCH"}
             /\ ~(Nop(l, i) /\ Nop(l, i + 1))
  <2>1. i \in 1..Len(c) /\ l[i] = c[i]
    BY <1>1, <1>3
  <2>2. l[i].op = "BRANCH" => i + l[i].to \in i + 1..Len(l)
    BY <1>1, <1>3, <1>4, <2>1
  <2>3. ASSUME l[i].op = "COND_BRANCH"
        PROVE  /\ i + l[i].to \in i + 1..Len(l) - 1
               /\ l[i + l[i].to].op \notin {"NOP", "BRANCH"}
    <3>1. c[i].to \in 1..Len(c) - i /\ c[i + c[i].to].op \notin {"NOP", "BRANCH"}
      BY <1>4, <2>1, <2>3
    <3>2. i + c[i].to \in 1..Len(c)
      BY <1>1, <2>1, <3>1
    <3>3. l[i + c[i].to] = c[i + c[i].to]
      BY <1>3, <3>2
    <3> QED BY <1>1, <1>3, <2>1, <3>1, <3>2, <3>3
  <2>4. ~(Nop(l, i) /\ Nop(l, i + 1))
    <3>1. CASE i = Len(c)
      BY <1>3, <1>6, <3>1 DEF Nop
    <3>2. CASE i # Len(c)
      <4>1. i \in 1..Len(c) - 1 /\ i + 1 \in 1..Len(c)
        BY <1>1, <2>1, <3>2
      <4>2. l[i + 1] = c[i + 1]
        BY <1>3, <4>1
      <4> QED BY <1>5, <2>1, <4>1, <4>2 DEF Nop
    <3> QED BY <3>1, <3>2
  <2>5. l[i].op \in {"BRANCH", "COND_BRANCH"} => l[i].to \in Nat
    BY <1>4, <2>1
  <2> QED BY <1>4, <2>1, <2>2, <2>3, <2>4, <2>5
<1>8. ListOf(p) = l
  BY DEF ListOf, l, c, r
<1> HIDE DEF T
<1>9. Len(l) >= 1 /\ l[Len(l)] = r
  BY <1>1, <1>3
<1> QED BY <1>3, <1>7, <1>8, <1>9 DEF GoodList, r

\* What is used of a list, without its elements.
LEMMA GoodFacts ==
    ASSUME NEW l, GoodList(l)
    PROVE  /\ Len(l) \in Nat \ {0} /\ DOMAIN l = 1..Len(l)
           /\ l[Len(l)].op = "RETURN"
           /\ \A i \in 1..Len(l) : l[i].op = "RETURN" <=> i = Len(l)
           /\ \A i \in 1..Len(l) : Nop(l, i) => i + 1 \in 1..Len(l) /\ ~Nop(l, i + 1)
           /\ \A i \in 1..Len(l) : l[i].op = "BRANCH" => i + l[i].to \in i + 1..Len(l)
           /\ \A i \in 1..Len(l) : l[i].op = "COND_BRANCH" =>
                   i + l[i].to \in i + 1..Len(l) /\ l[i + l[i].to].op \notin {"NOP", "BRANCH", "RETURN"}
           /\ \A i \in 1..Len(l) : l[i] = Insn(l[i].op, l[i].data, l[i].to)
           /\ \A i \in 1..Len(l) : l[i].op \in Opcodes \cup {"RETURN"}
           /\ \A i \in 1..Len(l) : l[i].op \in {"BRANCH", "COND_BRANCH"} => l[i].to \in Nat
           /\ l = [i \in 1..Len(l) |-> l[i]]
<1>1. PICK S : l \in Seq(S)
  BY DEF GoodList
<1>2. Len(l) \in Nat /\ Len(l) >= 1 /\ DOMAIN l = 1..Len(l)
  BY <1>1 DEF GoodList
<1> DEFINE n == Len(l)
<1> HIDE DEF n
<1>11. n \in Nat /\ n >= 1
  BY <1>2 DEF n
<1>3. l[Len(l)] = Insn("RETURN", 0, 0) /\ l[Len(l)].op = "RETURN"
  BY DEF GoodList, Insn
<1>4. ASSUME NEW i \in 1..Len(l)
      PROVE  i = Len(l) \/ i \in 1..Len(l) - 1
  <2>1. i \in 1..n
    BY DEF n
  <2>2. i = n \/ i \in 1..n - 1
    BY <1>11, <2>1
  <2> QED BY <2>2 DEF n
<1>5. \A i \in 1..Len(l) - 1 : l[i].op \in Opcodes /\ l[i].op # "RETURN"
  BY DEF GoodList, Opcodes
<1>6. \A i \in 1..Len(l) : l[i].op = "RETURN" <=> i = Len(l)
  BY <1>3, <1>4, <1>5
<1>7. \A i \in 1..Len(l) : Nop(l, i) => i + 1 \in 1..Len(l) /\ ~Nop(l, i + 1)
  <2> SUFFICES ASSUME NEW i \in 1..Len(l), Nop(l, i) PROVE i + 1 \in 1..Len(l) /\ ~Nop(l, i + 1)
    OBVIOUS
  <2>1. i \in 1..Len(l) - 1
    BY <1>3, <1>4 DEF Nop
  <2> QED BY <1>2, <2>1 DEF GoodList
<1>8. \A i \in 1..Len(l) : l[i].op = "BRANCH" => i + l[i].to \in i + 1..Len(l)
  <2> SUFFICES ASSUME NEW i \in 1..Len(l), l[i].op = "BRANCH" PROVE i + l[i].to \in i + 1..Len(l)
    OBVIOUS
  <2>1. i \in 1..Len(l) - 1
    BY <1>3, <1>4
  <2> QED BY <2>1 DEF GoodList
<1>9. ASSUME NEW i \in 1..Len(l), l[i].op = "COND_BRANCH"
      PROVE  i + l[i].to \in i + 1..Len(l) /\ l[i + l[i].to].op \notin {"NOP", "BRANCH", "RETURN"}
  <2>1. i \in 1..Len(l) - 1
    BY <1>3, <1>4, <1>9
  <2> DEFINE t == i + l[i].to
  <2>2. t \in i + 1..Len(l) - 1 /\ l[t].op \notin {"NOP", "BRANCH"}
    BY <1>9, <2>1 DEF GoodList
  <2> HIDE DEF t
  <2>3. t \in 1..Len(l) - 1 /\ t \in i + 1..Len(l)
    BY <1>2, <2>2
  <2>4. l[t].op # "RETURN"
    BY <1>5, <2>3
  <2> QED BY <2>2, <2>3, <2>4 DEF t
<1>10. \A i \in 1..Len(l) : l[i] = Insn(l[i].op, l[i].data, l[i].to)
  <2> SUFFICES ASSUME NEW i \in 1..Len(l) PROVE l[i] = Insn(l[i].op, l[i].data, l[i].to)
    OBVIOUS
  <2>1. CASE i = Len(l)
    BY <1>3, <2>1 DEF Insn
  <2>2. CASE i \in 1..Len(l) - 1
    BY <2>2 DEF GoodList
  <2> QED BY <1>4, <2>1, <2>2
<1>12. \A i \in 1..Len(l) : l[i].op \in Opcodes \cup {"RETURN"}
  BY <1>3, <1>4, <1>5
<1>13. Len(l) \in Nat \ {0}
  BY <1>2
<1>14. l = [i \in 1..Len(l) |-> l[i]]
  BY <1>1
<1>15. \A i \in 1..Len(l) : l[i].op \in {"BRANCH", "COND_BRANCH"} => l[i].to \in Nat
  <2> SUFFICES ASSUME NEW i \in 1..Len(l), l[i].op \in {"BRANCH", "COND_BRANCH"} PROVE l[i].to \in Nat
    OBVIOUS
  <2>1. i \in 1..Len(l) - 1
    BY <1>3, <1>4
  <2> QED BY <2>1 DEF GoodList
<1> QED BY <1>2, <1>3, <1>6, <1>7, <1>8, <1>9, <1>10, <1>12, <1>13, <1>14, <1>15

\* Where an instruction leads that only leads on.
Onward(l, i) == IF Nop(l, i) THEN i + 1 ELSE IF l[i].op = "BRANCH" THEN i + l[i].to ELSE 0

LEMMA SettledIs ==
    ASSUME NEW l, GoodList(l)
    PROVE  \A i \in 1..Len(l) :
              /\ Settled(l)[i] \in i..Len(l)
              /\ Onward(l, i) = 0 => Settled(l)[i] = i
              /\ Onward(l, i) # 0 => Onward(l, i) \in i + 1..Len(l) /\ Settled(l)[i] = Settled(l)[Onward(l, i)]
<1> DEFINE n == Len(l)
           nxt == [i \in 1..n |-> Onward(l, i)]
           rank == [i \in 0..n |-> IF i = 0 THEN 0 ELSE n + 1 - i]
           body(g, i) == IF l[i].op = "NOP" THEN g[i + 1]
                         ELSE IF l[i].op = "BRANCH" THEN g[i + l[i].to] ELSE i
           go == CHOOSE g : g = [i \in 1..n |-> body(g, i)]
<1>1. n \in Nat \ {0}
  BY GoodFacts
<1>2. \A i \in 1..n : Onward(l, i) = 0 \/ Onward(l, i) \in i + 1..n
  <2> SUFFICES ASSUME NEW i \in 1..n PROVE Onward(l, i) = 0 \/ Onward(l, i) \in i + 1..n
    OBVIOUS
  <2>1. CASE Nop(l, i)
    <3>1. i + 1 \in 1..n
      BY <2>1, GoodFacts
    <3> QED BY <1>1, <2>1, <3>1 DEF Onward
  <2>2. CASE ~Nop(l, i) /\ l[i].op = "BRANCH"
    <3>1. i + l[i].to \in i + 1..n
      BY <2>2, GoodFacts
    <3> QED BY <2>2, <3>1 DEF Onward
  <2> QED BY <2>1, <2>2 DEF Onward
<1>3. \A g : \A i \in 1..n : body(g, i) = IF Onward(l, i) = 0 THEN i ELSE g[Onward(l, i)]
  <2> SUFFICES ASSUME NEW g, NEW i \in 1..n
               PROVE  body(g, i) = IF Onward(l, i) = 0 THEN i ELSE g[Onward(l, i)]
    OBVIOUS
  <2>1. CASE Nop(l, i)
    BY <1>1, <2>1 DEF Onward, Nop
  <2>2. CASE ~Nop(l, i) /\ l[i].op = "BRANCH"
    <3>1. i + l[i].to # 0
      BY <1>1, <2>2, GoodFacts
    <3> QED BY <2>2, <3>1 DEF Onward, Nop
  <2>3. CASE ~Nop(l, i) /\ l[i].op # "BRANCH"
    BY <2>3 DEF Onward, Nop
  <2> QED BY <2>1, <2>2, <2>3
<1>4. \E g : g = [i \in 1..n |-> body(g, i)]
  <2> DEFINE W == 0..n
             step == [i \in 1..n |-> [w \in W |-> IF nxt[i] = 0 THEN i ELSE w]]
  <2> HIDE DEF body
  <2>1. LinksDown(nxt, n, rank)
    <3>1. \A i \in 1..n : nxt[i] = 0 \/ nxt[i] \in i + 1..n
      BY <1>2
    <3> HIDE DEF nxt
    <3>2. ASSUME NEW i \in 1..n PROVE nxt[i] \in 0..n /\ rank[nxt[i]] < rank[i]
      BY <1>1, <3>1
    <3>3. \A i \in 0..n : rank[i] \in Nat
      BY <1>1
    <3> QED BY <3>2, <3>3 DEF LinksDown
  <2>2. Recursion(n, W, 0, step)
    BY <1>1 DEF Recursion
  <2>3. PICK g \in [0..n -> W] : g[0] = 0 /\ \A i \in 1..n : g[i] = step[i][g[nxt[i]]]
    <3> HIDE DEF nxt, rank, step, W
    <3> QED BY <1>1, <2>1, <2>2, LinkRecursion
  <2> DEFINE h == [i \in 1..n |-> g[i]]
  <2>4. \A i \in 1..n : h[i] = IF Onward(l, i) = 0 THEN i ELSE h[Onward(l, i)]
    <3> SUFFICES ASSUME NEW i \in 1..n PROVE h[i] = IF Onward(l, i) = 0 THEN i ELSE h[Onward(l, i)]
      OBVIOUS
    <3>1. nxt[i] = Onward(l, i) /\ nxt[i] \in 0..n
      BY <1>1, <1>2
    <3>2. g[nxt[i]] \in W
      BY <2>3, <3>1
    <3>3. h[i] = IF Onward(l, i) = 0 THEN i ELSE g[Onward(l, i)]
      <4> HIDE DEF nxt
      <4> QED BY <2>3, <3>1, <3>2
    <3>4. Onward(l, i) # 0 => Onward(l, i) \in 1..n
      BY <1>1, <1>2
    <3> QED BY <3>3, <3>4
  <2>5. \A i \in 1..n : h[i] = body(h, i)
    <3> HIDE DEF h
    <3> QED BY <1>3, <2>4
  <2>6. h = [i \in 1..n |-> body(h, i)]
    BY <2>5
  <2> QED BY <2>6
<1>5. go = [i \in 1..n |-> body(go, i)]
  <2> HIDE DEF body
  <2> QED BY <1>4
<1>6. Settled(l) = go
  BY DEF Settled
<1> HIDE DEF go
<1>7. \A i \in 1..n : go[i] = IF Onward(l, i) = 0 THEN i ELSE go[Onward(l, i)]
  <2>1. \A i \in 1..n : go[i] = body(go, i)
    <3> HIDE DEF body
    <3> QED BY <1>5
  <2> HIDE DEF body
  <2> QED BY <1>3, <2>1
<1> DEFINE G == {k \in Nat : \A i \in 1..n : i >= n - k => go[i] \in i..n}
<1>8. 0 \in G
  <2> SUFFICES ASSUME NEW i \in 1..n, i >= n PROVE go[i] \in i..n
    BY <1>1
  <2>1. i = n
    BY <1>1
  <2>2. Onward(l, n) = 0
    BY <1>1, <1>2
  <2> QED BY <1>1, <1>7, <2>1, <2>2
<1>9. ASSUME NEW k \in G PROVE k + 1 \in G
  <2> SUFFICES ASSUME NEW i \in 1..n, i >= n - (k + 1) PROVE go[i] \in i..n
    BY <1>9
  <2>1. CASE Onward(l, i) = 0
    BY <1>1, <1>7, <2>1
  <2>2. CASE Onward(l, i) # 0
    <3>1. Onward(l, i) \in i + 1..n
      BY <1>2, <2>2
    <3> DEFINE t == Onward(l, i)
    <3> HIDE DEF t
    <3>2. t \in 1..n /\ t >= n - k /\ t > i
      BY <1>1, <1>9, <3>1 DEF t
    <3>3. go[t] \in t..n
      BY <1>9, <3>2
    <3>4. go[i] = go[t]
      BY <1>7, <2>2 DEF t
    <3> QED BY <1>1, <3>2, <3>3, <3>4
  <2> QED BY <2>1, <2>2
<1>10. G = Nat
  <2> HIDE DEF G
  <2>1. G \in SUBSET Nat
    BY DEF G
  <2> QED BY <1>8, <1>9, <2>1, SetInduction
<1>11. \A i \in 1..n : go[i] \in i..n
  <2>1. n \in G
    BY <1>1, <1>10
  <2> QED BY <1>1, <2>1
<1> QED BY <1>2, <1>6, <1>7, <1>11
-----------------------------------------------------------------------------
(***************************************************************************)
(* What collapse_nops leaves when it has come to instruction c, which it   *)
(* looks at next: links over the nops after c, and branches led past them. *)
(***************************************************************************)
Relinked(l, c) == [i \in 1..Len(l) |-> IF i - 1 > c /\ Nop(l, i - 1) THEN i - 2 ELSE i - 1]

InList(l, c) == {i \in 1..Len(l) : i <= c \/ ~Nop(l, i)}

LEMMA LinksAre ==
    ASSUME NEW l, GoodList(l), NEW c \in Nat, NEW i \in InList(l, c)
    PROVE  /\ Relinked(l, c)[i] \in 0..i - 1
           /\ Relinked(l, c)[i] = 0 \/ Relinked(l, c)[i] \in InList(l, c)
           /\ \A j \in InList(l, c) : j < i => j <= Relinked(l, c)[i]
<1> DEFINE n == Len(l)
           r == Relinked(l, c)[i]
<1>1. n \in Nat /\ i \in 1..n
  BY GoodFacts DEF InList
<1>2. r = IF i - 1 > c /\ Nop(l, i - 1) THEN i - 2 ELSE i - 1
  BY <1>1 DEF Relinked
<1>3. \A j \in InList(l, c) : j \in 1..n /\ (j <= c \/ ~Nop(l, j))
  BY DEF InList
<1>4. \A j \in 1..n : j <= c \/ ~Nop(l, j) => j \in InList(l, c)
  BY DEF InList
<1>5. \A j \in 1..n : Nop(l, j) => j + 1 \in 1..n /\ ~Nop(l, j + 1)
  BY GoodFacts
<1> HIDE DEF r, n
<1>6. CASE i - 1 > c /\ Nop(l, i - 1)
  <2>1. r = i - 2 /\ i - 1 \in 1..n /\ i - 1 \notin InList(l, c)
    BY <1>1, <1>2, <1>3, <1>6
  <2>2. r \in 0..i - 1
    BY <1>1, <1>6, <2>1
  <2>3. ASSUME NEW j \in InList(l, c), j < i PROVE j <= r
    <3>1. j # i - 1 /\ j \in 1..n
      BY <1>3, <2>1
    <3> QED BY <1>1, <2>1, <2>3, <3>1
  <2>4. r = 0 \/ r \in InList(l, c)
    <3> SUFFICES ASSUME r # 0 PROVE r \in InList(l, c)
      OBVIOUS
    <3>1. r \in 1..n /\ r + 1 = i - 1
      BY <1>1, <2>1, <2>2
    <3>2. ~Nop(l, r)
      BY <1>5, <1>6, <3>1
    <3> QED BY <1>4, <3>1, <3>2
  <2> QED BY <2>2, <2>3, <2>4 DEF r
<1>7. CASE ~(i - 1 > c /\ Nop(l, i - 1))
  <2>1. r = i - 1
    BY <1>2, <1>7
  <2>2. r \in 0..i - 1
    BY <1>1, <2>1
  <2>3. ASSUME NEW j \in InList(l, c), j < i PROVE j <= r
    BY <1>1, <1>3, <2>1, <2>3
  <2>4. r = 0 \/ r \in InList(l, c)
    <3> SUFFICES ASSUME r # 0 PROVE r \in InList(l, c)
      OBVIOUS
    <3>1. r \in 1..n
      BY <1>1, <2>1
    <3> QED BY <1>1, <1>4, <1>7, <2>1, <3>1
  <2> QED BY <2>2, <2>3, <2>4 DEF r
<1> QED BY <1>6, <1>7

LEMMA LinkedIs ==
    ASSUME NEW l, GoodList(l), NEW c \in Nat, next = Relinked(l, c), Len(insns) = Len(l)
    PROVE  Linked = InList(l, c)
<1> DEFINE n == Len(l)
           L == InList(l, c)
           body(f, i) == IF i = 0 THEN {} ELSE {i} \cup f[next[i]]
           from == CHOOSE f : f = [i \in 0..n |-> body(f, i)]
           rank == [i \in 0..n |-> i]
           W == SUBSET Nat
<1>1. n \in Nat /\ n # 0
  BY GoodFacts
<1>2. \A i \in 1..n : next[i] \in 0..i - 1
  <2> SUFFICES ASSUME NEW i \in 1..n PROVE next[i] \in 0..i - 1
    OBVIOUS
  <2>1. next[i] = IF i - 1 > c /\ Nop(l, i - 1) THEN i - 2 ELSE i - 1
    BY DEF Relinked
  <2> QED BY <2>1
<1>3. \E f : f = [i \in 0..n |-> body(f, i)]
  <2> DEFINE step == [i \in 1..n |-> [w \in W |-> {i} \cup w]]
  <2>1. LinksDown(next, n, rank)
    BY <1>1, <1>2 DEF LinksDown
  <2>2. Recursion(n, W, {}, step)
    BY <1>1 DEF Recursion
  <2>3. PICK f \in [0..n -> W] : f[0] = {} /\ \A i \in 1..n : f[i] = step[i][f[next[i]]]
    <3> HIDE DEF rank, step, W
    <3> QED BY <1>1, <2>1, <2>2, LinkRecursion
  <2>4. ASSUME NEW i \in 0..n PROVE f[i] = body(f, i)
    <3>1. CASE i = 0
      BY <2>3, <3>1
    <3>2. CASE i # 0
      <4>1. i \in 1..n /\ next[i] \in 0..n
        BY <1>1, <1>2, <3>2
      <4>2. f[next[i]] \in W
        BY <2>3, <4>1
      <4>3. step[i][f[next[i]]] = {i} \cup f[next[i]]
        <5> HIDE DEF W
        <5> QED BY <4>1, <4>2
      <4> HIDE DEF step
      <4> QED BY <2>3, <3>2, <4>1, <4>3
    <3> QED BY <3>1, <3>2
  <2> HIDE DEF body
  <2>5. f = [i \in 0..n |-> body(f, i)]
    BY <2>3, <2>4
  <2> QED BY <2>5
<1>4. from = [i \in 0..n |-> body(from, i)]
  <2> HIDE DEF body
  <2> QED BY <1>3
<1>5. Linked = from[n]
  BY DEF Linked
<1> HIDE DEF from
<1>6. \A i \in 0..n : from[i] = body(from, i)
  <2> HIDE DEF body
  <2> QED BY <1>4
<1> DEFINE Upto(i) == {j \in L : j <= i}
           G == {k \in Nat : \A i \in 0..n : i <= k /\ (i = 0 \/ i \in L) => from[i] = Upto(i)}
<1>7. L \subseteq 1..n
  BY DEF InList
<1> HIDE DEF L
<1>8. 0 \in G
  <2>1. Upto(0) = {}
    <3>1. \A j \in L : ~(j <= 0)
      BY <1>1, <1>7
    <3> QED BY <3>1
  <2> QED BY <1>1, <1>6, <2>1
<1>9. ASSUME NEW k \in G PROVE k + 1 \in G
  <2> SUFFICES ASSUME NEW i \in 0..n, i <= k + 1, i = 0 \/ i \in L PROVE from[i] = Upto(i)
    BY <1>9
  <2>1. CASE i <= k
    BY <1>9, <2>1
  <2>2. CASE ~(i <= k)
    <3> DEFINE r == next[i]
    <3>1. i = k + 1 /\ k \in Nat /\ i \in L
      BY <1>9, <2>2
    <3>2. /\ r \in 0..i - 1 /\ (r = 0 \/ r \in L) /\ \A j \in L : j < i => j <= r
      BY <3>1, LinksAre DEF L
    <3> HIDE DEF r
    <3>3. r \in 0..n /\ r <= k
      BY <1>1, <3>1, <3>2
    <3>4. from[r] = Upto(r)
      BY <1>9, <3>2, <3>3
    <3>5. Upto(i) = {i} \cup Upto(r)
      <4>1. \A j \in L : j <= i <=> j = i \/ j <= r
        BY <1>1, <1>7, <3>1, <3>2
      <4> QED BY <3>1, <4>1
    <3>6. from[i] = {i} \cup from[r]
      <4>1. from[i] = body(from, i)
        <5> HIDE DEF body
        <5> QED BY <1>6
      <4>2. i # 0
        BY <3>1
      <4> QED BY <4>1, <4>2 DEF r
    <3> QED BY <3>4, <3>5, <3>6
  <2> QED BY <2>1, <2>2
<1>10. G = Nat
  <2> HIDE DEF G
  <2>1. G \in SUBSET Nat
    BY DEF G
  <2> QED BY <1>8, <1>9, <2>1, SetInduction
<1>11. n \in L
  <2>1. ~Nop(l, n)
    BY GoodFacts DEF Nop
  <2> QED BY <1>1, <2>1 DEF L, InList
<1>12. from[n] = Upto(n)
  <2>1. n \in G
    BY <1>1, <1>10
  <2> QED BY <1>1, <1>11, <2>1
<1>13. Upto(n) = L
  <2>1. \A j \in L : j <= n
    BY <1>1, <1>7
  <2> QED BY <2>1
<1> QED BY <1>5, <1>12, <1>13 DEF L
-----------------------------------------------------------------------------
(***************************************************************************)
(* The code of a list whose nops are taken out: where its instructions     *)
(* are, and which one follows another.                                     *)
(***************************************************************************)
LEMMA SizeIsNat == \A op : Size(op) \in Nat
BY DEF Size

Kept(l) == InList(l, 0)

OffsetsFit(off, l, ins) ==
    /\ \A i \in Kept(l) : off[i] \in Nat
    /\ \A i, j \in Kept(l) : i < j => off[i] + 1 + Size(ins[i].op) <= off[j]
    /\ \A i, j \in Kept(l) : Relinked(l, 0)[j] = i => off[j] = off[i] + 1 + Size(ins[i].op)
    /\ \A j \in Kept(l) : Relinked(l, 0)[j] = 0 => off[j] = 0

LEMMA OffsetsAre ==
    ASSUME NEW l, GoodList(l), next = Relinked(l, 0), Len(insns) = Len(l), DOMAIN insns = 1..Len(l)
    PROVE  OffsetsFit(Offsets, l, insns)
<1> DEFINE n == Len(l)
           L == Kept(l)
           size(i) == 1 + Size(insns[i].op)
           body(f, i) == IF i = 0 THEN 0 ELSE f[next[i]] + 1 + Size(insns[i].op)
           after == CHOOSE f : f = [i \in 0..n |-> body(f, i)]
           rank == [i \in 0..n |-> i]
<1>1. n \in Nat /\ n # 0
  BY GoodFacts
<1>2. \A i \in 1..n : next[i] \in 0..i - 1
  <2> SUFFICES ASSUME NEW i \in 1..n PROVE next[i] \in 0..i - 1
    OBVIOUS
  <2>1. next[i] = IF i - 1 > 0 /\ Nop(l, i - 1) THEN i - 2 ELSE i - 1
    BY DEF Relinked
  <2> QED BY <2>1
<1>3. \E f : f = [i \in 0..n |-> body(f, i)] /\ \A i \in 0..n : f[i] \in Nat
  <2> DEFINE step == [i \in 1..n |-> [w \in Nat |-> w + 1 + Size(insns[i].op)]]
  <2>1. LinksDown(next, n, rank)
    BY <1>1, <1>2 DEF LinksDown
  <2>2. Recursion(n, Nat, 0, step)
    <3>1. ASSUME NEW i \in 1..n PROVE step[i] \in [Nat -> Nat]
      <4>1. Size(insns[i].op) \in Nat
        BY SizeIsNat
      <4> QED BY <4>1
    <3> QED BY <3>1 DEF Recursion
  <2>3. PICK f \in [0..n -> Nat] : f[0] = 0 /\ \A i \in 1..n : f[i] = step[i][f[next[i]]]
    <3> DEFINE W == Nat
    <3>1. Recursion(n, W, 0, step)
      BY <2>2
    <3> HIDE DEF rank, step, W
    <3>2. \E f \in [0..n -> W] : f[0] = 0 /\ \A i \in 1..n : f[i] = step[i][f[next[i]]]
      BY <1>1, <2>1, <3>1, LinkRecursion
    <3> QED BY <3>2 DEF W
  <2>4. ASSUME NEW i \in 0..n PROVE f[i] = body(f, i)
    <3>1. CASE i = 0
      BY <2>3, <3>1
    <3>2. CASE i # 0
      <4>1. i \in 1..n /\ next[i] \in 0..n
        BY <1>1, <1>2, <3>2
      <4>2. f[next[i]] \in Nat
        BY <2>3, <4>1
      <4>3. step[i][f[next[i]]] = f[next[i]] + 1 + Size(insns[i].op)
        BY <4>1, <4>2
      <4> HIDE DEF step
      <4> QED BY <2>3, <3>2, <4>1, <4>3
    <3> QED BY <3>1, <3>2
  <2> HIDE DEF body
  <2>5. f = [i \in 0..n |-> body(f, i)]
    BY <2>3, <2>4
  <2> QED BY <2>3, <2>5
<1>4. after = [i \in 0..n |-> body(after, i)]
  <2> HIDE DEF body
  <2> QED BY <1>3
<1>5. Linked = L
  BY LinkedIs DEF Kept
<1>6. Offsets = [i \in 1..n |-> IF i \in L THEN after[next[i]] ELSE 0]
  BY <1>5 DEF Offsets
<1> HIDE DEF after
<1>7. \A i \in 0..n : after[i] = body(after, i)
  <2> HIDE DEF body
  <2> QED BY <1>4
<1> DEFINE N == {k \in Nat : \A i \in 0..n : i <= k => after[i] \in Nat}
<1>8. \A i \in 0..n : after[i] \in Nat
  <2>1. 0 \in N
    BY <1>1, <1>7
  <2>2. ASSUME NEW k \in N PROVE k + 1 \in N
    <3> SUFFICES ASSUME NEW i \in 0..n, i <= k + 1 PROVE after[i] \in Nat
      BY <2>2
    <3>1. CASE i = 0
      BY <1>7, <3>1
    <3>2. CASE i # 0
      <4>1. next[i] \in 0..n /\ next[i] <= k
        BY <1>1, <1>2, <2>2, <3>2
      <4>2. after[next[i]] \in Nat
        BY <2>2, <4>1
      <4>3. after[i] = body(after, i)
        BY <1>7
      <4> QED BY <3>2, <4>2, <4>3, SizeIsNat
    <3> QED BY <3>1, <3>2
  <2>3. N = Nat
    <3> HIDE DEF N
    <3>1. N \in SUBSET Nat
      BY DEF N
    <3> QED BY <2>1, <2>2, <3>1, SetInduction
  <2> QED BY <1>1, <2>3
<1>9. L \subseteq 1..n
  BY DEF Kept, InList
<1>10. \A i \in L : next[i] \in 0..i - 1 /\ next[i] \in 0..n
  BY <1>1, <1>2, <1>9
<1>11. \A i \in L : Offsets[i] = after[next[i]] /\ Offsets[i] \in Nat
  BY <1>6, <1>8, <1>9, <1>10
<1>12. \A i \in L : after[i] = Offsets[i] + size(i)
  <2> SUFFICES ASSUME NEW i \in L PROVE after[i] = Offsets[i] + size(i)
    OBVIOUS
  <2>1. i \in 0..n /\ i # 0
    BY <1>1, <1>9
  <2>2. after[i] = body(after, i)
    BY <1>7, <2>1
  <2>3. Size(insns[i].op) \in Nat /\ Offsets[i] = after[next[i]] /\ Offsets[i] \in Nat
    BY <1>11, SizeIsNat
  <2> QED BY <2>1, <2>2, <2>3
<1>13. after[0] = 0
  BY <1>1, <1>7
<1>14. \A i, j \in L : Relinked(l, 0)[j] = i => Offsets[j] = Offsets[i] + 1 + Size(insns[i].op)
  <2> SUFFICES ASSUME NEW i \in L, NEW j \in L, Relinked(l, 0)[j] = i
               PROVE  Offsets[j] = Offsets[i] + 1 + Size(insns[i].op)
    OBVIOUS
  <2>1. Offsets[j] = after[i]
    BY <1>11
  <2>2. after[i] = Offsets[i] + (1 + Size(insns[i].op)) /\ Offsets[i] \in Nat
    BY <1>11, <1>12
  <2>3. Size(insns[i].op) \in Nat
    BY SizeIsNat
  <2> HIDE DEF size, body
  <2> QED BY <2>1, <2>2, <2>3
<1>15. \A j \in L : Relinked(l, 0)[j] = 0 => Offsets[j] = 0
  BY <1>11, <1>13
<1> HIDE DEF after, body
<1> DEFINE off == Offsets
           G == {k \in Nat : \A j \in L : j <= k => \A i \in L : i < j => off[i] + size(i) <= off[j]}
<1> HIDE DEF L, off, size
<1>16. 0 \in G
  BY <1>1, <1>9
<1>17. ASSUME NEW k \in G PROVE k + 1 \in G
  <2> SUFFICES ASSUME NEW j \in L, j <= k + 1, NEW i \in L, i < j PROVE off[i] + size(i) <= off[j]
    BY <1>17
  <2>1. k \in Nat /\ i \in 1..n /\ j \in 1..n
    BY <1>9, <1>17
  <2> DEFINE r == next[j]
  <2>2. r \in 0..j - 1 /\ (r = 0 \/ r \in L) /\ i <= r
    BY LinksAre DEF L, Kept
  <2>3. r \in L /\ r <= k
    BY <1>1, <2>1, <2>2
  <2>4. off[j] = off[r] + size(r)
    <3>1. Offsets[j] = Offsets[r] + 1 + Size(insns[r].op)
      BY <1>14, <2>3
    <3>2. Size(insns[r].op) \in Nat /\ Offsets[r] \in Nat
      BY <1>11, <2>3, SizeIsNat
    <3> HIDE DEF r
    <3> QED BY <3>1, <3>2 DEF off, size
  <2> HIDE DEF r
  <2>5. size(i) \in Nat /\ size(r) \in Nat
    BY SizeIsNat DEF size
  <2>6. off[i] \in Nat /\ off[r] \in Nat /\ off[j] \in Nat
    BY <1>11, <2>3 DEF off
  <2>7. CASE i = r
    BY <2>4, <2>6, <2>7
  <2>8. CASE i # r
    <3>1. i < r
      BY <2>1, <2>2, <2>8
    <3>2. off[i] + size(i) <= off[r]
      BY <1>17, <2>3, <3>1
    <3> QED BY <2>4, <2>5, <2>6, <3>2
  <2> QED BY <2>7, <2>8
<1>18. G = Nat
  <2> HIDE DEF G
  <2>1. G \in SUBSET Nat
    BY DEF G
  <2> QED BY <1>16, <1>17, <2>1, SetInduction
<1>19. \A i, j \in L : i < j => off[i] + size(i) <= off[j]
  <2> SUFFICES ASSUME NEW i \in L, NEW j \in L, i < j PROVE off[i] + size(i) <= off[j]
    OBVIOUS
  <2>1. j \in Nat
    BY <1>9
  <2>2. j \in G
    BY <1>18, <2>1
  <2> QED BY <2>1, <2>2
<1>20. \A i, j \in L : i < j => Offsets[i] + 1 + Size(insns[i].op) <= Offsets[j]
  <2> SUFFICES ASSUME NEW i \in L, NEW j \in L, i < j
               PROVE  Offsets[i] + 1 + Size(insns[i].op) <= Offsets[j]
    OBVIOUS
  <2>1. Offsets[i] + (1 + Size(insns[i].op)) <= Offsets[j]
    BY <1>19 DEF off, size
  <2> QED BY <1>11, <2>1, SizeIsNat
<1> QED BY <1>11, <1>14, <1>15, <1>20 DEF OffsetsFit, L
-----------------------------------------------------------------------------
\* The instruction that is linked after another one, and the first one.
LEMMA NextKept ==
    ASSUME NEW l, GoodList(l), NEW i \in Kept(l), i # Len(l)
    PROVE  \E j \in Kept(l) : i < j /\ Relinked(l, 0)[j] = i /\ Settled(l)[j] = Settled(l)[i + 1]
<1> DEFINE n == Len(l)
<1> HIDE DEF n
<1>1. n \in Nat /\ i \in 1..n /\ ~Nop(l, i) /\ i # n
  <2>1. Len(l) \in Nat /\ i \in 1..Len(l) /\ ~Nop(l, i)
    BY GoodFacts DEF Kept, InList
  <2> QED BY <2>1 DEF n
<1>2. \A j \in 1..n : Nop(l, j) => j + 1 \in 1..n /\ ~Nop(l, j + 1)
  BY GoodFacts DEF n
<1>3. \A j \in 1..n : ~Nop(l, j) => j \in Kept(l)
  BY DEF Kept, InList, n
<1>4. \A j \in 1..n : Relinked(l, 0)[j] = IF j - 1 > 0 /\ Nop(l, j - 1) THEN j - 2 ELSE j - 1
  BY DEF Relinked, n
<1>5. i + 1 \in 1..n
  BY <1>1
<1>6. CASE Nop(l, i + 1)
  <2>1. i + 2 \in 1..n /\ ~Nop(l, i + 2)
    <3>1. (i + 1) + 1 = i + 2
      BY <1>1
    <3> QED BY <1>2, <1>5, <1>6, <3>1
  <2>2. Relinked(l, 0)[i + 2] = i
    <3>1. (i + 2) - 1 = i + 1 /\ (i + 2) - 2 = i /\ i + 1 > 0
      BY <1>1
    <3> QED BY <1>4, <1>6, <2>1, <3>1
  <2>3. Settled(l)[i + 1] = Settled(l)[i + 2]
    <3>1. Onward(l, i + 1) = i + 2 /\ i + 2 # 0
      BY <1>1, <1>6 DEF Onward
    <3>2. i + 1 \in 1..Len(l)
      BY <1>5 DEF n
    <3> QED BY <3>1, <3>2, SettledIs
  <2>4. i < i + 2
    BY <1>1
  <2> QED BY <1>3, <2>1, <2>2, <2>3, <2>4
<1>7. CASE ~Nop(l, i + 1)
  <2>1. Relinked(l, 0)[i + 1] = i
    <3>1. (i + 1) - 1 = i
      BY <1>1
    <3> QED BY <1>1, <1>4, <1>5, <3>1
  <2>2. i < i + 1
    BY <1>1
  <2> QED BY <1>3, <1>5, <1>7, <2>1, <2>2
<1> QED BY <1>6, <1>7

LEMMA FirstKept ==
    ASSUME NEW l, GoodList(l)
    PROVE  \E j \in Kept(l) : Relinked(l, 0)[j] = 0 /\ Settled(l)[j] = Settled(l)[1]
<1>1. Len(l) \in Nat /\ 1 \in 1..Len(l)
  BY GoodFacts
<1>2. \A j \in 1..Len(l) : ~Nop(l, j) => j \in Kept(l)
  BY DEF Kept, InList
<1>3. \A j \in 1..Len(l) : Relinked(l, 0)[j] = IF j - 1 > 0 /\ Nop(l, j - 1) THEN j - 2 ELSE j - 1
  BY DEF Relinked
<1>4. CASE Nop(l, 1)
  <2>1. 2 \in 1..Len(l) /\ ~Nop(l, 2)
    <3>1. 1 + 1 \in 1..Len(l) /\ ~Nop(l, 1 + 1)
      BY <1>1, <1>4, GoodFacts
    <3> QED BY <3>1
  <2>2. Relinked(l, 0)[2] = 0
    <3>1. Nop(l, 2 - 1)
      BY <1>4
    <3> QED BY <1>3, <2>1, <3>1
  <2>3. Settled(l)[1] = Settled(l)[2]
    <3>1. Onward(l, 1) = 2
      BY <1>4 DEF Onward
    <3> QED BY <1>1, <3>1, SettledIs
  <2> QED BY <1>2, <2>1, <2>2, <2>3
<1>5. CASE ~Nop(l, 1)
  BY <1>1, <1>2, <1>3, <1>5
<1> QED BY <1>4, <1>5

\* No two are linked after one.
LEMMA NextIsOne ==
    ASSUME NEW l, GoodList(l), NEW i \in Kept(l), NEW j \in Kept(l),
           Relinked(l, 0)[i] = Relinked(l, 0)[j]
    PROVE  i = j
<1>1. i \in Nat /\ j \in Nat
  BY GoodFacts DEF Kept, InList
<1>2. Relinked(l, 0)[i] \in 0..i - 1 /\ Relinked(l, 0)[j] \in 0..j - 1
  BY LinksAre DEF Kept
<1>3. (i < j => i <= Relinked(l, 0)[j]) /\ (j < i => j <= Relinked(l, 0)[i])
  BY LinksAre DEF Kept
<1> QED BY <1>1, <1>2, <1>3
-----------------------------------------------------------------------------
(***************************************************************************)
(* What the instructions are when a pass has come to instruction c.        *)
(***************************************************************************)
Branching(l, i) == l[i].op \in {"BRANCH", "COND_BRANCH"}

\* Where a branch to t leads when the nops after c are taken out.
Past(l, c, t) == IF t > c /\ Nop(l, t) THEN t + 1 ELSE t

Collapsed(l, c) ==
    [i \in 1..Len(l) |->
        IF Branching(l, i) THEN Insn(l[i].op, l[i].data, Past(l, c, i + l[i].to) - i) ELSE l[i]]

Eliminated(l, c) ==
    [i \in 1..Len(l) |->
        IF i > c /\ l[i].op = "BRANCH" /\ Settled(l)[i] = Len(l) THEN Insn("RETURN", 0, 0)
        ELSE Collapsed(l, 0)[i]]

Promoted(l) ==
    [i \in 1..Len(l) |->
        IF l[i].op = "CALL" /\ Settled(l)[i + 1] = Len(l) THEN Insn("TAILCALL", l[i].data, l[i].to)
        ELSE Eliminated(l, 0)[i]]

LEMMA PastKept ==
    ASSUME NEW l, GoodList(l), NEW t \in 1..Len(l)
    PROVE  /\ Past(l, 0, t) \in Kept(l) /\ Past(l, 0, t) \in t..Len(l)
           /\ Settled(l)[Past(l, 0, t)] = Settled(l)[t]
           /\ ~Nop(l, t) => Past(l, 0, t) = t
<1>1. Len(l) \in Nat
  BY GoodFacts
<1>2. CASE Nop(l, t)
  <2>1. t + 1 \in 1..Len(l) /\ ~Nop(l, t + 1)
    BY <1>2, GoodFacts
  <2>2. Past(l, 0, t) = t + 1
    BY <1>1, <1>2 DEF Past
  <2>3. t + 1 \in Kept(l) /\ t + 1 \in t..Len(l)
    BY <1>1, <2>1 DEF Kept, InList
  <2>4. Onward(l, t) = t + 1 /\ t + 1 # 0
    BY <1>1, <1>2 DEF Onward
  <2>5. Settled(l)[t] = Settled(l)[t + 1]
    BY <2>4, SettledIs
  <2> QED BY <1>2, <2>2, <2>3, <2>5
<1>3. CASE ~Nop(l, t)
  <2>1. Past(l, 0, t) = t
    BY <1>3 DEF Past
  <2>2. t \in Kept(l) /\ t \in t..Len(l)
    BY <1>1, <1>3 DEF Kept, InList
  <2> QED BY <2>1, <2>2
<1> QED BY <1>2, <1>3

\* The instructions that only lead on, and the others, by where they lead.
LEMMA SettledFacts ==
    ASSUME NEW l, GoodList(l), NEW i \in Kept(l)
    PROVE  /\ i \in 1..Len(l)
           /\ l[i].op # "BRANCH" => Settled(l)[i] = i
           /\ l[i].op = "BRANCH" => Settled(l)[i] = Settled(l)[i + l[i].to]
<1>1. i \in 1..Len(l) /\ ~Nop(l, i)
  BY GoodFacts DEF Kept, InList
<1>2. l[i].op # "BRANCH" => Settled(l)[i] = i
  <2>1. l[i].op # "BRANCH" => Onward(l, i) = 0
    BY <1>1 DEF Onward
  <2> QED BY <1>1, <2>1, SettledIs
<1>3. l[i].op = "BRANCH" => Settled(l)[i] = Settled(l)[i + l[i].to]
  <2> SUFFICES ASSUME l[i].op = "BRANCH" PROVE Settled(l)[i] = Settled(l)[i + l[i].to]
    OBVIOUS
  <2>1. Onward(l, i) = i + l[i].to
    BY <1>1 DEF Onward
  <2>2. i + l[i].to # 0
    <3>1. i + l[i].to \in i + 1..Len(l)
      BY <1>1, GoodFacts
    <3> QED BY <1>1, <3>1
  <2> QED BY <1>1, <2>1, <2>2, SettledIs
<1> QED BY <1>1, <1>2, <1>3

\* An instruction of the list when all branches before c are as they were.
LEMMA EliminatedIs ==
    ASSUME NEW l, GoodList(l), NEW c \in Nat, NEW i \in Kept(l)
    PROVE  LET e == Eliminated(l, c)[i]
               t == Past(l, 0, i + l[i].to)
           IN  /\ l[i].op = "BRANCH" =>
                      /\ t \in Kept(l) /\ t \in i + 1..Len(l) /\ Settled(l)[t] = Settled(l)[i]
                      /\ e = IF i > c /\ Settled(l)[i] = Len(l) THEN Insn("RETURN", 0, 0)
                             ELSE Insn("BRANCH", l[i].data, t - i)
               /\ l[i].op = "COND_BRANCH" =>
                      /\ t \in Kept(l) /\ t \in i + 1..Len(l) /\ t = i + l[i].to
                      /\ l[t].op \notin {"NOP", "BRANCH", "RETURN"}
                      /\ e = Insn("COND_BRANCH", l[i].data, t - i)
               /\ l[i].op \notin {"BRANCH", "COND_BRANCH"} => e = l[i]
<1> DEFINE t == Past(l, 0, i + l[i].to)
           e == Eliminated(l, c)[i]
           n == Len(l)
<1>1. i \in 1..n /\ n \in Nat
  BY GoodFacts, SettledFacts
<1>2. Collapsed(l, 0)[i] = IF Branching(l, i) THEN Insn(l[i].op, l[i].data, t - i) ELSE l[i]
  BY <1>1 DEF Collapsed
<1>3. e = IF i > c /\ l[i].op = "BRANCH" /\ Settled(l)[i] = n THEN Insn("RETURN", 0, 0)
          ELSE Collapsed(l, 0)[i]
  BY <1>1 DEF Eliminated
<1> HIDE DEF e
<1>4. ASSUME Branching(l, i) PROVE t \in Kept(l) /\ t \in i + 1..n /\ i + l[i].to \in i + 1..n
                                   /\ Settled(l)[t] = Settled(l)[i + l[i].to]
                                   /\ (~Nop(l, i + l[i].to) => t = i + l[i].to)
  <2> DEFINE u == i + l[i].to
  <2>1. u \in i + 1..n
    BY <1>1, <1>4, GoodFacts DEF Branching
  <2> HIDE DEF u
  <2>2. u \in 1..n
    BY <1>1, <2>1
  <2>3. Past(l, 0, u) \in Kept(l) /\ Past(l, 0, u) \in u..n /\ Settled(l)[Past(l, 0, u)] = Settled(l)[u]
        /\ (~Nop(l, u) => Past(l, 0, u) = u)
    BY <2>2, PastKept
  <2>4. Past(l, 0, u) \in i + 1..n
    BY <1>1, <2>1, <2>3
  <2> QED BY <2>1, <2>3, <2>4 DEF u
<1>5. ASSUME l[i].op = "BRANCH"
      PROVE  /\ t \in Kept(l) /\ t \in i + 1..n /\ Settled(l)[t] = Settled(l)[i]
             /\ e = IF i > c /\ Settled(l)[i] = n THEN Insn("RETURN", 0, 0)
                    ELSE Insn("BRANCH", l[i].data, t - i)
  <2>1. Branching(l, i)
    BY <1>5 DEF Branching
  <2>2. Settled(l)[i] = Settled(l)[i + l[i].to]
    BY <1>5, SettledFacts
  <2>3. t \in Kept(l) /\ t \in i + 1..n /\ Settled(l)[t] = Settled(l)[i]
    BY <1>4, <2>1, <2>2
  <2> HIDE DEF t
  <2> QED BY <1>2, <1>3, <1>5, <2>1, <2>3
<1>6. ASSUME l[i].op = "COND_BRANCH"
      PROVE  /\ t \in Kept(l) /\ t \in i + 1..n /\ t = i + l[i].to
             /\ l[t].op \notin {"NOP", "BRANCH", "RETURN"}
             /\ e = Insn("COND_BRANCH", l[i].data, t - i)
  <2>1. Branching(l, i)
    BY <1>6 DEF Branching
  <2>2. l[i + l[i].to].op \notin {"NOP", "BRANCH", "RETURN"}
    BY <1>1, <1>6, GoodFacts
  <2>3. t = i + l[i].to
    BY <1>4, <2>1, <2>2 DEF Nop
  <2>4. t \in Kept(l) /\ t \in i + 1..n
    BY <1>4, <2>1
  <2>5. l[t].op \notin {"NOP", "BRANCH", "RETURN"}
    BY <2>2, <2>3
  <2> HIDE DEF t
  <2> QED BY <1>2, <1>3, <1>6, <2>1, <2>3, <2>4, <2>5
<1>7. l[i].op \notin {"BRANCH", "COND_BRANCH"} => e = l[i]
  BY <1>2, <1>3 DEF Branching
<1> QED BY <1>5, <1>6, <1>7 DEF e, t, n

\* The instructions that are returns.
LEMMA ReturnsAre ==
    ASSUME NEW l, GoodList(l), NEW c \in Nat, NEW i \in Kept(l), i > c
    PROVE  Eliminated(l, c)[i].op = "RETURN" <=> Settled(l)[i] = Len(l)
<1>1. i \in 1..Len(l) /\ (l[i].op = "RETURN" <=> i = Len(l))
  BY GoodFacts, SettledFacts
<1> DEFINE e == Eliminated(l, c)[i]
           t == Past(l, 0, i + l[i].to)
<1>5. /\ l[i].op = "BRANCH" => e = IF i > c /\ Settled(l)[i] = Len(l) THEN Insn("RETURN", 0, 0)
                                   ELSE Insn("BRANCH", l[i].data, t - i)
      /\ l[i].op = "COND_BRANCH" => e = Insn("COND_BRANCH", l[i].data, t - i)
  BY EliminatedIs
<1> HIDE DEF e, t
<1>6. \A op, d, to : Insn(op, d, to).op = op
  BY DEF Insn
<1>2. CASE l[i].op = "BRANCH"
  <2>1. CASE Settled(l)[i] = Len(l)
    BY <1>2, <1>5, <1>6, <2>1 DEF e
  <2>2. CASE Settled(l)[i] # Len(l)
    <3>1. e = Insn("BRANCH", l[i].data, t - i)
      BY <1>2, <1>5, <2>2
    <3>2. e.op = "BRANCH"
      BY <1>6, <3>1
    <3> QED BY <2>2, <3>2 DEF e
  <2> QED BY <2>1, <2>2
<1>3. CASE l[i].op = "COND_BRANCH"
  <2>1. Eliminated(l, c)[i].op = "COND_BRANCH"
    BY <1>3, <1>5, <1>6 DEF e
  <2> QED BY <1>1, <1>3, <2>1, SettledFacts
<1>4. CASE l[i].op \notin {"BRANCH", "COND_BRANCH"}
  <2>1. Eliminated(l, c)[i] = l[i]
    BY <1>4, EliminatedIs
  <2> QED BY <1>1, <1>4, <2>1, SettledFacts
<1> QED BY <1>2, <1>3, <1>4
-----------------------------------------------------------------------------
(***************************************************************************)
(* The passes, one iteration at a time.                                    *)
(***************************************************************************)
LEMMA LenOfMapped ==
    ASSUME NEW n \in Nat, NEW f, f = [i \in 1..n |-> f[i]]
    PROVE  f \in Seq({f[i] : i \in 1..n}) /\ Len(f) = n /\ DOMAIN f = 1..n
<1> DEFINE T == {f[i] : i \in 1..n}
<1>1. f \in [1..n -> T]
  OBVIOUS
<1> HIDE DEF T
<1>2. f \in Seq(T) /\ Len(f) = n
  BY <1>1
<1> QED BY <1>1, <1>2 DEF T

LEMMA PassLengths ==
    ASSUME NEW l, GoodList(l), NEW c \in Nat
    PROVE  /\ Len(Collapsed(l, c)) = Len(l) /\ DOMAIN Collapsed(l, c) = 1..Len(l)
           /\ Len(Eliminated(l, c)) = Len(l) /\ DOMAIN Eliminated(l, c) = 1..Len(l)
           /\ Len(Promoted(l)) = Len(l) /\ DOMAIN Promoted(l) = 1..Len(l)
           /\ Len(Relinked(l, c)) = Len(l) /\ DOMAIN Relinked(l, c) = 1..Len(l)
<1>1. Len(l) \in Nat
  BY GoodFacts
<1>2. Collapsed(l, c) = [i \in 1..Len(l) |-> Collapsed(l, c)[i]]
  BY DEF Collapsed
<1>3. Eliminated(l, c) = [i \in 1..Len(l) |-> Eliminated(l, c)[i]]
  BY DEF Eliminated
<1>4. Promoted(l) = [i \in 1..Len(l) |-> Promoted(l)[i]]
  BY DEF Promoted
<1>5. Relinked(l, c) = [i \in 1..Len(l) |-> Relinked(l, c)[i]]
  BY DEF Relinked
<1> QED BY <1>1, <1>2, <1>3, <1>4, <1>5, LenOfMapped

\* The list as it is built.
LEMMA NothingDone ==
    ASSUME NEW l, GoodList(l)
    PROVE  Collapsed(l, Len(l)) = l /\ Relinked(l, Len(l)) = [i \in 1..Len(l) |-> i - 1]
           /\ Eliminated(l, Len(l)) = Collapsed(l, 0)
<1>1. Len(l) \in Nat
  BY GoodFacts
<1>2. ASSUME NEW i \in 1..Len(l)
      PROVE  (IF Branching(l, i) THEN Insn(l[i].op, l[i].data, Past(l, Len(l), i + l[i].to) - i) ELSE l[i])
             = l[i]
  <2>1. CASE Branching(l, i)
    <3>1. l[i].to \in Nat /\ i + l[i].to \in i + 1..Len(l)
      BY <2>1, GoodFacts DEF Branching
    <3>2. ~(i + l[i].to > Len(l))
      BY <1>1, <3>1
    <3>3. Past(l, Len(l), i + l[i].to) = i + l[i].to
      BY <3>2 DEF Past
    <3>4. Past(l, Len(l), i + l[i].to) - i = l[i].to
      BY <1>1, <3>1, <3>3
    <3>5. l[i] = Insn(l[i].op, l[i].data, l[i].to)
      BY GoodFacts
    <3> QED BY <2>1, <3>4, <3>5
  <2> QED BY <2>1
<1>3. Collapsed(l, Len(l)) = [i \in 1..Len(l) |-> l[i]]
  BY <1>2 DEF Collapsed
<1>4. Collapsed(l, Len(l)) = l
  BY <1>3, GoodFacts
<1>5. \A i \in 1..Len(l) : ~(i - 1 > Len(l)) /\ ~(i > Len(l))
  BY <1>1
<1>6. Relinked(l, Len(l)) = [i \in 1..Len(l) |-> i - 1]
  BY <1>5 DEF Relinked
<1>7. Eliminated(l, Len(l)) = [i \in 1..Len(l) |-> Collapsed(l, 0)[i]]
  BY <1>5 DEF Eliminated
<1>8. Collapsed(l, 0) = [i \in 1..Len(l) |-> Collapsed(l, 0)[i]]
  BY DEF Collapsed
<1> QED BY <1>4, <1>6, <1>7, <1>8

LEMMA CollapsedNop ==
    ASSUME NEW l, GoodList(l), NEW c \in 1..Len(l), Nop(l, c),
           insns = Collapsed(l, c), next = Relinked(l, c)
    PROVE  EradicateNop(c, c + 1) = Collapsed(l, c - 1)
<1> DEFINE n == Len(l)
           old == Collapsed(l, c)
<1>1. n \in Nat /\ c \in Nat /\ c - 1 \in Nat /\ c \in 1..n
  BY GoodFacts
<1>2. Linked = InList(l, c) /\ DOMAIN insns = 1..n
  BY <1>1, PassLengths, LinkedIs
<1>3. ASSUME NEW i \in 1..n
      PROVE  (IF IsBranch(i) /\ Target(i) = c /\ i \in Linked
              THEN [insns[i] EXCEPT !.to = c + 1 - i] ELSE insns[i])
             = IF Branching(l, i) THEN Insn(l[i].op, l[i].data, Past(l, c - 1, i + l[i].to) - i) ELSE l[i]
  <2> DEFINE t == i + l[i].to
  <2>1. insns[i] = IF Branching(l, i) THEN Insn(l[i].op, l[i].data, Past(l, c, t) - i) ELSE l[i]
    BY DEF Collapsed
  <2>2. CASE ~Branching(l, i)
    <3>1. ~IsBranch(i)
      BY <2>1, <2>2 DEF IsBranch, Branching
    <3> QED BY <2>1, <2>2, <3>1
  <2>3. CASE Branching(l, i)
    <3>1. l[i].to \in Nat /\ t \in i + 1..n
      BY <2>3, GoodFacts DEF Branching
    <3> HIDE DEF t
    <3>2. insns[i] = Insn(l[i].op, l[i].data, Past(l, c, t) - i)
      BY <2>1, <2>3
    <3>3. IsBranch(i) /\ i \in Linked
      <4>1. IsBranch(i)
        BY <2>3, <3>2 DEF IsBranch, Branching, Insn
      <4>2. ~Nop(l, i)
        BY <2>3 DEF Branching, Nop
      <4> QED BY <1>2, <4>1, <4>2 DEF InList
    <3>4. Target(i) = Past(l, c, t) /\ Past(l, c, t) \in Int
      <4>1. Past(l, c, t) \in Int
        BY <1>1, <3>1 DEF Past
      <4>2. insns[i].to = Past(l, c, t) - i
        BY <3>2 DEF Insn
      <4> QED BY <1>1, <4>1, <4>2 DEF Target
    <3>5. CASE t = c
      <4>1. Past(l, c, t) = c /\ Past(l, c - 1, t) = c + 1
        BY <1>1, <3>5 DEF Past
      <4>2. [insns[i] EXCEPT !.to = c + 1 - i] = Insn(l[i].op, l[i].data, c + 1 - i)
        BY <3>2 DEF Insn
      <4> QED BY <2>3, <3>3, <3>4, <4>1, <4>2 DEF t
    <3>6. CASE t # c
      <4>1. Past(l, c, t) # c /\ Past(l, c - 1, t) = Past(l, c, t)
        BY <1>1, <3>1, <3>6 DEF Past
      <4> QED BY <2>3, <3>2, <3>4, <4>1 DEF t
    <3> QED BY <3>5, <3>6
  <2> QED BY <2>2, <2>3
<1>4. EradicateNop(c, c + 1) =
          [i \in 1..n |-> IF IsBranch(i) /\ Target(i) = c /\ i \in Linked
                          THEN [insns[i] EXCEPT !.to = c + 1 - i] ELSE insns[i]]
  BY <1>2 DEF EradicateNop
<1> QED BY <1>3, <1>4 DEF Collapsed

LEMMA CollapsedOther ==
    ASSUME NEW l, GoodList(l), NEW c \in 1..Len(l), ~Nop(l, c)
    PROVE  Collapsed(l, c - 1) = Collapsed(l, c) /\ Relinked(l, c - 1) = Relinked(l, c)
<1>1. Len(l) \in Nat /\ c \in Nat /\ c - 1 \in Nat /\ c \in 1..Len(l)
  BY GoodFacts
<1>2. \A t \in Int : Past(l, c - 1, t) = Past(l, c, t)
  <2> SUFFICES ASSUME NEW t \in Int PROVE Past(l, c - 1, t) = Past(l, c, t)
    OBVIOUS
  <2>1. CASE t = c
    BY <2>1 DEF Past
  <2>2. CASE t # c
    <3>1. t > c - 1 <=> t > c
      BY <1>1, <2>2
    <3> QED BY <3>1 DEF Past
  <2> QED BY <2>1, <2>2
<1>3. ASSUME NEW i \in 1..Len(l), Branching(l, i) PROVE Past(l, c - 1, i + l[i].to) = Past(l, c, i + l[i].to)
  <2>1. i + l[i].to \in i + 1..Len(l)
    BY <1>3, GoodFacts DEF Branching
  <2>2. i + l[i].to \in Int
    BY <1>1, <2>1
  <2> QED BY <1>2, <2>2
<1>4. Collapsed(l, c - 1) = Collapsed(l, c)
  BY <1>3 DEF Collapsed
<1>5. ASSUME NEW i \in 1..Len(l) PROVE i - 1 > c - 1 /\ Nop(l, i - 1) <=> i - 1 > c /\ Nop(l, i - 1)
  <2>1. CASE i - 1 = c
    BY <1>1, <2>1
  <2>2. CASE i - 1 # c
    BY <1>1, <2>2
  <2> QED BY <2>1, <2>2
<1>6. Relinked(l, c - 1) = Relinked(l, c)
  BY <1>5 DEF Relinked
<1> QED BY <1>4, <1>6

LEMMA RelinkedNop ==
    ASSUME NEW l, GoodList(l), NEW c \in 1..Len(l), Nop(l, c), next = Relinked(l, c)
    PROVE  [next EXCEPT ![c + 1] = next[c]] = Relinked(l, c - 1)
<1>1. Len(l) \in Nat /\ c \in Nat /\ c \in 1..Len(l) /\ c + 1 \in 1..Len(l)
  BY GoodFacts
<1>2. DOMAIN next = 1..Len(l) /\ DOMAIN Relinked(l, c - 1) = 1..Len(l)
  BY DEF Relinked
<1>3. \A i \in 1..Len(l) : next[i] = IF i - 1 > c /\ Nop(l, i - 1) THEN i - 2 ELSE i - 1
  BY DEF Relinked
<1>4. \A i \in 1..Len(l) : Relinked(l, c - 1)[i] = IF i - 1 > c - 1 /\ Nop(l, i - 1) THEN i - 2 ELSE i - 1
  BY DEF Relinked
<1>5. next[c] = c - 1
  BY <1>1, <1>3
<1>6. ASSUME NEW i \in 1..Len(l)
      PROVE  [next EXCEPT ![c + 1] = next[c]][i] = Relinked(l, c - 1)[i]
  <2>1. CASE i = c + 1
    <3>1. i - 1 = c /\ i - 2 = c - 1 /\ i - 1 > c - 1
      BY <1>1, <2>1
    <3>2. Relinked(l, c - 1)[i] = c - 1
      BY <1>4, <3>1
    <3> QED BY <1>2, <1>5, <2>1, <3>2
  <2>2. CASE i # c + 1
    <3>1. i - 1 > c - 1 <=> i - 1 > c
      BY <1>1, <2>2
    <3> QED BY <1>2, <1>3, <1>4, <2>2, <3>1
  <2> QED BY <2>1, <2>2
<1> HIDE <1>3, <1>4
<1>7. [next EXCEPT ![c + 1] = next[c]] = [i \in 1..Len(l) |-> [next EXCEPT ![c + 1] = next[c]][i]]
  BY <1>2
<1>8. Relinked(l, c - 1) = [i \in 1..Len(l) |-> Relinked(l, c - 1)[i]]
  BY DEF Relinked
<1> QED BY <1>6, <1>7, <1>8

LEMMA EliminatedNext ==
    ASSUME NEW l, GoodList(l), NEW c \in Kept(l), insns = Eliminated(l, c)
    PROVE  /\ BranchToReturn(c) => [insns EXCEPT ![c] = Insn("RETURN", 0, 0)] = Eliminated(l, Relinked(l, 0)[c])
           /\ ~BranchToReturn(c) => insns = Eliminated(l, Relinked(l, 0)[c])
<1> DEFINE n == Len(l)
           r == Relinked(l, 0)[c]
           t == Past(l, 0, c + l[c].to)
           returns == l[c].op = "BRANCH" /\ Settled(l)[c] = n
<1>1. n \in Nat /\ c \in 1..n /\ c \in Nat
  BY GoodFacts, SettledFacts
<1>2. r \in 0..c - 1 /\ \A j \in Kept(l) : j < c => j <= r
  BY LinksAre DEF Kept
<1>3. r \in Nat
  BY <1>1, <1>2
<1>4. /\ l[c].op = "BRANCH" =>
             /\ t \in Kept(l) /\ t \in c + 1..n /\ Settled(l)[t] = Settled(l)[c]
             /\ insns[c] = Insn("BRANCH", l[c].data, t - c)
      /\ l[c].op = "COND_BRANCH" =>
             /\ t \in Kept(l) /\ t \in c + 1..n
             /\ l[t].op \notin {"NOP", "BRANCH", "RETURN"}
             /\ insns[c] = Insn("COND_BRANCH", l[c].data, t - c)
      /\ l[c].op \notin {"BRANCH", "COND_BRANCH"} => insns[c] = l[c]
  <2>1. ~(c > c)
    BY <1>1
  <2> QED BY <1>1, <2>1, EliminatedIs
<1> HIDE DEF t, r
<1>5. \A op, d, to : Insn(op, d, to).op = op /\ Insn(op, d, to).to = to
  BY DEF Insn
<1>6. BranchToReturn(c) <=> returns
  <2>1. CASE l[c].op = "BRANCH"
    <3>1. insns[c].op = "BRANCH" /\ insns[c].to = t - c /\ t \in c + 1..n
      BY <1>4, <1>5, <2>1
    <3>2. Target(c) = t /\ t \in Kept(l) /\ t > c
      BY <1>1, <1>4, <2>1, <3>1 DEF Target
    <3>3. insns[t].op = "RETURN" <=> Settled(l)[t] = n
      BY <1>1, <3>2, ReturnsAre
    <3>4. Settled(l)[t] = Settled(l)[c]
      BY <1>4, <2>1
    <3> QED BY <2>1, <3>1, <3>2, <3>3, <3>4 DEF BranchToReturn, IsBranch
  <2>2. CASE l[c].op = "COND_BRANCH"
    <3>1. insns[c].to = t - c /\ t \in c + 1..n
      BY <1>4, <1>5, <2>2
    <3>2. Target(c) = t /\ t \in Kept(l) /\ t > c
      BY <1>1, <1>4, <2>2, <3>1 DEF Target
    <3>3. l[t].op \notin {"NOP", "BRANCH", "RETURN"} /\ t \in 1..n
      BY <1>1, <1>4, <2>2
    <3>4. Settled(l)[t] = t /\ t # n
      BY <3>2, <3>3, SettledFacts, GoodFacts
    <3>5. insns[t].op # "RETURN"
      BY <1>1, <3>2, <3>4, ReturnsAre
    <3> QED BY <2>2, <3>2, <3>5 DEF BranchToReturn
  <2>3. CASE l[c].op \notin {"BRANCH", "COND_BRANCH"}
    BY <1>4, <2>3 DEF BranchToReturn, IsBranch
  <2> QED BY <2>1, <2>2, <2>3
<1>7. ASSUME NEW i \in 1..n
      PROVE  Eliminated(l, r)[i] = IF i = c /\ returns THEN Insn("RETURN", 0, 0) ELSE insns[i]
  <2>1. /\ Eliminated(l, r)[i] = IF i > r /\ l[i].op = "BRANCH" /\ Settled(l)[i] = n THEN Insn("RETURN", 0, 0)
                                 ELSE Collapsed(l, 0)[i]
        /\ insns[i] = IF i > c /\ l[i].op = "BRANCH" /\ Settled(l)[i] = n THEN Insn("RETURN", 0, 0)
                      ELSE Collapsed(l, 0)[i]
    BY DEF Eliminated
  <2>2. CASE i = c
    <3>1. c > r
      BY <1>1, <1>2
    <3> QED BY <1>1, <2>1, <2>2, <3>1
  <2>3. CASE i # c
    <3>1. i > r /\ l[i].op = "BRANCH" => i > c
      <4> SUFFICES ASSUME i > r, l[i].op = "BRANCH", ~(i > c) PROVE FALSE
        OBVIOUS
      <4>1. i \in Kept(l)
        BY <1>1 DEF Kept, InList, Nop
      <4>2. i < c
        BY <1>1, <2>3
      <4>3. i <= r
        BY <1>2, <4>1, <4>2
      <4> QED BY <1>3, <4>3
    <3>2. i > c => i > r
      BY <1>1, <1>2
    <3> QED BY <2>1, <2>3, <3>1, <3>2
  <2> QED BY <2>2, <2>3
<1>8. Eliminated(l, r) = [i \in 1..n |-> Eliminated(l, r)[i]] /\ DOMAIN insns = 1..n
      /\ insns = [i \in 1..n |-> insns[i]]
  BY DEF Eliminated
<1> HIDE DEF returns
<1>9. CASE returns
  <2>1. [insns EXCEPT ![c] = Insn("RETURN", 0, 0)]
            = [i \in 1..n |-> IF i = c /\ returns THEN Insn("RETURN", 0, 0) ELSE insns[i]]
    BY <1>1, <1>8, <1>9
  <2> QED BY <1>6, <1>7, <1>8, <1>9, <2>1 DEF r
<1>10. CASE ~returns
  BY <1>6, <1>7, <1>8, <1>10 DEF r
<1> QED BY <1>9, <1>10

LEMMA PromotedNext ==
    ASSUME NEW l, GoodList(l), insns = Eliminated(l, 0), next = Relinked(l, 0)
    PROVE  [i \in DOMAIN insns |->
                IF /\ insns[i].op = "CALL"
                   /\ \E j \in Linked : insns[j].op = "RETURN" /\ next[j] = i
                THEN [insns[i] EXCEPT !.op = "TAILCALL"] ELSE insns[i]] = Promoted(l)
<1> DEFINE n == Len(l)
<1>1. n \in Nat /\ DOMAIN insns = 1..n /\ Len(insns) = n
  BY GoodFacts, PassLengths
<1>2. Linked = Kept(l)
  BY <1>1, LinkedIs DEF Kept
<1>3. ASSUME NEW i \in 1..n
      PROVE  (IF /\ insns[i].op = "CALL"
                 /\ \E j \in Linked : insns[j].op = "RETURN" /\ next[j] = i
              THEN [insns[i] EXCEPT !.op = "TAILCALL"] ELSE insns[i])
             = IF l[i].op = "CALL" /\ Settled(l)[i + 1] = n THEN Insn("TAILCALL", l[i].data, l[i].to)
               ELSE insns[i]
  <2>1. CASE l[i].op = "CALL"
    <3>1. i \in Kept(l) /\ i # n
      BY <2>1, GoodFacts DEF Kept, InList, Nop
    <3>2. insns[i] = l[i]
      BY <2>1, <3>1, EliminatedIs
    <3>3. PICK j \in Kept(l) : i < j /\ next[j] = i /\ Settled(l)[j] = Settled(l)[i + 1]
      BY <3>1, NextKept
    <3>4. j > 0
      <4>1. j \in 1..Len(l)
        BY SettledFacts
      <4> QED BY <4>1
    <3>5. insns[j].op = "RETURN" <=> Settled(l)[i + 1] = n
      BY <3>3, <3>4, ReturnsAre
    <3>6. \A k \in Kept(l) : next[k] = i => k = j
      BY <3>3, NextIsOne
    <3>7. (\E k \in Linked : insns[k].op = "RETURN" /\ next[k] = i) <=> Settled(l)[i + 1] = n
      BY <1>2, <3>3, <3>5, <3>6
    <3>8. [insns[i] EXCEPT !.op = "TAILCALL"] = Insn("TAILCALL", l[i].data, l[i].to)
      <4>1. l[i] = Insn(l[i].op, l[i].data, l[i].to)
        BY GoodFacts
      <4>2. \A op, d, to : [Insn(op, d, to) EXCEPT !.op = "TAILCALL"] = Insn("TAILCALL", d, to)
        BY DEF Insn
      <4> DEFINE op == l[i].op
                 d == l[i].data
                 to == l[i].to
      <4>3. insns[i] = Insn(op, d, to)
        BY <3>2, <4>1
      <4> HIDE DEF op, d, to
      <4>4. [insns[i] EXCEPT !.op = "TAILCALL"] = Insn("TAILCALL", d, to)
        BY <4>2, <4>3
      <4> QED BY <4>4 DEF d, to
    <3> QED BY <2>1, <3>2, <3>7, <3>8
  <2>2. CASE l[i].op # "CALL"
    <3>1. insns[i].op # "CALL"
      <4>1. insns[i] \in {Insn("RETURN", 0, 0), l[i]} \/ \E to : insns[i] = Insn(l[i].op, l[i].data, to)
        BY DEF Eliminated, Collapsed
      <4>2. \A op, d, to : Insn(op, d, to).op = op
        BY DEF Insn
      <4> QED BY <2>2, <4>1, <4>2
    <3> QED BY <2>2, <3>1
  <2> QED BY <2>1, <2>2
<1> QED BY <1>1, <1>3 DEF Promoted
-----------------------------------------------------------------------------
(***************************************************************************)
(* The invariant: what the list is in each pass, and that the code is run  *)
(* at its instructions.                                                    *)
(***************************************************************************)
InPass(p, l) ==
    /\ p = "compile" => insns = <<>> /\ next = <<>> /\ cursor = 0
    /\ p = "collapse" => cursor \in 1..Len(l) /\ insns = Collapsed(l, cursor) /\ next = Relinked(l, cursor)
    /\ p = "eliminate" => cursor \in Kept(l) /\ insns = Eliminated(l, cursor) /\ next = Relinked(l, 0)
    /\ p = "promote" => cursor \in 0..Len(l) /\ insns = Eliminated(l, 0) /\ next = Relinked(l, 0)
    /\ p \in {"assemble", "run", "done"} => cursor = 0 /\ insns = Promoted(l) /\ next = Relinked(l, 0)

Phases == {"compile", "collapse", "eliminate", "promote", "assemble", "run", "done"}

InCode == code = Bytecode /\ \E i \in Linked : pc = Offsets[i]

IInv ==
    /\ form \in Programs /\ x \in Arguments /\ phase \in Phases
    /\ InPass(phase, ListOf(form))
    /\ phase \in {"run", "done"} => InCode
    /\ phase \notin {"run", "done"} => pc = 0

LEMMA CompileStep ==
    ASSUME NopsApart, IInv, CompileBody
    PROVE  IInv'
<1> DEFINE l == ListOf(form)
<1>1. GoodList(l)
  BY ListsAreGood DEF IInv
<1>2. /\ phase = "compile" /\ phase' = "collapse" /\ insns' = l /\ cursor' = Len(l)
      /\ next' = [i \in 1..Len(l) |-> i - 1] /\ UNCHANGED <<form, x, pc>>
  BY <1>1, GoodFacts DEF CompileBody, Pass, vmVars
<1> HIDE DEF l
<1>3. insns' = Collapsed(l, cursor') /\ next' = Relinked(l, cursor')
  BY <1>1, <1>2, NothingDone
<1>4. cursor' \in 1..Len(l)
  BY <1>1, <1>2, GoodFacts
<1>5. InPass(phase, l)'
  BY <1>2, <1>3, <1>4 DEF InPass, l
<1> QED BY <1>2, <1>5 DEF IInv, Phases, l

LEMMA CollapseStep ==
    ASSUME NopsApart, IInv, CollapseNops
    PROVE  IInv'
<1> DEFINE l == ListOf(form)
           c == cursor
<1>1. GoodList(l)
  BY ListsAreGood DEF IInv
<1>2. phase = "collapse" /\ UNCHANGED <<form, x, pc>>
  BY DEF CollapseNops, Pass, vmVars
<1>3. c \in 1..Len(l) /\ insns = Collapsed(l, c) /\ next = Relinked(l, c)
  BY <1>2 DEF IInv, InPass
<1>4. Len(l) \in Nat /\ c \in Nat /\ c - 1 \in Nat /\ Len(l) \in 1..Len(l)
  BY <1>1, <1>3, GoodFacts
<1>5. next[c] = c - 1
  BY <1>3, <1>4 DEF Relinked
<1>6. Len(insns) = Len(l)
  BY <1>1, <1>3, <1>4, PassLengths
<1>7. /\ cursor' = IF c - 1 = 0 THEN Len(l) ELSE c - 1
      /\ phase' = IF c - 1 = 0 THEN "eliminate" ELSE phase
  BY <1>5, <1>6 DEF CollapseNops, GoOn
<1> HIDE DEF l
<1>8. insns[c].op = l[c].op
  BY <1>1, <1>3 DEF Collapsed, Insn
<1>9. insns' = Collapsed(l, c - 1) /\ next' = Relinked(l, c - 1)
  <2>1. CASE Nop(l, c)
    <3>1. insns' = EradicateNop(c, c + 1) /\ next' = [next EXCEPT ![c + 1] = next[c]]
      BY <1>8, <2>1 DEF CollapseNops, Nop
    <3>2. EradicateNop(c, c + 1) = Collapsed(l, c - 1)
      BY <1>1, <1>3, <2>1, CollapsedNop
    <3>3. [next EXCEPT ![c + 1] = next[c]] = Relinked(l, c - 1)
      BY <1>1, <1>3, <2>1, RelinkedNop
    <3> QED BY <3>1, <3>2, <3>3
  <2>2. CASE ~Nop(l, c)
    <3>1. UNCHANGED <<insns, next>>
      BY <1>8, <2>2 DEF CollapseNops, Nop
    <3>2. Collapsed(l, c - 1) = Collapsed(l, c) /\ Relinked(l, c - 1) = Relinked(l, c)
      BY <1>1, <1>3, <2>2, CollapsedOther
    <3> QED BY <1>3, <3>1, <3>2
  <2> QED BY <2>1, <2>2
<1>10. InPass(phase, l)'
  <2>1. CASE c - 1 = 0
    <3>1. insns' = Eliminated(l, cursor') /\ next' = Relinked(l, 0) /\ phase' = "eliminate"
      BY <1>1, <1>7, <1>9, <2>1, NothingDone
    <3>2. ~Nop(l, Len(l))
      BY <1>1, GoodFacts DEF Nop
    <3>3. cursor' \in Kept(l)
      BY <1>4, <1>7, <2>1, <3>2 DEF Kept, InList
    <3> QED BY <1>2, <3>1, <3>3 DEF InPass, l
  <2>2. CASE c - 1 # 0
    <3>1. cursor' = c - 1 /\ phase' = "collapse" /\ c - 1 \in 1..Len(l)
      BY <1>2, <1>3, <1>4, <1>7, <2>2
    <3> QED BY <1>2, <1>9, <3>1 DEF InPass, l
  <2> QED BY <2>1, <2>2
<1>11. phase' \in {"collapse", "eliminate"}
  BY <1>2, <1>7
<1> QED BY <1>2, <1>10, <1>11 DEF IInv, Phases, l

LEMMA EliminateStep ==
    ASSUME NopsApart, IInv, EliminateBranchToReturn
    PROVE  IInv'
<1> DEFINE l == ListOf(form)
           c == cursor
           r == Relinked(l, 0)[c]
<1>1. GoodList(l)
  BY ListsAreGood DEF IInv
<1>2. phase = "eliminate" /\ UNCHANGED <<form, x, pc, next>>
  BY DEF EliminateBranchToReturn, Pass, vmVars
<1>3. c \in Kept(l) /\ insns = Eliminated(l, c) /\ next = Relinked(l, 0)
  BY <1>2 DEF IInv, InPass
<1>4. Len(l) \in Nat /\ c \in 1..Len(l) /\ c \in Nat /\ Len(l) \in 0..Len(l)
  BY <1>1, <1>3, GoodFacts, SettledFacts
<1>5. Len(insns) = Len(l)
  BY <1>1, <1>3, <1>4, PassLengths
<1>6. /\ cursor' = IF r = 0 THEN Len(l) ELSE r
      /\ phase' = IF r = 0 THEN "promote" ELSE phase
  BY <1>3, <1>5 DEF EliminateBranchToReturn, GoOn
<1> HIDE DEF l
<1>7. r = 0 \/ r \in Kept(l)
  BY <1>1, <1>3, LinksAre DEF Kept
<1>8. insns' = Eliminated(l, r)
  BY <1>1, <1>3, EliminatedNext DEF EliminateBranchToReturn
<1> HIDE DEF r
<1>9. InPass(phase, l)'
  <2>1. CASE r = 0
    BY <1>2, <1>3, <1>4, <1>6, <1>8, <2>1 DEF InPass, l
  <2>2. CASE r # 0
    BY <1>2, <1>3, <1>6, <1>7, <1>8, <2>2 DEF InPass, l
  <2> QED BY <2>1, <2>2
<1>10. phase' \in {"eliminate", "promote"}
  BY <1>2, <1>6
<1> QED BY <1>2, <1>9, <1>10 DEF IInv, Phases, l

LEMMA PromoteStep ==
    ASSUME NopsApart, IInv, PromoteTailcalls
    PROVE  IInv'
<1> DEFINE l == ListOf(form)
<1>1. GoodList(l)
  BY ListsAreGood DEF IInv
<1>2. phase = "promote" /\ UNCHANGED <<form, x, pc, next>> /\ phase' = "assemble" /\ cursor' = 0
  BY DEF PromoteTailcalls, Pass, vmVars
<1>3. insns = Eliminated(l, 0) /\ next = Relinked(l, 0)
  BY <1>2 DEF IInv, InPass
<1>4. insns' = Promoted(l)
  <2> HIDE DEF l
  <2> QED BY <1>1, <1>3, PromotedNext DEF PromoteTailcalls
<1>5. InPass(phase, l)'
  BY <1>2, <1>3, <1>4 DEF InPass
<1> QED BY <1>2, <1>5 DEF IInv, Phases
-----------------------------------------------------------------------------
(***************************************************************************)
(* The code that is made of the list.                                      *)
(***************************************************************************)
LEMMA PromotedIs ==
    ASSUME NEW l, GoodList(l), NEW i \in Kept(l)
    PROVE  LET p == Promoted(l)[i]
               t == Past(l, 0, i + l[i].to)
               s == Settled(l)
           IN  /\ l[i].op = "BRANCH" =>
                      /\ t \in Kept(l) /\ t \in i + 1..Len(l) /\ s[t] = s[i]
                      /\ p = IF s[i] = Len(l) THEN Insn("RETURN", 0, 0) ELSE Insn("BRANCH", l[i].data, t - i)
               /\ l[i].op = "COND_BRANCH" =>
                      /\ t \in Kept(l) /\ t \in i + 1..Len(l) /\ t = i + l[i].to
                      /\ p = Insn("COND_BRANCH", l[i].data, t - i)
               /\ l[i].op = "CALL" =>
                      p = IF s[i + 1] = Len(l) THEN Insn("TAILCALL", l[i].data, l[i].to) ELSE l[i]
               /\ l[i].op \notin {"BRANCH", "COND_BRANCH", "CALL"} => p = l[i]
<1> DEFINE p == Promoted(l)[i]
           e == Eliminated(l, 0)[i]
           t == Past(l, 0, i + l[i].to)
<1>1. i \in 1..Len(l) /\ i > 0
  <2>1. i \in 1..Len(l)
    BY SettledFacts
  <2> QED BY <2>1
<1>2. p = IF l[i].op = "CALL" /\ Settled(l)[i + 1] = Len(l) THEN Insn("TAILCALL", l[i].data, l[i].to) ELSE e
  BY <1>1 DEF Promoted
<1>3. /\ l[i].op = "BRANCH" =>
             /\ t \in Kept(l) /\ t \in i + 1..Len(l) /\ Settled(l)[t] = Settled(l)[i]
             /\ e = IF Settled(l)[i] = Len(l) THEN Insn("RETURN", 0, 0) ELSE Insn("BRANCH", l[i].data, t - i)
      /\ l[i].op = "COND_BRANCH" =>
             /\ t \in Kept(l) /\ t \in i + 1..Len(l) /\ t = i + l[i].to
             /\ e = Insn("COND_BRANCH", l[i].data, t - i)
      /\ l[i].op \notin {"BRANCH", "COND_BRANCH"} => e = l[i]
  BY <1>1, EliminatedIs
<1> HIDE DEF p, e, t
<1>4. l[i].op = "CALL" => p = IF Settled(l)[i + 1] = Len(l) THEN Insn("TAILCALL", l[i].data, l[i].to) ELSE l[i]
  BY <1>2, <1>3
<1>5. l[i].op # "CALL" => p = e
  BY <1>2
<1> QED BY <1>3, <1>4, <1>5 DEF p, t

LEMMA CodeIs ==
    ASSUME NEW l, GoodList(l), insns = Promoted(l), next = Relinked(l, 0)
    PROVE  /\ Linked = Kept(l) /\ OffsetsFit(Offsets, l, insns)
           /\ DOMAIN Bytecode = {Offsets[i] : i \in Kept(l)}
           /\ \A i \in Kept(l) :
                 /\ InsnAt(Offsets[i]) = i
                 /\ Bytecode[Offsets[i]].op = insns[i].op
                 /\ Bytecode[Offsets[i]].data =
                        IF IsBranch(i) THEN Offsets[Target(i)] - (Offsets[i] + 3) ELSE insns[i].data
<1> DEFINE L == Kept(l)
           off == Offsets
           D == {off[i] : i \in L}
           Coded(i) == [op   |-> insns[i].op,
                        data |-> IF IsBranch(i) THEN Displacement(off[i], off[Target(i)]) ELSE insns[i].data]
           at == [o \in D |-> InsnAt(o)]
<1>1. Linked = L
  BY GoodFacts, PassLengths, LinkedIs DEF Kept
<1>2. OffsetsFit(Offsets, l, insns)
  BY GoodFacts, PassLengths, OffsetsAre
<1>3. L \subseteq Nat
  BY SettledFacts
<1>4. \A i, j \in L : i < j => off[i] + 1 + Size(insns[i].op) <= off[j]
  BY <1>2 DEF OffsetsFit
<1>5. \A i \in L : off[i] \in Nat
  BY <1>2 DEF OffsetsFit
<1> HIDE DEF L, off
<1>6. \A i, j \in L : off[i] = off[j] => i = j
  <2> SUFFICES ASSUME NEW i \in L, NEW j \in L, off[i] = off[j], i # j PROVE FALSE
    OBVIOUS
  <2>1. off[i] \in Nat /\ Size(insns[i].op) \in Nat /\ Size(insns[j].op) \in Nat /\ i \in Nat /\ j \in Nat
    BY <1>3, <1>5, SizeIsNat
  <2>2. CASE i < j
    BY <1>4, <2>1, <2>2
  <2>3. CASE j < i
    BY <1>4, <2>1, <2>3
  <2> QED BY <2>1, <2>2, <2>3
<1>7. ASSUME NEW i \in L PROVE InsnAt(off[i]) = i
  <2>1. InsnAt(off[i]) = CHOOSE k \in L : off[k] = off[i]
    BY <1>1 DEF InsnAt, off
  <2>2. \A k \in L : off[k] = off[i] <=> k = i
    BY <1>6
  <2> QED BY <2>1, <2>2
<1>8. Bytecode = [o \in D |-> Coded(at[o])]
  BY <1>1, Zenon DEF Bytecode, off
<1> HIDE DEF Coded
<1>9. DOMAIN Bytecode = D
  BY <1>8
<1>10. ASSUME NEW i \in L PROVE Bytecode[off[i]] = Coded(i)
  <2>1. off[i] \in D
    OBVIOUS
  <2>2. at[off[i]] = i
    BY <1>7, <2>1
  <2> HIDE DEF at, D
  <2> QED BY <1>8, <2>1, <2>2
<1>11. ASSUME NEW i \in L
       PROVE  /\ Bytecode[off[i]].op = insns[i].op
              /\ Bytecode[off[i]].data = IF IsBranch(i) THEN off[Target(i)] - (off[i] + 3) ELSE insns[i].data
  <2> DEFINE data == IF IsBranch(i) THEN Displacement(off[i], off[Target(i)]) ELSE insns[i].data
  <2>1. Coded(i) = [op |-> insns[i].op, data |-> data]
    BY DEF Coded
  <2>2. data = IF IsBranch(i) THEN off[Target(i)] - (off[i] + 3) ELSE insns[i].data
    BY DEF Displacement
  <2> HIDE DEF data
  <2>3. Coded(i).op = insns[i].op /\ Coded(i).data = data
    BY <2>1
  <2> QED BY <1>10, <2>2, <2>3
<1> QED BY <1>1, <1>2, <1>7, <1>9, <1>11 DEF L, off

LEMMA CodeKept ==
    ASSUME UNCHANGED <<insns, next>>
    PROVE  /\ Linked' = Linked /\ Offsets' = Offsets /\ Bytecode' = Bytecode
           /\ \A o : InsnAt(o)' = InsnAt(o)
<1>1. Linked' = Linked
  BY DEF Linked
<1>2. Offsets' = Offsets
  BY <1>1 DEF Offsets
<1>3. \A o : InsnAt(o)' = InsnAt(o)
  BY <1>1, <1>2 DEF InsnAt
<1>4. Bytecode' = Bytecode
  BY <1>1, <1>2, <1>3 DEF Bytecode, IsBranch, Target
<1> QED BY <1>1, <1>2, <1>3, <1>4
-----------------------------------------------------------------------------
(***************************************************************************)
(* A run of the code, by the instructions of the list.                     *)
(***************************************************************************)
Plain == {"LDIMM", "LDSLOT", "STSLOT", "GET_BOUND_LOCATION", "LOAD", "STORE", "OP"}

\* Offset o is that of an instruction after i, which leads to instruction k of the list.
Leads(l, i, o, k) == \E j \in Kept(l) : i < j /\ o = Offsets[j] /\ Settled(l)[j] = k

CodeFits(l, i, o) ==
    /\ i = InsnAt(o) /\ i \in Kept(l) /\ o = Offsets[i] /\ o \in DOMAIN code
    /\ code[o].op \notin {"BRANCH", "RETURN"} => Settled(l)[i] = i
    /\ code[o].op \in Plain => l[i].op = code[o].op /\ l[i].data = code[o].data
    /\ code[o].op = "BRANCH" =>
          Settled(l)[i] # Len(l) /\ Leads(l, i, o + 3 + code[o].data, Settled(l)[i])
    /\ code[o].op = "COND_BRANCH" =>
          l[i].op = "COND_BRANCH" /\ Leads(l, i, o + 3 + code[o].data, Settled(l)[i + l[i].to])
    /\ code[o].op = "CALL" => l[i].op = "CALL" /\ Settled(l)[i + 1] # Len(l)
    /\ code[o].op = "TAILCALL" => l[i].op = "CALL" /\ Settled(l)[i + 1] = Len(l)
    /\ code[o].op = "RETURN" => Settled(l)[i] = Len(l)
    /\ code[o].op \in Plain \cup {"COND_BRANCH", "CALL"} =>
          Leads(l, i, o + 1 + Size(code[o].op), Settled(l)[i + 1])

LEMMA CodeIsRight ==
    ASSUME NEW l, GoodList(l), insns = Promoted(l), next = Relinked(l, 0), code = Bytecode,
           NEW i \in Kept(l), NEW o, o = Offsets[i]
    PROVE  CodeFits(l, i, o)
<1> DEFINE n == Len(l)
           c == code[o]
           t == Past(l, 0, i + l[i].to)
<1>1. /\ i = InsnAt(o) /\ o \in DOMAIN code /\ c.op = insns[i].op
      /\ c.data = IF IsBranch(i) THEN Offsets[Target(i)] - (o + 3) ELSE insns[i].data
  BY CodeIs
<1>2. n \in Nat /\ i \in 1..n
  BY GoodFacts, SettledFacts
<1>3. \A j \in Kept(l) : Offsets[j] \in Nat
  BY CodeIs DEF OffsetsFit
<1>4. \A op, d, to : Insn(op, d, to).op = op /\ Insn(op, d, to).to = to /\ Insn(op, d, to).data = d
  BY DEF Insn
<1>5. /\ l[i].op = "BRANCH" =>
             /\ t \in Kept(l) /\ t \in i + 1..n /\ Settled(l)[t] = Settled(l)[i]
             /\ insns[i] = IF Settled(l)[i] = n THEN Insn("RETURN", 0, 0) ELSE Insn("BRANCH", l[i].data, t - i)
      /\ l[i].op = "COND_BRANCH" =>
             /\ t \in Kept(l) /\ t \in i + 1..n /\ t = i + l[i].to
             /\ insns[i] = Insn("COND_BRANCH", l[i].data, t - i)
      /\ l[i].op = "CALL" =>
             insns[i] = IF Settled(l)[i + 1] = n THEN Insn("TAILCALL", l[i].data, l[i].to) ELSE l[i]
      /\ l[i].op \notin {"BRANCH", "COND_BRANCH", "CALL"} => insns[i] = l[i]
  BY PromotedIs
<1>6. l[i].op # "BRANCH" => Settled(l)[i] = i
  BY SettledFacts
<1>7. l[i].op # "RETURN" => Leads(l, i, o + 1 + Size(c.op), Settled(l)[i + 1])
  <2> SUFFICES ASSUME l[i].op # "RETURN" PROVE Leads(l, i, o + 1 + Size(c.op), Settled(l)[i + 1])
    OBVIOUS
  <2>1. i # n
    BY GoodFacts
  <2>2. PICK j \in Kept(l) : i < j /\ Relinked(l, 0)[j] = i /\ Settled(l)[j] = Settled(l)[i + 1]
    BY <2>1, NextKept
  <2>3. Offsets[j] = Offsets[i] + 1 + Size(insns[i].op)
    <3>1. OffsetsFit(Offsets, l, insns)
      BY CodeIs
    <3> QED BY <2>2, <3>1 DEF OffsetsFit
  <2> QED BY <1>1, <2>2, <2>3 DEF Leads
<1>8. l[i].op \in {"NOP", "RETURN"} => l[i].op = "RETURN" /\ i = n
  BY <1>2, GoodFacts DEF Kept, InList, Nop
<1>9. l[i].op \in Opcodes \cup {"RETURN"}
  BY <1>2, GoodFacts
<1>10. ASSUME t \in Kept(l), t \in i + 1..n, insns[i].to = t - i, IsBranch(i)
       PROVE  Leads(l, i, o + 3 + c.data, Settled(l)[t])
  <2>1. Target(i) = t
    BY <1>2, <1>10 DEF Target
  <2>2. c.data = Offsets[t] - (o + 3)
    BY <1>1, <1>10, <2>1
  <2>3. o + 3 + c.data = Offsets[t] /\ i < t
    BY <1>2, <1>3, <1>10, <2>2
  <2> QED BY <1>1, <1>10, <2>3 DEF Leads
<1> HIDE DEF c, t, n
<1>11. CASE l[i].op = "BRANCH"
  <2>1. CASE Settled(l)[i] = n
    <3>1. c.op = "RETURN"
      BY <1>1, <1>4, <1>5, <1>11, <2>1
    <3> QED BY <1>1, <2>1, <3>1 DEF CodeFits, Plain, c, n
  <2>2. CASE Settled(l)[i] # n
    <3>1. insns[i].op = "BRANCH" /\ insns[i].to = t - i
      BY <1>4, <1>5, <1>11, <2>2
    <3>2. Leads(l, i, o + 3 + c.data, Settled(l)[i])
      BY <1>5, <1>10, <1>11, <3>1 DEF IsBranch
    <3> QED BY <1>1, <2>2, <3>1, <3>2 DEF CodeFits, Plain, c, n
  <2> QED BY <2>1, <2>2
<1>12. CASE l[i].op = "COND_BRANCH"
  <2>1. insns[i].op = "COND_BRANCH" /\ insns[i].to = t - i
    BY <1>4, <1>5, <1>12
  <2>2. Leads(l, i, o + 3 + c.data, Settled(l)[i + l[i].to])
    BY <1>5, <1>10, <1>12, <2>1 DEF IsBranch
  <2> QED BY <1>1, <1>6, <1>7, <1>12, <2>1, <2>2 DEF CodeFits, Plain, c, n
<1>13. CASE l[i].op = "CALL"
  <2>1. CASE Settled(l)[i + 1] = n
    <3>1. c.op = "TAILCALL"
      BY <1>1, <1>4, <1>5, <1>13, <2>1
    <3> QED BY <1>1, <1>6, <1>13, <2>1, <3>1 DEF CodeFits, Plain, c, n
  <2>2. CASE Settled(l)[i + 1] # n
    <3>1. c.op = "CALL"
      BY <1>1, <1>5, <1>13, <2>2
    <3> QED BY <1>1, <1>6, <1>7, <1>13, <2>2, <3>1 DEF CodeFits, Plain, c, n
  <2> QED BY <2>1, <2>2
<1>14. CASE l[i].op \notin {"BRANCH", "COND_BRANCH", "CALL"}
  <2>1. insns[i] = l[i] /\ c.op = l[i].op /\ c.data = l[i].data /\ Settled(l)[i] = i
    BY <1>1, <1>5, <1>6, <1>14 DEF IsBranch
  <2>2. CASE l[i].op = "RETURN"
    <3>1. i = n
      BY <1>8, <2>2
    <3> QED BY <1>1, <2>1, <2>2, <3>1 DEF CodeFits, Plain, c, n
  <2>3. CASE l[i].op # "RETURN"
    <3>1. c.op \in Plain
      BY <1>8, <1>9, <1>14, <2>1, <2>3 DEF Plain, Opcodes
    <3> QED BY <1>1, <1>7, <2>1, <2>3, <3>1 DEF CodeFits, Plain, c, n
  <2> QED BY <2>2, <2>3
<1> QED BY <1>11, <1>12, <1>13, <1>14

\* What is known while the code is run.
LEMMA Here ==
    ASSUME NopsApart, IInv, phase \in {"run", "done"}
    PROVE  LET l == ListOf(form) IN
           /\ GoodList(l) /\ insns = Promoted(l) /\ next = Relinked(l, 0) /\ code = Bytecode
           /\ CodeFits(l, InsnAt(pc), pc)
<1> DEFINE l == ListOf(form)
<1>1. GoodList(l)
  BY ListsAreGood DEF IInv
<1>2. insns = Promoted(l) /\ next = Relinked(l, 0) /\ code = Bytecode
  BY DEF IInv, InPass, InCode
<1> HIDE DEF l
<1>3. PICK i \in Kept(l) : pc = Offsets[i]
  <2>1. Linked = Kept(l)
    BY <1>1, <1>2, CodeIs
  <2> QED BY <2>1 DEF IInv, InCode
<1>4. CodeFits(l, i, pc)
  BY <1>1, <1>2, <1>3, CodeIsRight
<1>5. i = InsnAt(pc)
  BY <1>4 DEF CodeFits
<1> QED BY <1>1, <1>2, <1>4, <1>5 DEF l

\* A step of the run leads to instruction k of the list.
Goes(l, k) ==
    /\ UNCHANGED <<form, x, insns, next, cursor, code>>
    /\ InsnAt(pc)' \in Kept(l) /\ InsnAt(pc) < InsnAt(pc)' /\ pc < pc'
    /\ Settled(l)[InsnAt(pc)'] = k

LEMMA StepGoes ==
    ASSUME NopsApart, IInv, phase = "run", NEW k, Leads(ListOf(form), InsnAt(pc), pc', k),
           UNCHANGED <<form, x, phase, insns, next, cursor, code>>
    PROVE  IInv' /\ Goes(ListOf(form), k)
<1> DEFINE l == ListOf(form)
<1>1. /\ GoodList(l) /\ insns = Promoted(l) /\ next = Relinked(l, 0) /\ code = Bytecode
      /\ CodeFits(l, InsnAt(pc), pc)
  BY Here
<1>2. Leads(l, InsnAt(pc), pc', k)
  OBVIOUS
<1>3. l' = l
  BY DEF ListOf
<1>4. InPass(phase, l)'
  BY <1>3 DEF IInv, InPass
<1> HIDE DEF l
<1>5. PICK j \in Kept(l) : InsnAt(pc) < j /\ pc' = Offsets[j] /\ Settled(l)[j] = k
  BY <1>2 DEF Leads
<1>6. Linked' = Linked /\ Offsets' = Offsets /\ Bytecode' = Bytecode /\ \A o : InsnAt(o)' = InsnAt(o)
  BY CodeKept
<1>7. InsnAt(pc)' = j
  <2>1. InsnAt(pc)' = InsnAt(pc')
    BY <1>6 DEF InsnAt
  <2>2. InsnAt(Offsets[j]) = j
    BY <1>1, CodeIs
  <2> QED BY <1>5, <2>1, <2>2
<1>8. Linked = Kept(l)
  BY <1>1, CodeIs
<1>9. InCode'
  BY <1>1, <1>5, <1>6, <1>8 DEF InCode
<1>10. pc < pc'
  <2> DEFINE i == InsnAt(pc)
  <2>1. i \in Kept(l) /\ pc = Offsets[i] /\ i < j
    BY <1>1, <1>5 DEF CodeFits
  <2> HIDE DEF i
  <2>2. Offsets[i] + 1 + Size(insns[i].op) <= Offsets[j] /\ Offsets[i] \in Nat /\ Offsets[j] \in Nat
    BY <1>1, <2>1, CodeIs DEF OffsetsFit
  <2> QED BY <1>5, <2>1, <2>2, SizeIsNat
<1>11. IInv'
  BY <1>4, <1>9 DEF IInv, l
<1>12. Goes(l, k)
  BY <1>5, <1>7, <1>10 DEF Goes
<1> QED BY <1>11, <1>12 DEF l

\* The instructions that go on to the next one.
LEMMA AdvanceGoes ==
    ASSUME NopsApart, IInv, NEW op \in Plain \cup {"CALL"}, At(op), Advance,
           UNCHANGED <<form, x, phase, insns, next, cursor, code>>
    PROVE  LET l == ListOf(form)
               i == InsnAt(pc)
           IN  /\ IInv' /\ Goes(l, Settled(l)[i + 1])
               /\ Settled(l)[i] = i
               /\ op \in Plain => l[i].op = op /\ l[i].data = Data
               /\ op = "CALL" => l[i].op = "CALL" /\ Settled(l)[i + 1] # Len(l)
<1> DEFINE l == ListOf(form)
           i == InsnAt(pc)
           k == Settled(l)[i + 1]
<1>1. phase = "run" /\ code[pc].op = op /\ pc' = pc + 1 + Size(op)
  BY DEF At, Advance
<1>2. CodeFits(l, i, pc)
  BY <1>1, Here
<1>3. Leads(l, InsnAt(pc), pc', k)
  BY <1>1, <1>2 DEF CodeFits
<1> HIDE DEF k
<1>4. IInv' /\ Goes(l, k)
  BY <1>1, <1>3, StepGoes
<1>5. op # "CALL" \/ op \notin Plain
  BY DEF Plain
<1> HIDE DEF l, i
<1>6. /\ Settled(l)[i] = i
      /\ op \in Plain => l[i].op = op /\ l[i].data = Data
      /\ op = "CALL" => l[i].op = "CALL" /\ Settled(l)[i + 1] # Len(l)
  BY <1>1, <1>2 DEF CodeFits, Data, Plain
<1> QED BY <1>4, <1>6 DEF k, l, i

LEMMA BranchGoes ==
    ASSUME NopsApart, IInv, Branch
    PROVE  IInv' /\ Goes(ListOf(form), Settled(ListOf(form))[InsnAt(pc)])
<1> DEFINE l == ListOf(form)
           k == Settled(l)[InsnAt(pc)]
<1>1. phase = "run" /\ code[pc].op = "BRANCH" /\ pc' = pc + 3 + code[pc].data
      /\ UNCHANGED <<form, x, phase, insns, next, cursor, code>>
  BY DEF Branch, At, Execute, Data
<1>2. Leads(l, InsnAt(pc), pc', k)
  BY <1>1, Here DEF CodeFits
<1> HIDE DEF k
<1>3. IInv' /\ Goes(l, k)
  BY <1>1, <1>2, StepGoes
<1> QED BY <1>3 DEF k

LEMMA CondBranchGoes ==
    ASSUME NopsApart, IInv, CondBranch
    PROVE  LET l == ListOf(form)
               i == InsnAt(pc)
           IN  /\ IInv' /\ Settled(l)[i] = i /\ l[i].op = "COND_BRANCH"
               /\ Goes(l, Settled(l)[i + IF temps[1] # False THEN l[i].to ELSE 1])
<1> DEFINE l == ListOf(form)
           i == InsnAt(pc)
           k == Settled(l)[i + IF temps[1] # False THEN l[i].to ELSE 1]
<1>1. phase = "run" /\ code[pc].op = "COND_BRANCH"
      /\ pc' = pc + 3 + (IF temps[1] # False THEN code[pc].data ELSE 0)
      /\ UNCHANGED <<form, x, phase, insns, next, cursor, code>>
  BY DEF CondBranch, At, Execute, Data
<1>2. CodeFits(l, i, pc)
  BY <1>1, Here
<1>3. Settled(l)[i] = i /\ l[i].op = "COND_BRANCH"
  BY <1>1, <1>2 DEF CodeFits
<1>4. Leads(l, InsnAt(pc), pc', k)
  <2>1. CASE temps[1] # False
    BY <1>1, <1>2, <2>1 DEF CodeFits
  <2>2. CASE temps[1] = False
    <3>1. Leads(l, InsnAt(pc), pc + 1 + Size("COND_BRANCH"), Settled(l)[i + 1])
      BY <1>1, <1>2 DEF CodeFits
    <3>2. Size("COND_BRANCH") = 2
      BY DEF Size
    <3>3. pc \in Nat
      <4>1. Offsets[i] \in Nat /\ pc = Offsets[i]
        BY <1>1, <1>2, Here, CodeIs DEF CodeFits, OffsetsFit
      <4> QED BY <4>1
    <3>4. pc' = pc + 1 + Size("COND_BRANCH")
      BY <1>1, <2>2, <3>2, <3>3
    <3> QED BY <2>2, <3>1, <3>4
  <2> QED BY <2>1, <2>2
<1> HIDE DEF k
<1>5. IInv' /\ Goes(l, k)
  BY <1>1, <1>4, StepGoes
<1> QED BY <1>3, <1>5 DEF k

LEMMA AssembleStep ==
    ASSUME NopsApart, IInv, Assemble
    PROVE  /\ IInv'
           /\ Settled(ListOf(form))[InsnAt(pc)'] = Settled(ListOf(form))[1]
<1> DEFINE l == ListOf(form)
<1>1. GoodList(l)
  BY ListsAreGood DEF IInv
<1>2. phase = "assemble" /\ phase' = "run" /\ code' = Bytecode
      /\ UNCHANGED <<form, x, insns, next, cursor, pc>>
  BY DEF Assemble
<1>3. insns = Promoted(l) /\ next = Relinked(l, 0) /\ pc = 0 /\ cursor = 0
  BY <1>2 DEF IInv, InPass
<1>4. l' = l
  BY <1>2 DEF ListOf
<1>5. InPass(phase, l)'
  BY <1>2, <1>3, <1>4 DEF InPass
<1> HIDE DEF l
<1>6. Linked' = Linked /\ Offsets' = Offsets /\ Bytecode' = Bytecode /\ \A o : InsnAt(o)' = InsnAt(o)
  BY <1>2, CodeKept
<1>7. PICK j \in Kept(l) : Relinked(l, 0)[j] = 0 /\ Settled(l)[j] = Settled(l)[1]
  BY <1>1, FirstKept
<1>8. Offsets[j] = 0 /\ InsnAt(Offsets[j]) = j /\ Linked = Kept(l)
  BY <1>1, <1>3, <1>7, CodeIs DEF OffsetsFit
<1>9. InCode'
  BY <1>2, <1>3, <1>6, <1>8 DEF InCode
<1>10. InsnAt(pc)' = j
  <2>1. InsnAt(pc)' = InsnAt(pc')
    BY <1>6 DEF InsnAt
  <2> QED BY <1>2, <1>3, <1>8, <2>1
<1>11. IInv'
  BY <1>2, <1>5, <1>9 DEF IInv, Phases, l
<1> QED BY <1>7, <1>10, <1>11 DEF l

LEMMA ReturnStep ==
    ASSUME NopsApart, IInv, Return \/ Break
    PROVE  IInv'
<1>1. phase = "run" /\ phase' = "done" /\ UNCHANGED <<form, x, insns, next, cursor, code, pc>>
  BY DEF Return, Break, At
<1>2. InPass(phase, ListOf(form))'
  <2>1. ListOf(form)' = ListOf(form)
    BY <1>1 DEF ListOf
  <2> QED BY <1>1, <2>1 DEF IInv, InPass
<1>3. Linked' = Linked /\ Offsets' = Offsets /\ Bytecode' = Bytecode
  BY <1>1, CodeKept
<1>4. InCode'
  BY <1>1, <1>3 DEF IInv, InCode
<1> QED BY <1>1, <1>2, <1>4 DEF IInv, Phases

\* The instructions that advance, as AdvanceGoes has them.
Advances(op) ==
    At(op) /\ Advance /\ UNCHANGED <<form, x, phase, insns, next, cursor, code>>

LEMMA AdvancesAre ==
    /\ LoadImmediate => Advances("LDIMM")
    /\ LoadSlot => Advances("LDSLOT")
    /\ StoreSlot => Advances("STSLOT")
    /\ GetBoundLocation => Advances("GET_BOUND_LOCATION")
    /\ LoadGlobal => Advances("LOAD")
    /\ StoreGlobal => Advances("STORE")
    /\ Op => Advances("OP")
    /\ Call => Advances("CALL")
BY DEF Advances, LoadImmediate, LoadSlot, StoreSlot, GetBoundLocation, LoadGlobal, StoreGlobal, Op, Call,
       Execute

LEMMA RunningStep ==
    ASSUME NopsApart, IInv, Running
    PROVE  IInv' /\ (pc' > pc \/ phase' = "done")
<1>1. ASSUME NEW op \in Plain \cup {"CALL"}, Advances(op) PROVE IInv' /\ pc' > pc
  BY <1>1, AdvanceGoes DEF Advances, Goes
<1>2. CASE \/ LoadImmediate \/ LoadSlot \/ StoreSlot \/ GetBoundLocation \/ LoadGlobal \/ StoreGlobal
           \/ Op \/ Call
  <2>1. \E op \in Plain \cup {"CALL"} : Advances(op)
    BY <1>2, AdvancesAre DEF Plain
  <2> QED BY <1>1, <2>1
<1>3. CASE Branch
  BY <1>3, BranchGoes DEF Goes
<1>4. CASE CondBranch
  BY <1>4, CondBranchGoes DEF Goes
<1>5. CASE Return \/ Break
  BY <1>5, ReturnStep DEF Return, Break
<1> QED BY <1>2, <1>3, <1>4, <1>5 DEF Running

LEMMA Invariance ==
    ASSUME NopsApart
    PROVE  Spec => []IInv
<1>1. Init => IInv
  <2> SUFFICES ASSUME Init PROVE IInv
    OBVIOUS
  <2>1. InPass(phase, ListOf(form))
    BY DEF Init, InPass
  <2> QED BY <2>1 DEF Init, IInv, Phases
<1>2. IInv /\ [Next]_vars => IInv'
  <2> SUFFICES ASSUME IInv, [Next]_vars PROVE IInv'
    OBVIOUS
  <2>1. CASE CompileBody
    BY <2>1, CompileStep
  <2>2. CASE CollapseNops
    BY <2>2, CollapseStep
  <2>3. CASE EliminateBranchToReturn
    BY <2>3, EliminateStep
  <2>4. CASE PromoteTailcalls
    BY <2>4, PromoteStep
  <2>5. CASE Assemble
    BY <2>5, AssembleStep
  <2>6. CASE Running
    BY <2>6, RunningStep
  <2>7. CASE UNCHANGED vars
    <3>1. UNCHANGED <<form, x, phase, insns, next, cursor, code, pc>>
      BY <2>7 DEF vars, vmVars
    <3>2. ListOf(form)' = ListOf(form)
      BY <3>1 DEF ListOf
    <3>3. InPass(phase, ListOf(form))'
      BY <3>1, <3>2 DEF IInv, InPass
    <3>4. Linked' = Linked /\ Offsets' = Offsets /\ Bytecode' = Bytecode
      BY <3>1, CodeKept
    <3>5. phase \in {"run", "done"} => InCode'
      BY <3>1, <3>4 DEF IInv, InCode
    <3> QED BY <3>1, <3>3, <3>5 DEF IInv
  <2> QED BY <2>1, <2>2, <2>3, <2>4, <2>5, <2>6, <2>7 DEF Next, Compiling, Done
<1> QED BY <1>1, <1>2, PTL DEF Spec
-----------------------------------------------------------------------------
(***************************************************************************)
(* The theorems.                                                           *)
(***************************************************************************)
\* TypeOK: the passes stay in the list, and the run of the code (vm_run) comes to no offset that begins
\* no instruction.
THEOREM TypeCorrect ==
    ASSUME NopsApart
    PROVE  Spec => []TypeOK
<1>1. ASSUME IInv PROVE TypeOK
  <2> DEFINE l == ListOf(form)
  <2>1. GoodList(l)
    BY <1>1, ListsAreGood DEF IInv
  <2>2. phase = "run" => pc \in DOMAIN code
    BY <1>1, Here DEF CodeFits
  <2>3. InPass(phase, l) /\ x \in Arguments /\ phase \in Phases
    BY <1>1 DEF IInv
  <2> HIDE DEF l
  <2>4. CASE phase = "compile"
    BY <2>2, <2>3, <2>4 DEF TypeOK, Phases, InPass
  <2>5. CASE phase # "compile"
    <3> DEFINE n == Len(l)
    <3>1. n \in Nat /\ 0 \in Nat /\ n \in 1..n
      BY <2>1, GoodFacts
    <3>2. PICK c \in Nat : next = Relinked(l, c)
      BY <2>3, <2>5, <3>1 DEF InPass, Phases
    <3>3. cursor \in 0..n /\ Len(insns) = n
      <4>1. phase = "collapse" => cursor \in 1..n /\ cursor \in Nat /\ insns = Collapsed(l, cursor)
        BY <2>3, <3>1 DEF InPass
      <4>2. phase = "eliminate" => cursor \in 1..n /\ cursor \in Nat /\ insns = Eliminated(l, cursor)
        BY <2>1, <2>3, <3>1, SettledFacts DEF InPass
      <4>3. phase = "promote" => cursor \in 0..n /\ insns = Eliminated(l, 0)
        BY <2>3 DEF InPass
      <4>4. phase \in {"assemble", "run", "done"} => cursor \in 0..n /\ insns = Promoted(l)
        BY <2>3, <3>1 DEF InPass
      <4>5. \A m \in Nat : Len(Collapsed(l, m)) = n /\ Len(Eliminated(l, m)) = n /\ Len(Promoted(l)) = n
        BY <2>1, PassLengths
      <4>6. 1..n \subseteq 0..n
        BY <3>1
      <4> HIDE DEF n
      <4> QED BY <2>3, <2>5, <3>1, <4>1, <4>2, <4>3, <4>4, <4>5, <4>6 DEF Phases
    <3>4. Relinked(l, c) \in Seq(0..n) /\ Len(Relinked(l, c)) = n
      <4>1. \A i \in 1..n : Relinked(l, c)[i] \in 0..n
        BY <3>1, <3>2 DEF Relinked
      <4>2. Relinked(l, c) = [i \in 1..n |-> Relinked(l, c)[i]] /\ Len(Relinked(l, c)) = n
        BY <2>1, PassLengths DEF Relinked
      <4> HIDE DEF n
      <4>3. Relinked(l, c) \in [1..n -> 0..n]
        BY <4>1, <4>2
      <4> QED BY <3>1, <4>2, <4>3
    <3> HIDE DEF n
    <3> QED BY <2>2, <2>3, <3>2, <3>3, <3>4 DEF TypeOK, Phases
  <2> QED BY <2>4, <2>5
<1> QED BY <1>1, Invariance, PTL

\* BranchesLand: collapse_nops leaves no branch to a nop that it has taken out.
THEOREM BranchesAlwaysLand ==
    ASSUME NopsApart
    PROVE  Spec => []BranchesLand
<1>1. ASSUME IInv PROVE BranchesLand
  <2> DEFINE l == ListOf(form)
  <2> SUFFICES ASSUME phase = "run", NEW i \in Linked, IsBranch(i) PROVE Target(i) \in Linked
    BY DEF BranchesLand
  <2>1. GoodList(l) /\ insns = Promoted(l) /\ next = Relinked(l, 0)
    BY <1>1, Here
  <2> HIDE DEF l
  <2>2. Linked = Kept(l)
    BY <2>1, CodeIs
  <2> DEFINE t == Past(l, 0, i + l[i].to)
  <2>3. /\ l[i].op \in {"BRANCH", "COND_BRANCH"} => t \in Kept(l) /\ t \in i + 1..Len(l)
        /\ l[i].op = "BRANCH" =>
               insns[i] = IF Settled(l)[i] = Len(l) THEN Insn("RETURN", 0, 0)
                          ELSE Insn("BRANCH", l[i].data, t - i)
        /\ l[i].op = "COND_BRANCH" => insns[i] = Insn("COND_BRANCH", l[i].data, t - i)
        /\ l[i].op = "CALL" =>
               insns[i] = IF Settled(l)[i + 1] = Len(l) THEN Insn("TAILCALL", l[i].data, l[i].to) ELSE l[i]
        /\ l[i].op \notin {"BRANCH", "COND_BRANCH", "CALL"} => insns[i] = l[i]
    BY <2>1, <2>2, PromotedIs
  <2>4. \A op, d, to : Insn(op, d, to).op = op /\ Insn(op, d, to).to = to
    BY DEF Insn
  <2>5. i \in Nat /\ Len(l) \in Nat
    BY <2>1, <2>2, SettledFacts, GoodFacts
  <2> HIDE DEF t
  <2>6. l[i].op \in {"BRANCH", "COND_BRANCH"} /\ insns[i].to = t - i
    BY <2>3, <2>4 DEF IsBranch
  <2>7. Target(i) = t /\ t \in Kept(l)
    BY <2>3, <2>5, <2>6 DEF Target
  <2> QED BY <2>2, <2>7
<1> QED BY <1>1, Invariance, PTL

\* StepsForward: every instruction of the code goes on to one further on.
THEOREM GoesForward ==
    ASSUME NopsApart
    PROVE  Spec => StepsForward
<1>1. ASSUME IInv, Next, phase = "run" PROVE pc' > pc \/ phase' = "done" \/ UNCHANGED vars
  <2>1. Running \/ UNCHANGED vars
    BY <1>1 DEF Next, Compiling, Done, CompileBody, CollapseNops, EliminateBranchToReturn, PromoteTailcalls,
                Assemble, Pass
  <2> QED BY <1>1, <2>1, RunningStep
<1>2. IInv /\ [Next]_vars => [phase = "run" => pc' > pc \/ phase' = "done"]_vars
  BY <1>1
<1> QED BY <1>2, Invariance, PTL DEF Spec, StepsForward

\* No return follows an instruction that leads to another one than the return of the list.
LEMMA NoReturnFollows ==
    ASSUME NEW l, GoodList(l), insns = Promoted(l), next = Relinked(l, 0), code = Bytecode,
           NEW j \in Kept(l), Settled(l)[j] # Len(l)
    PROVE  ~Returns(Offsets[j])
<1> DEFINE n == Len(l)
           s == Settled(l)
           off == Offsets
           L == Kept(l)
           D == DOMAIN code
           to(p) == p + 3 + code[p].data
           body(f, p) == IF code[p].op = "BRANCH" THEN f[to(p)] ELSE p
           land == CHOOSE f : f = [p \in D |-> body(f, p)]
<1>1. n \in Nat /\ \A i \in L : i \in 1..n
  BY GoodFacts, SettledFacts
<1>2. D = {off[i] : i \in L}
  BY CodeIs
<1>3. ASSUME NEW i \in L
      PROVE  /\ InsnAt(off[i]) = i /\ off[i] \in D
             /\ code[off[i]].op \notin {"BRANCH", "RETURN"} => s[i] = i
             /\ code[off[i]].op = "RETURN" => s[i] = n
             /\ code[off[i]].op = "BRANCH" =>
                    s[i] # n /\ \E t \in L : i < t /\ to(off[i]) = off[t] /\ s[t] = s[i]
  <2>1. CodeFits(l, i, Offsets[i])
    BY CodeIsRight
  <2> QED BY <2>1 DEF CodeFits, Leads
<1> HIDE DEF to, s, off, L, D, n
<1>4. \E f : f = [p \in D |-> body(f, p)]
  <2> DEFINE f == [p \in D |-> IF code[p].op = "RETURN" THEN p ELSE off[s[InsnAt(p)]]]
  <2>1. ASSUME NEW p \in D PROVE f[p] = body(f, p)
    <3>1. PICK i \in L : p = off[i]
      BY <1>2
    <3>2. CASE code[p].op = "BRANCH"
      <4>1. PICK t \in L : to(p) = off[t] /\ s[t] = s[i] /\ s[i] # n
        BY <1>3, <3>1, <3>2
      <4>2. f[p] = off[s[i]]
        BY <1>3, <3>1, <3>2
      <4>3. code[off[t]].op # "RETURN" /\ off[t] \in D /\ InsnAt(off[t]) = t
        BY <1>3, <4>1
      <4>4. f[off[t]] = off[s[t]]
        BY <4>3
      <4> HIDE DEF f
      <4> QED BY <3>2, <4>1, <4>2, <4>4
    <3>3. CASE code[p].op = "RETURN"
      BY <3>3
    <3>4. CASE code[p].op \notin {"BRANCH", "RETURN"}
      <4>1. s[i] = i /\ InsnAt(p) = i
        BY <1>3, <3>1, <3>4
      <4> QED BY <3>1, <3>4, <4>1
    <3> QED BY <3>2, <3>3, <3>4
  <2> HIDE DEF body
  <2>2. f = [p \in D |-> body(f, p)]
    BY <2>1
  <2> QED BY <2>2
<1>5. land = [p \in D |-> body(land, p)]
  <2> HIDE DEF body
  <2> QED BY <1>4
<1>6. \A o : Returns(o) <=> code[land[o]].op = "RETURN"
  BY DEF Returns, to, D
<1> HIDE DEF land
<1>7. ASSUME NEW i \in L
      PROVE  land[off[i]] = IF code[off[i]].op = "BRANCH" THEN land[to(off[i])] ELSE off[i]
  <2>1. off[i] \in D
    BY <1>3
  <2>2. land[off[i]] = body(land, off[i])
    <3> HIDE DEF body
    <3> QED BY <1>5, <2>1
  <2> QED BY <2>2
<1> DEFINE G == {k \in Nat : \A i \in L : i >= n - k /\ s[i] # n => code[land[off[i]]].op # "RETURN"}
<1>8. ASSUME NEW i \in L, s[i] # n, \A t \in L : i < t /\ s[t] # n => code[land[off[t]]].op # "RETURN"
      PROVE  code[land[off[i]]].op # "RETURN"
  <2>1. CASE code[off[i]].op = "BRANCH"
    <3>1. PICK t \in L : i < t /\ to(off[i]) = off[t] /\ s[t] = s[i]
      BY <1>3, <2>1
    <3> QED BY <1>7, <1>8, <2>1, <3>1
  <2>2. CASE code[off[i]].op # "BRANCH"
    BY <1>3, <1>7, <1>8, <2>2
  <2> QED BY <2>1, <2>2
<1>9. 0 \in G
  <2> SUFFICES ASSUME NEW i \in L, i >= n, s[i] # n PROVE code[land[off[i]]].op # "RETURN"
    BY <1>1
  <2>1. \A t \in L : ~(i < t)
    BY <1>1
  <2> QED BY <1>8, <2>1
<1>10. ASSUME NEW k \in G PROVE k + 1 \in G
  <2> SUFFICES ASSUME NEW i \in L, i >= n - (k + 1), s[i] # n PROVE code[land[off[i]]].op # "RETURN"
    BY <1>10
  <2>1. ASSUME NEW t \in L, i < t, s[t] # n PROVE code[land[off[t]]].op # "RETURN"
    <3>1. t >= n - k
      BY <1>1, <1>10, <2>1
    <3> QED BY <1>10, <2>1, <3>1
  <2> QED BY <1>8, <2>1
<1>11. G = Nat
  <2> HIDE DEF G
  <2>1. G \in SUBSET Nat
    BY DEF G
  <2> QED BY <1>9, <1>10, <2>1, SetInduction
<1>12. j \in L /\ s[j] # n /\ n \in G /\ j >= n - n
  <2>1. j \in L /\ s[j] # n
    BY DEF L, s, n
  <2> QED BY <1>1, <1>11, <2>1
<1>13. code[land[off[j]]].op # "RETURN"
  BY <1>12
<1> QED BY <1>6, <1>13 DEF off

\* ProperTailCalls: promote_tailcalls leaves no call that a return follows, not even over the branches
\* of the ifs around it, since eliminate_branch_to_return has made returns of these.
THEOREM TailCallsAreProper ==
    ASSUME NopsApart
    PROVE  Spec => []ProperTailCalls
<1>1. ASSUME IInv PROVE ProperTailCalls
  <2> DEFINE l == ListOf(form)
             i == InsnAt(pc)
  <2> SUFFICES ASSUME At("CALL") PROVE ~Returns(pc + 3)
    BY DEF ProperTailCalls
  <2>1. phase = "run" /\ code[pc].op = "CALL"
    BY DEF At
  <2>2. GoodList(l) /\ insns = Promoted(l) /\ next = Relinked(l, 0) /\ code = Bytecode /\ CodeFits(l, i, pc)
    BY <1>1, <2>1, Here
  <2> HIDE DEF l, i
  <2>3. Leads(l, i, pc + 1 + Size("CALL"), Settled(l)[i + 1]) /\ Settled(l)[i + 1] # Len(l)
    BY <2>1, <2>2 DEF CodeFits
  <2>4. PICK j \in Kept(l) : pc + 1 + Size("CALL") = Offsets[j] /\ Settled(l)[j] # Len(l)
    BY <2>3 DEF Leads
  <2>5. pc \in Nat
    BY <2>2, CodeIs DEF CodeFits, OffsetsFit
  <2>6. pc + 3 = Offsets[j]
    BY <2>4, <2>5 DEF Size
  <2> QED BY <2>2, <2>4, <2>6, NoReturnFollows
<1> QED BY <1>1, Invariance, PTL
-----------------------------------------------------------------------------
(***************************************************************************)
(* The code does what the list says.                                       *)
(***************************************************************************)
\* Where the run is in the list.
Place == IF phase \in {"run", "done"} THEN Settled(ListOf(form))[InsnAt(pc)] ELSE 0

LEMMA SettledSame == \A l : Straight!Settled(l) = Settled(l)
BY DEF Straight!Settled, Settled

LEMMA FaultySame == \A op, t : Straight!Faulty(op, t) <=> Faulty(op, t)
BY DEF Straight!Faulty, Faulty, Straight!IsBoolean, IsBoolean, Straight!IsBound, IsBound,
       Straight!IsNumber, IsNumber, Straight!False, False, Straight!True, True,
       Straight!Unspecified, Unspecified, Straight!Procedure, Procedure

LEMMA StraightIs ==
    /\ Straight!List = ListOf(form)
    /\ Straight!Here = ListOf(form)[Place]
    /\ \A op : Straight!Running(op) <=> Place # 0 /\ phase # "done" /\ ListOf(form)[Place].op = op
    /\ \A op, n, pushed, to :
          Straight!Execute(op, n, pushed, to) <=>
              /\ Straight!Running(op) /\ Len(temps) >= n /\ ~Faulty(op, temps)
              /\ temps' = pushed \o SubSeq(temps, n + 1, Len(temps))
              /\ Place' = Settled(ListOf(form))[Place + to]
              /\ UNCHANGED <<form, x, result>> /\ (phase = "done")' = (phase = "done")
<1>1. Straight!List = ListOf(form)
  BY DEF Straight!List, Straight!ListOf, ListOf, Straight!Insn, Insn
<1>2. Straight!Here = ListOf(form)[Place]
  BY <1>1 DEF Straight!Here, Place
<1>3. ASSUME NEW op
      PROVE  Straight!Running(op) <=> Place # 0 /\ phase # "done" /\ ListOf(form)[Place].op = op
  BY <1>2 DEF Straight!Running, Place
<1>4. ASSUME NEW op, NEW n, NEW pushed, NEW to
      PROVE  Straight!Execute(op, n, pushed, to) <=>
                 /\ Straight!Running(op) /\ Len(temps) >= n /\ ~Faulty(op, temps)
                 /\ temps' = pushed \o SubSeq(temps, n + 1, Len(temps))
                 /\ Place' = Settled(ListOf(form))[Place + to]
                 /\ UNCHANGED <<form, x, result>> /\ (phase = "done")' = (phase = "done")
  BY <1>1, SettledSame, FaultySame DEF Straight!Execute, Place
<1> QED BY <1>1, <1>2, <1>3, <1>4

LEMMA PlaceIs ==
    ASSUME NopsApart, IInv, phase \in {"run", "done"}
    PROVE  /\ Place = Settled(ListOf(form))[InsnAt(pc)] /\ Place # 0
<1>1. GoodList(ListOf(form)) /\ CodeFits(ListOf(form), InsnAt(pc), pc)
  BY Here
<1>2. InsnAt(pc) \in 1..Len(ListOf(form))
  BY <1>1, SettledFacts DEF CodeFits
<1>3. Settled(ListOf(form))[InsnAt(pc)] \in InsnAt(pc)..Len(ListOf(form))
  BY <1>1, <1>2, SettledIs
<1> QED BY <1>2, <1>3 DEF Place

\* An instruction of the code that goes on as the list does.
LEMMA ExecuteMaps ==
    ASSUME NopsApart, IInv, NEW op, NEW n, NEW pushed, NEW to, Execute(op, n, pushed),
           Settled(ListOf(form))[InsnAt(pc)] = InsnAt(pc), ListOf(form)[InsnAt(pc)].op = op,
           IInv', Goes(ListOf(form), Settled(ListOf(form))[InsnAt(pc) + to])
    PROVE  /\ Straight!Running(op) /\ Straight!Here = ListOf(form)[InsnAt(pc)]
           /\ Straight!Execute(op, n, pushed, to)
<1>1. /\ phase = "run" /\ Len(temps) >= n /\ ~Faulty(op, temps)
      /\ temps' = pushed \o SubSeq(temps, n + 1, Len(temps))
      /\ UNCHANGED <<form, x, phase, result>>
  BY DEF Execute, At
<1>2. Place = InsnAt(pc) /\ Place # 0
  BY <1>1, PlaceIs
<1>3. Straight!Running(op) /\ Straight!Here = ListOf(form)[InsnAt(pc)]
  BY <1>1, <1>2, StraightIs
<1>4. Place' = Settled(ListOf(form))[InsnAt(pc)']
  <2>1. ListOf(form)' = ListOf(form)
    BY <1>1 DEF ListOf
  <2>2. Settled(ListOf(form))' = Settled(ListOf(form))
    BY <2>1 DEF Settled
  <2> QED BY <1>1, <2>2 DEF Place
<1>5. Place' = Settled(ListOf(form))[Place + to]
  BY <1>2, <1>4 DEF Goes
<1> QED BY <1>1, <1>3, <1>5, StraightIs

LEMMA AdvanceMaps ==
    ASSUME NopsApart, IInv, NEW op \in Plain \cup {"CALL"}, NEW n, NEW pushed, Execute(op, n, pushed), Advance
    PROVE  /\ Straight!Execute(op, n, pushed, 1) /\ Straight!Running(op)
           /\ op \in Plain => Straight!Here.data = Data
           /\ op = "CALL" => ~Straight!LastCall
<1>1. At(op) /\ UNCHANGED <<form, x, phase, insns, next, cursor, code>>
  BY DEF Execute
<1> DEFINE l == ListOf(form)
           i == InsnAt(pc)
<1>2. /\ IInv' /\ Goes(l, Settled(l)[i + 1]) /\ Settled(l)[i] = i
      /\ op \in Plain => l[i].op = op /\ l[i].data = Data
      /\ op = "CALL" => l[i].op = "CALL" /\ Settled(l)[i + 1] # Len(l)
  BY <1>1, AdvanceGoes
<1>3. Straight!Running(op) /\ Straight!Here = l[i] /\ Straight!Execute(op, n, pushed, 1)
  BY <1>2, ExecuteMaps
<1>4. op = "CALL" => ~Straight!LastCall
  <2> SUFFICES ASSUME op = "CALL", Straight!LastCall PROVE FALSE
    OBVIOUS
  <2>1. phase = "run" /\ GoodList(l) /\ i \in 1..Len(l) /\ Place = i
    BY <1>1, <1>2, Here, PlaceIs, SettledFacts DEF At, CodeFits
  <2>2. l[Settled(l)[i + 1]].op = "RETURN"
    BY <2>1, StraightIs, SettledSame DEF Straight!LastCall, Place
  <2>3. i + 1 \in 1..Len(l)
    <3>1. i # Len(l)
      BY <1>2, <2>1, GoodFacts
    <3> QED BY <2>1, <3>1, GoodFacts
  <2>4. Settled(l)[i + 1] \in 1..Len(l)
    BY <2>1, <2>3, SettledIs
  <2> QED BY <1>2, <2>1, <2>2, <2>4, GoodFacts
<1> QED BY <1>2, <1>3, <1>4

LEMMA AdvancesMap ==
    ASSUME NopsApart, IInv
    PROVE  /\ LoadImmediate => Straight!LoadImmediate
           /\ LoadSlot => Straight!LoadSlot
           /\ StoreSlot => Straight!StoreSlot
           /\ GetBoundLocation => Straight!GetBoundLocation
           /\ LoadGlobal => Straight!LoadGlobal
           /\ StoreGlobal => Straight!StoreGlobal
           /\ Op => Straight!Op
           /\ Call => Straight!Call
<1>1. ASSUME LoadImmediate PROVE Straight!LoadImmediate
  <2> DEFINE pushed == <<Data>>
  <2>1. Execute("LDIMM", 0, pushed) /\ Advance
    BY <1>1 DEF LoadImmediate
  <2> HIDE DEF pushed
  <2>2. Straight!Execute("LDIMM", 0, pushed, 1) /\ Straight!Running("LDIMM") /\ Straight!Here.data = Data
    BY <2>1, AdvanceMaps DEF Plain
  <2> QED BY <1>1, <2>2 DEF LoadImmediate, Straight!LoadImmediate, pushed
<1>2. ASSUME LoadSlot PROVE Straight!LoadSlot
  <2> DEFINE pushed == <<slots[Data]>>
  <2>1. Execute("LDSLOT", 0, pushed) /\ Advance
    BY <1>2 DEF LoadSlot
  <2> HIDE DEF pushed
  <2>2. Straight!Execute("LDSLOT", 0, pushed, 1) /\ Straight!Running("LDSLOT") /\ Straight!Here.data = Data
    BY <2>1, AdvanceMaps DEF Plain
  <2> QED BY <1>2, <2>2 DEF LoadSlot, Straight!LoadSlot, pushed
<1>3. ASSUME StoreSlot PROVE Straight!StoreSlot
  <2> DEFINE pushed == <<>>
  <2>1. Execute("STSLOT", 1, pushed) /\ Advance
    BY <1>3 DEF StoreSlot
  <2> HIDE DEF pushed
  <2>2. Straight!Execute("STSLOT", 1, pushed, 1) /\ Straight!Running("STSLOT") /\ Straight!Here.data = Data
    BY <2>1, AdvanceMaps DEF Plain
  <2> QED BY <1>3, <2>2 DEF StoreSlot, Straight!StoreSlot, pushed
<1>4. ASSUME GetBoundLocation PROVE Straight!GetBoundLocation
  <2> DEFINE pushed == << <<"location", Data>> >>
  <2>1. Execute("GET_BOUND_LOCATION", 0, pushed) /\ Advance
    BY <1>4 DEF GetBoundLocation
  <2> HIDE DEF pushed
  <2>2. Straight!Execute("GET_BOUND_LOCATION", 0, pushed, 1) /\ Straight!Running("GET_BOUND_LOCATION") /\ Straight!Here.data = Data
    BY <2>1, AdvanceMaps DEF Plain
  <2> QED BY <1>4, <2>2 DEF GetBoundLocation, Straight!GetBoundLocation, pushed
<1>5. ASSUME LoadGlobal PROVE Straight!LoadGlobal
  <2> DEFINE pushed == << (IF temps[1] = <<"location", "y">> THEN y ELSE Procedure) >>
  <2>1. Execute("LOAD", 1, pushed) /\ Advance
    BY <1>5 DEF LoadGlobal
  <2> HIDE DEF pushed
  <2>2. Straight!Execute("LOAD", 1, pushed, 1) /\ Straight!Running("LOAD")
    BY <2>1, AdvanceMaps DEF Plain
  <2> QED BY <1>5, <2>2 DEF LoadGlobal, Straight!LoadGlobal, Straight!Procedure, Procedure, pushed
<1>6. ASSUME StoreGlobal PROVE Straight!StoreGlobal
  <2> DEFINE pushed == <<>>
  <2>1. Execute("STORE", 2, pushed) /\ Advance
    BY <1>6 DEF StoreGlobal
  <2> HIDE DEF pushed
  <2>2. Straight!Execute("STORE", 2, pushed, 1) /\ Straight!Running("STORE")
    BY <2>1, AdvanceMaps DEF Plain
  <2> QED BY <1>6, <2>2 DEF StoreGlobal, Straight!StoreGlobal, pushed
<1>7. ASSUME Op PROVE Straight!Op
  <2> DEFINE pushed == << <<"op", temps[2], temps[1]>> >>
  <2>1. Execute("OP", 2, pushed) /\ Advance
    BY <1>7 DEF Op
  <2> HIDE DEF pushed
  <2>2. Straight!Execute("OP", 2, pushed, 1) /\ Straight!Running("OP")
    BY <2>1, AdvanceMaps DEF Plain
  <2> QED BY <1>7, <2>2 DEF Op, Straight!Op, pushed
<1>8. ASSUME Call PROVE Straight!Call
  <2>1. Execute("CALL", 3, <<Called>>) /\ Advance
    BY <1>8 DEF Call
  <2>2. Straight!Execute("CALL", 3, <<Called>>, 1) /\ ~Straight!LastCall
    BY <2>1, AdvanceMaps
  <2>3. Straight!Called = Called
    BY DEF Straight!Called, Called
  <2> QED BY <1>8, <2>2, <2>3 DEF Call, Straight!Call
<1> QED BY <1>1, <1>2, <1>3, <1>4, <1>5, <1>6, <1>7, <1>8

LEMMA CondBranchMaps ==
    ASSUME NopsApart, IInv, CondBranch
    PROVE  Straight!CondBranch
<1> DEFINE l == ListOf(form)
           i == InsnAt(pc)
           to == IF temps[1] # False THEN l[i].to ELSE 1
<1>1. /\ IInv' /\ Settled(l)[i] = i /\ l[i].op = "COND_BRANCH"
      /\ Goes(l, Settled(l)[i + to])
  BY CondBranchGoes
<1>2. Execute("COND_BRANCH", 1, <<>>) /\ UNCHANGED <<slots, y>>
  BY DEF CondBranch
<1> HIDE DEF to
<1>3. Straight!Here = l[i] /\ Straight!Execute("COND_BRANCH", 1, <<>>, to)
  BY <1>1, <1>2, ExecuteMaps
<1>4. to = IF temps[1] # Straight!False THEN Straight!Here.to ELSE 1
  BY <1>3 DEF to, Straight!False, False
<1> QED BY <1>2, <1>3, <1>4 DEF Straight!CondBranch

LEMMA BranchMaps ==
    ASSUME NopsApart, IInv, Branch
    PROVE  UNCHANGED Straight!vars
<1> DEFINE l == ListOf(form)
<1>1. IInv' /\ Goes(l, Settled(l)[InsnAt(pc)])
  BY BranchGoes
<1>2. phase = "run" /\ UNCHANGED <<form, x, phase, result, slots, temps, y>>
  BY DEF Branch, At
<1>3. Place' = Place
  <2>1. l' = l
    BY <1>2 DEF ListOf
  <2>2. Settled(l)' = Settled(l)
    BY <2>1 DEF Settled
  <2> QED BY <1>1, <1>2, <2>2 DEF Goes, Place
<1> QED BY <1>2, <1>3 DEF Straight!vars, Place

\* The end of the run leaves its place as it is.
LEMMA PlaceKept ==
    ASSUME phase \in {"run", "done"}, phase' \in {"run", "done"},
           UNCHANGED <<form, insns, next, cursor, code, pc>>
    PROVE  Place' = Place
<1>1. Settled(ListOf(form))' = Settled(ListOf(form))
  BY DEF Settled, ListOf
<1>2. Linked' = Linked /\ Offsets' = Offsets
  BY CodeKept
<1>3. InsnAt(pc)' = InsnAt(pc)
  BY <1>2 DEF InsnAt
<1> QED BY <1>1, <1>3 DEF Place

LEMMA ReturnMaps ==
    ASSUME NopsApart, IInv, Return
    PROVE  Straight!Return
<1> DEFINE l == ListOf(form)
           i == InsnAt(pc)
<1>1. /\ phase = "run" /\ phase' = "done"
      /\ UNCHANGED <<form, x, insns, next, cursor, code, pc, slots, temps, y>>
      /\ \/ code[pc].op = "RETURN" /\ temps # <<>> /\ result' = temps[1]
         \/ code[pc].op = "TAILCALL" /\ Len(temps) >= 3 /\ result' = Called
  BY DEF Return, At
<1>2. GoodList(l) /\ CodeFits(l, i, pc) /\ Place = Settled(l)[i] /\ Place # 0
  BY <1>1, Here, PlaceIs
<1>3. Place' = Place
  BY <1>1, PlaceKept
<1> HIDE DEF l, i
<1>4. \/ Straight!Running("RETURN") /\ temps # <<>> /\ result' = temps[1]
      \/ Straight!LastCall /\ Len(temps) >= 3 /\ result' = Straight!Called
  <2>1. CASE code[pc].op = "RETURN"
    <3>1. Place = Len(l) /\ l[Len(l)].op = "RETURN"
      BY <1>2, <2>1, GoodFacts DEF CodeFits
    <3>2. Straight!Running("RETURN")
      BY <1>1, <1>2, <3>1, StraightIs DEF l
    <3> QED BY <1>1, <2>1, <3>2
  <2>2. CASE code[pc].op = "TAILCALL"
    <3>1. Place = i /\ l[i].op = "CALL" /\ Settled(l)[i + 1] = Len(l) /\ l[Len(l)].op = "RETURN"
      BY <1>2, <2>2, GoodFacts DEF CodeFits
    <3>2. Straight!Running("CALL")
      BY <1>1, <1>2, <3>1, StraightIs DEF l
    <3>3. Straight!LastCall
      BY <3>1, <3>2, StraightIs, SettledSame DEF Straight!LastCall, l, Place
    <3>4. Straight!Called = Called
      BY DEF Straight!Called, Called
    <3> QED BY <1>1, <2>2, <3>3, <3>4
  <2> QED BY <1>1, <2>1, <2>2
<1>5. (phase = "done")' = TRUE /\ UNCHANGED <<form, x, slots, temps, y>> /\ Place' = Place
  BY <1>1, <1>3
<1> QED BY <1>4, <1>5 DEF Straight!Return, Place

LEMMA BreakMaps ==
    ASSUME NopsApart, IInv, Break
    PROVE  Straight!Break
<1> DEFINE l == ListOf(form)
           i == InsnAt(pc)
<1>1. /\ phase = "run" /\ phase' = "done" /\ result' = Stopped
      /\ UNCHANGED <<form, x, insns, next, cursor, code, pc, slots, temps, y>>
  BY DEF Break, At
<1>2. PICK op \in {"COND_BRANCH", "LOAD", "OP"} : code[pc].op = op /\ Faulty(op, temps)
  BY DEF Break, At
<1>3. GoodList(l) /\ CodeFits(l, i, pc) /\ Place = Settled(l)[i] /\ Place # 0
  BY <1>1, Here, PlaceIs
<1>4. Place' = Place
  BY <1>1, PlaceKept
<1>5. Settled(l)[i] = i /\ l[i].op = op
  <2>1. CASE op = "COND_BRANCH"
    BY <1>2, <1>3, <2>1 DEF CodeFits
  <2>2. CASE op \in {"LOAD", "OP"}
    BY <1>2, <1>3, <2>2 DEF CodeFits, Plain
  <2> QED BY <2>1, <2>2
<1>6. Faulty(Straight!Here.op, temps)
  BY <1>2, <1>3, <1>5, StraightIs
<1>7. (phase = "done")' = TRUE /\ UNCHANGED <<form, x, slots, temps, y>> /\ result' = Straight!Stopped
  BY <1>1 DEF Straight!Stopped, Stopped
<1> QED BY <1>1, <1>3, <1>4, <1>6, <1>7, FaultySame DEF Straight!Break, Place

LEMMA AssembleMaps ==
    ASSUME NopsApart, IInv, Assemble
    PROVE  Straight!Enter
<1> DEFINE l == ListOf(form)
<1>1. phase = "assemble" /\ phase' = "run" /\ UNCHANGED <<form, x, temps, y, result>>
      /\ slots' = [k \in {0} \cup ((-(3 + Locals[form])) .. -4) |-> IF k = 0 THEN x ELSE Unspecified]
  BY DEF Assemble, FrameSlots
<1>2. Place = 0
  BY <1>1 DEF Place
<1>3. Place' = Settled(l)[1]
  <2>1. l' = l
    BY <1>1 DEF ListOf
  <2>2. Settled(l)' = Settled(l)
    BY <2>1 DEF Settled
  <2>3. Settled(l)[InsnAt(pc)'] = Settled(l)[1]
    BY AssembleStep
  <2>4. Place' = Settled(l)'[InsnAt(pc)']
    BY <1>1 DEF Place
  <2> QED BY <2>2, <2>3, <2>4
<1>4. Place' = Straight!Settled(Straight!List)[1]
  BY <1>3, StraightIs, SettledSame
<1>5. slots' = [k \in {0} \cup ((-(3 + Locals[form])) .. -4) |-> IF k = 0 THEN x ELSE Straight!Unspecified]
  BY <1>1 DEF Straight!Unspecified, Unspecified
<1>6. (phase = "done") = FALSE /\ (phase = "done")' = FALSE
  BY <1>1
<1> QED BY <1>1, <1>2, <1>4, <1>5, <1>6 DEF Straight!Enter, Place

\* ImplementsListing: whatever the passes and assemble make of the list that compile_form built, the code
\* does what the list says, instruction by instruction.
THEOREM CodeImplementsListing ==
    ASSUME NopsApart
    PROVE  Spec => ImplementsListing
<1>1. Init => Straight!Init
  BY DEF Init, Straight!Init, Straight!Unspecified, Unspecified
<1>2. ASSUME IInv, [Next]_vars PROVE [Straight!Next]_(Straight!vars)
  <2>1. CASE CompileBody \/ CollapseNops \/ EliminateBranchToReturn \/ PromoteTailcalls
    <3>1. /\ phase \notin {"run", "done"} /\ phase' \notin {"run", "done"}
          /\ UNCHANGED <<form, x, slots, temps, y, result>>
      BY <2>1 DEF CompileBody, CollapseNops, EliminateBranchToReturn, PromoteTailcalls, Pass, GoOn, vmVars
    <3> QED BY <3>1 DEF Straight!vars
  <2>2. CASE Assemble
    BY <1>2, <2>2, AssembleMaps DEF Straight!Next
  <2>3. CASE LoadImmediate \/ LoadSlot \/ StoreSlot \/ GetBoundLocation \/ LoadGlobal \/ StoreGlobal \/ Op \/ Call
    BY <1>2, <2>3, AdvancesMap DEF Straight!Next
  <2>4. CASE Branch
    BY <1>2, <2>4, BranchMaps
  <2>5. CASE CondBranch
    BY <1>2, <2>5, CondBranchMaps DEF Straight!Next
  <2>6. CASE Return \/ Break
    BY <1>2, <2>6, ReturnMaps, BreakMaps DEF Straight!Next
  <2>7. CASE UNCHANGED vars
    <3>1. Place' = Place /\ UNCHANGED <<form, x, slots, temps, y, result, phase>>
      <4>1. UNCHANGED <<form, x, slots, temps, y, result, phase, pc, insns, next>>
        BY <2>7 DEF vars, vmVars
      <4>2. Settled(ListOf(form))' = Settled(ListOf(form))
        BY <4>1 DEF Settled, ListOf
      <4>3. Linked' = Linked /\ Offsets' = Offsets
        BY <4>1, CodeKept
      <4>4. InsnAt(pc)' = InsnAt(pc)
        BY <4>1, <4>3 DEF InsnAt
      <4> QED BY <4>1, <4>2, <4>4 DEF Place
    <3> QED BY <3>1 DEF Straight!vars, Place
  <2> QED BY <1>2, <2>1, <2>2, <2>3, <2>4, <2>5, <2>6, <2>7 DEF Next, Compiling, Running, Done
<1> QED BY <1>1, <1>2, Invariance, PTL DEF Spec, ImplementsListing, Straight!Spec
=============================================================================
