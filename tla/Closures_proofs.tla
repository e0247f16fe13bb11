--------------------------- MODULE Closures_proofs ---------------------------
(***************************************************************************)
(* Proof of the types of the walk of lambda.c over closures, for every set *)
(* of programs and of symbols, and any number of calls: what variables and *)
(* environments the compiler's tables lead to, and that no two variables   *)
(* of a procedure that are in scope have one stack slot.                   *)
(***************************************************************************)
EXTENDS Closures, Induction, FiniteSetTheorems

-----------------------------------------------------------------------------
(* Sequences of whatever elements.                                         *)

IsSeq(s) == \E S : s \in Seq(S)

LEMMA SeqFacts ==
    ASSUME NEW s, IsSeq(s)
    PROVE  Len(s) \in Nat /\ DOMAIN s = 1..Len(s)
<1>1. PICK S : s \in Seq(S)
  BY DEF IsSeq
<1> QED BY <1>1

LEMMA EmptyIsSeq == \A e : e = <<>> => IsSeq(e) /\ Len(e) = 0
<1> SUFFICES ASSUME NEW e, e = <<>> PROVE IsSeq(e) /\ Len(e) = 0
  OBVIOUS
<1>1. e \in Seq({}) /\ Len(e) = 0
  OBVIOUS
<1> QED BY <1>1 DEF IsSeq

LEMMA OneIsSeq == \A x : IsSeq(<<x>>) /\ Len(<<x>>) = 1 /\ <<x>>[1] = x
<1> SUFFICES ASSUME NEW x PROVE IsSeq(<<x>>) /\ Len(<<x>>) = 1 /\ <<x>>[1] = x
  OBVIOUS
<1>1. <<x>> \in Seq({x}) /\ Len(<<x>>) = 1 /\ <<x>>[1] = x
  OBVIOUS
<1> QED BY <1>1 DEF IsSeq

\* A sequence with one more element, with another one, and without its first ones.
Longer(t, s, x) ==
    /\ IsSeq(t) /\ Len(t) = Len(s) + 1 /\ t[Len(s) + 1] = x
    /\ \A k \in 1..Len(s) : t[k] = s[k]

Replaced(t, s, i, x) ==
    /\ IsSeq(t) /\ Len(t) = Len(s)
    /\ \A k \in 1..Len(s) : t[k] = IF k = i THEN x ELSE s[k]

LEMMA SeqLonger == ASSUME NEW s, IsSeq(s), NEW x PROVE Longer(Append(s, x), s, x)
<1>1. PICK S : s \in Seq(S)
  BY DEF IsSeq
<1> DEFINE T == S \cup {x}
           t == Append(s, x)
<1>2. s \in Seq(T) /\ x \in T
  BY <1>1
<1> HIDE DEF T
<1>3. t \in Seq(T) /\ Len(t) = Len(s) + 1 /\ t[Len(s) + 1] = x /\ \A k \in 1..Len(s) : t[k] = s[k]
  BY <1>2
<1> QED BY <1>3 DEF Longer, IsSeq

LEMMA SeqReplaced == ASSUME NEW s, IsSeq(s), NEW i, NEW x PROVE Replaced([s EXCEPT ![i] = x], s, i, x)
<1>1. PICK S : s \in Seq(S)
  BY DEF IsSeq
<1> DEFINE T == S \cup {x}
           t == [s EXCEPT ![i] = x]
<1>2. s \in Seq(T) /\ x \in T
  BY <1>1
<1> HIDE DEF T
<1>3. t \in Seq(T) /\ Len(t) = Len(s) /\ \A k \in 1..Len(s) : t[k] = IF k = i THEN x ELSE s[k]
  <2>1. CASE i \in 1..Len(s)
    BY <1>2, <2>1
  <2>2. CASE i \notin 1..Len(s)
    <3>1. t = s
      BY <1>2, <2>2
    <3> QED BY <1>2, <2>2, <3>1
  <2> QED BY <2>1, <2>2
<1> QED BY <1>3 DEF Replaced, IsSeq

LEMMA SeqConsed ==
    ASSUME NEW s, IsSeq(s), NEW x
    PROVE  /\ IsSeq(<<x>> \o s) /\ Len(<<x>> \o s) = Len(s) + 1 /\ (<<x>> \o s)[1] = x
           /\ \A k \in 2..Len(s) + 1 : (<<x>> \o s)[k] = s[k - 1]
<1>1. PICK S : s \in Seq(S)
  BY DEF IsSeq
<1> DEFINE T == S \cup {x}
           t == <<x>> \o s
<1>2. s \in Seq(T) /\ x \in T
  BY <1>1
<1> HIDE DEF T
<1>3. /\ t \in Seq(T) /\ Len(t) = Len(s) + 1 /\ t[1] = x
      /\ \A k \in 2..Len(s) + 1 : t[k] = s[k - 1]
  BY <1>2
<1> QED BY <1>3 DEF IsSeq

LEMMA SeqDropped ==
    ASSUME NEW s, IsSeq(s), NEW n \in Nat
    PROVE  LET t == SubSeq(s, n + 1, Len(s))
           IN  /\ IsSeq(t) /\ Len(t) = (IF n < Len(s) THEN Len(s) - n ELSE 0)
               /\ \A k \in 1..Len(t) : k + n \in 1..Len(s) /\ t[k] = s[k + n]
<1>1. PICK S : s \in Seq(S)
  BY DEF IsSeq
<1> DEFINE t == SubSeq(s, n + 1, Len(s))
<1>2. /\ t \in Seq(S) /\ Len(t) = (IF n < Len(s) THEN Len(s) - n ELSE 0)
      /\ \A k \in 1..Len(t) : k + n \in 1..Len(s) /\ t[k] = s[k + n]
  BY <1>1
<1> QED BY <1>2 DEF IsSeq

LEMMA SeqFront ==
    ASSUME NEW s, IsSeq(s), Len(s) > 0
    PROVE  /\ IsSeq(Front(s)) /\ Len(Front(s)) = Len(s) - 1
           /\ \A k \in 1..Len(s) - 1 : Front(s)[k] = s[k]
<1>1. PICK S : s \in Seq(S)
  BY DEF IsSeq
<1>2. /\ Front(s) \in Seq(S) /\ Len(Front(s)) = Len(s) - 1
      /\ \A k \in 1..Len(s) - 1 : Front(s)[k] = s[k]
  <2>1. Front(s) = SubSeq(s, 1, Len(s) - 1)
    BY DEF Front
  <2>2. Len(s) \in Nat /\ Len(s) - 1 \in 0..Len(s)
    BY <1>1
  <2> DEFINE n == Len(s) - 1
             t == SubSeq(s, 1, n)
  <2>3. t \in Seq(S) /\ Len(t) = n /\ \A k \in 1..n : t[k] = s[k]
    <3>1. n \in 0..Len(s)
      BY <2>2
    <3> HIDE DEF n
    <3> QED BY <1>1, <3>1
  <2> HIDE DEF t
  <2> QED BY <2>1, <2>3 DEF t
<1> QED BY <1>2 DEF IsSeq

LEMMA SeqMapped ==
    ASSUME NEW n \in Nat, NEW f, f = [i \in 1..n |-> f[i]]
    PROVE  IsSeq(f) /\ Len(f) = n
<1> DEFINE T == {f[i] : i \in 1..n}
<1>1. f \in [1..n -> T]
  OBVIOUS
<1> HIDE DEF T
<1>2. f \in Seq(T) /\ Len(f) = n
  BY <1>1
<1> QED BY <1>2 DEF IsSeq
-----------------------------------------------------------------------------
(***************************************************************************)
(* The slots of a context: those of lets come first, the newest at the     *)
(* lowest place of the stack, and then those of the arguments.             *)
(***************************************************************************)
Ordered(slots, m) ==
    /\ \A k \in 1..m : slots[k].index = k - m - 4
    /\ \A k \in m + 1..Len(slots) : slots[k].index \in Nat
    /\ \A k, l \in m + 1..Len(slots) : k < l => slots[k].index < slots[l].index

SlotFields == {"symbol", "index", "variable", "demoted", "initializer"}

SlotsOK(slots, V) ==
    /\ IsSeq(slots)
    /\ \A k \in 1..Len(slots) : SlotFields \subseteq DOMAIN slots[k] /\ slots[k].variable \in 1..V
    /\ \E m \in 0..Len(slots) : Ordered(slots, m)

\* Two variables of a procedure that are in scope have slots of their own.
LEMMA SlotsDistinct ==
    ASSUME NEW slots, NEW V, SlotsOK(slots, V), NEW k \in 1..Len(slots), NEW l \in 1..Len(slots),
           slots[k].index = slots[l].index
    PROVE  k = l
<1>1. Len(slots) \in Nat
  BY SeqFacts DEF SlotsOK
<1>2. PICK m \in 0..Len(slots) : Ordered(slots, m)
  BY DEF SlotsOK
<1>3. ASSUME NEW i \in 1..Len(slots)
      PROVE  \/ i \in 1..m /\ slots[i].index = i - m - 4
             \/ i \in m + 1..Len(slots) /\ slots[i].index \in Nat
  <2>1. i \in 1..m \/ i \in m + 1..Len(slots)
    BY <1>1
  <2>2. i \in 1..m => slots[i].index = i - m - 4
    BY <1>2 DEF Ordered
  <2>3. i \in m + 1..Len(slots) => slots[i].index \in Nat
    BY <1>2 DEF Ordered
  <2> QED BY <2>1, <2>2, <2>3
<1>4. \A i, j \in m + 1..Len(slots) : i < j => slots[i].index < slots[j].index
  BY <1>2 DEF Ordered
<1>5. CASE k \in 1..m
  BY <1>1, <1>3, <1>5
<1>6. CASE k \notin 1..m
  <2>1. k \in m + 1..Len(slots) /\ slots[k].index \in Nat
    BY <1>3, <1>6
  <2>2. l \in m + 1..Len(slots) /\ slots[l].index \in Nat
    BY <1>1, <1>3, <2>1
  <2> QED BY <1>1, <1>4, <2>1, <2>2
<1> QED BY <1>5, <1>6

\* The slots of lets are counted right.
LEMMA SlotsCounted ==
    ASSUME NEW c, NEW m \in 0..Len(c.slots), IsSeq(c.slots), Ordered(c.slots, m)
    PROVE  NewSlotIndex(c) = -(m + 4)
<1>1. Len(c.slots) \in Nat /\ DOMAIN c.slots = 1..Len(c.slots)
  BY SeqFacts
<1>2. {k \in DOMAIN c.slots : c.slots[k].index < -2} = 1..m
  <2>1. \A k \in 1..m : k \in 1..Len(c.slots) /\ c.slots[k].index < -2
    BY <1>1 DEF Ordered
  <2>2. \A k \in 1..Len(c.slots) : k \in 1..m \/ ~(c.slots[k].index < -2)
    <3> SUFFICES ASSUME NEW k \in 1..Len(c.slots), k \notin 1..m PROVE ~(c.slots[k].index < -2)
      OBVIOUS
    <3>1. c.slots[k].index \in Nat
      BY <1>1 DEF Ordered
    <3> QED BY <3>1
  <2> QED BY <1>1, <2>1, <2>2
<1>3. Cardinality(1..m) = m
  BY <1>1, FS_Interval
<1> QED BY <1>2, <1>3 DEF NewSlotIndex

LEMMA SlotAdded ==
    ASSUME NEW c, NEW V \in Nat, SlotsOK(c.slots, V), NEW s
    PROVE  SlotsOK(<<Slot(s, NewSlotIndex(c), V + 1)>> \o c.slots, V + 1)
<1> DEFINE slots == c.slots
           new == Slot(s, NewSlotIndex(c), V + 1)
           t == <<new>> \o slots
<1>1. IsSeq(slots) /\ Len(slots) \in Nat
  BY SeqFacts DEF SlotsOK
<1>2. PICK m \in 0..Len(slots) : Ordered(slots, m)
  BY DEF SlotsOK
<1>3. new.index = -(m + 4) /\ new.variable = V + 1 /\ SlotFields \subseteq DOMAIN new
  BY <1>1, <1>2, SlotsCounted DEF Slot, SlotFields
<1> HIDE DEF new
<1>4. IsSeq(t) /\ Len(t) = Len(slots) + 1 /\ t[1] = new /\ \A k \in 2..Len(slots) + 1 : t[k] = slots[k - 1]
  BY <1>1, SeqConsed
<1> HIDE DEF t
<1>5. ASSUME NEW k \in 1..Len(t) PROVE SlotFields \subseteq DOMAIN t[k] /\ t[k].variable \in 1..V + 1
  <2>1. CASE k = 1
    BY <1>3, <1>4, <2>1
  <2>2. CASE k # 1
    <3>1. k - 1 \in 1..Len(slots) /\ t[k] = slots[k - 1]
      BY <1>1, <1>4, <2>2
    <3>2. slots[k - 1].variable \in 1..V /\ SlotFields \subseteq DOMAIN slots[k - 1]
      BY <3>1 DEF SlotsOK
    <3> QED BY <3>1, <3>2
  <2> QED BY <2>1, <2>2
<1>6. Ordered(t, m + 1)
  <2>1. ASSUME NEW k \in 1..m + 1 PROVE t[k].index = k - (m + 1) - 4
    <3>1. CASE k = 1
      BY <1>2, <1>3, <1>4, <3>1
    <3>2. CASE k # 1
      <4>1. k - 1 \in 1..m /\ t[k] = slots[k - 1]
        BY <1>1, <1>2, <1>4, <3>2
      <4>2. slots[k - 1].index = (k - 1) - m - 4
        BY <1>2, <4>1 DEF Ordered
      <4> QED BY <1>2, <4>1, <4>2
    <3> QED BY <3>1, <3>2
  <2>2. \A k \in m + 2..Len(t) : k - 1 \in m + 1..Len(slots) /\ t[k] = slots[k - 1]
    BY <1>1, <1>2, <1>4
  <2>3. \A k \in m + 2..Len(t) : t[k].index \in Nat
    BY <1>2, <2>2 DEF Ordered
  <2>4. \A k, l \in m + 2..Len(t) : k < l => t[k].index < t[l].index
    <3> SUFFICES ASSUME NEW k \in m + 2..Len(t), NEW l \in m + 2..Len(t), k < l
                 PROVE  t[k].index < t[l].index
      OBVIOUS
    <3>1. k - 1 < l - 1
      BY <1>2
    <3> QED BY <1>2, <2>2, <3>1 DEF Ordered
  <2>5. m + 2 = (m + 1) + 1
    BY <1>2
  <2> QED BY <2>1, <2>3, <2>4, <2>5 DEF Ordered
<1>7. m + 1 \in 0..Len(t)
  BY <1>1, <1>2, <1>4
<1>8. SlotsOK(t, V + 1)
  BY <1>4, <1>5, <1>6, <1>7 DEF SlotsOK
<1> QED BY <1>8 DEF t, new

LEMMA SlotsDropped ==
    ASSUME NEW slots, NEW V, SlotsOK(slots, V), NEW n \in Nat
    PROVE  SlotsOK(SubSeq(slots, n + 1, Len(slots)), V)
<1> DEFINE t == SubSeq(slots, n + 1, Len(slots))
<1>1. IsSeq(slots) /\ Len(slots) \in Nat
  BY SeqFacts DEF SlotsOK
<1>2. /\ IsSeq(t) /\ Len(t) = (IF n < Len(slots) THEN Len(slots) - n ELSE 0)
      /\ \A k \in 1..Len(t) : k + n \in 1..Len(slots) /\ t[k] = slots[k + n]
  BY <1>1, SeqDropped
<1> HIDE DEF t
<1>3. PICK m \in 0..Len(slots) : Ordered(slots, m)
  BY DEF SlotsOK
<1> DEFINE r == IF n < m THEN m - n ELSE 0
<1>4. r \in 0..Len(t)
  BY <1>1, <1>2, <1>3
<1>5. Ordered(t, r)
  <2>1. ASSUME NEW k \in 1..r PROVE t[k].index = k - r - 4
    <3>1. k \in 1..Len(t) /\ k + n \in 1..m /\ r = m - n
      BY <1>3, <1>4
    <3>2. t[k] = slots[k + n] /\ slots[k + n].index = (k + n) - m - 4
      BY <1>2, <1>3, <3>1 DEF Ordered
    <3> QED BY <1>3, <3>1, <3>2
  <2>2. \A k \in r + 1..Len(t) : t[k] = slots[k + n] /\ k + n \in m + 1..Len(slots)
    <3> SUFFICES ASSUME NEW k \in r + 1..Len(t) PROVE t[k] = slots[k + n] /\ k + n \in m + 1..Len(slots)
      OBVIOUS
    <3>1. k \in 1..Len(t) /\ k + n >= m + 1
      BY <1>3, <1>4
    <3> QED BY <1>1, <1>2, <1>3, <3>1
  <2>3. \A k \in r + 1..Len(t) : t[k].index \in Nat
    BY <1>3, <2>2 DEF Ordered
  <2>4. \A k, l \in r + 1..Len(t) : k < l => t[k].index < t[l].index
    <3> SUFFICES ASSUME NEW k \in r + 1..Len(t), NEW l \in r + 1..Len(t), k < l
                 PROVE  t[k].index < t[l].index
      OBVIOUS
    <3>1. k + n < l + n
      BY <1>4
    <3> QED BY <1>3, <2>2, <3>1 DEF Ordered
  <2> QED BY <2>1, <2>3, <2>4 DEF Ordered
<1>6. \A k \in 1..Len(t) : SlotFields \subseteq DOMAIN t[k] /\ t[k].variable \in 1..V
  BY <1>2 DEF SlotsOK
<1>7. SlotsOK(t, V)
  BY <1>2, <1>4, <1>5, <1>6 DEF SlotsOK
<1> QED BY <1>7 DEF t

\* A slot whose initialiser or mark changes has its place still.
LEMMA SlotChanged ==
    ASSUME NEW slots, NEW V, SlotsOK(slots, V), NEW i, NEW x,
           i \in 1..Len(slots) => /\ SlotFields \subseteq DOMAIN x
                                  /\ x.index = slots[i].index /\ x.variable = slots[i].variable
    PROVE  SlotsOK([slots EXCEPT ![i] = x], V)
<1> DEFINE t == [slots EXCEPT ![i] = x]
<1>1. IsSeq(slots)
  BY DEF SlotsOK
<1>2. Replaced(t, slots, i, x)
  BY <1>1, SeqReplaced
<1> HIDE DEF t
<1>3. IsSeq(t) /\ Len(t) = Len(slots)
  BY <1>2 DEF Replaced
<1>4. \A k \in 1..Len(t) : /\ t[k].index = slots[k].index /\ t[k].variable = slots[k].variable
                          /\ SlotFields \subseteq DOMAIN t[k]
  BY <1>2, <1>3 DEF Replaced, SlotsOK
<1>5. PICK m \in 0..Len(slots) : Ordered(slots, m)
  BY DEF SlotsOK
<1>6. Ordered(t, m)
  <2>1. Len(t) \in Nat
    BY <1>3, SeqFacts
  <2>2. \A k \in 1..m : k \in 1..Len(t)
    BY <1>3, <1>5, <2>1
  <2>3. \A k \in m + 1..Len(t) : k \in 1..Len(t)
    BY <1>3, <1>5, <2>1
  <2> QED BY <1>3, <1>4, <1>5, <2>2, <2>3 DEF Ordered
<1>7. \A k \in 1..Len(t) : t[k].variable \in 1..V
  BY <1>3, <1>4 DEF SlotsOK
<1>8. SlotsOK(t, V)
  BY <1>3, <1>4, <1>5, <1>6, <1>7 DEF SlotsOK
<1> QED BY <1>8 DEF t
-----------------------------------------------------------------------------
(***************************************************************************)
(* The invariant.                                                          *)
(***************************************************************************)
ContextFields == {"procedure", "slots", "lets", "code", "closureVariables",
                  "lexicalEnvironment", "parentEnvironment"}

LetFields == {"phase", "variables"}

LetsOK(lets) ==
    IsSeq(lets) /\ \A k \in 1..Len(lets) : LetFields \subseteq DOMAIN lets[k] /\ lets[k].variables \in Nat

\* A context, among E environments and V variables.
ContextOK(c, E, V) ==
    /\ ContextFields \subseteq DOMAIN c
    /\ c.lexicalEnvironment \in 0..E /\ c.parentEnvironment \in 0..E
    /\ SlotsOK(c.slots, V) /\ LetsOK(c.lets)

ContextsOK(cs, E, V) == IsSeq(cs) /\ \A d \in 1..Len(cs) : ContextOK(cs[d], E, V)

EnvironmentsOK(es) ==
    /\ IsSeq(es) /\ Len(es) >= 1
    /\ \A e \in 1..Len(es) : {"parent", "value"} \subseteq DOMAIN es[e] /\ es[e].parent \in 0..e - 1

ProceduresOK(ps, E) == IsSeq(ps) /\ \A p \in 1..Len(ps) : ps[p].environment \in 0..E

RunningOK(r, as) ==
    /\ IsSeq(as)
    /\ r = Nobody \/ (r.activation \in 1..Len(as) /\ "activation" \in DOMAIN r)

IInv ==
    /\ ContextsOK(contexts, Len(environments), Len(variables))
    /\ IsSeq(variables)
    /\ EnvironmentsOK(environments)
    /\ ProceduresOK(procedures, Len(environments))
    /\ RunningOK(running, activations)

LEMMA Lengths ==
    ASSUME IInv
    PROVE  /\ Len(contexts) \in Nat /\ Len(variables) \in Nat /\ Len(environments) \in Nat
           /\ Len(procedures) \in Nat /\ Len(activations) \in Nat
BY SeqFacts DEF IInv, ContextsOK, EnvironmentsOK, ProceduresOK, RunningOK

LEMMA InvType == ASSUME IInv PROVE TypeOK
<1>1. /\ DOMAIN contexts = 1..Len(contexts) /\ DOMAIN variables = 1..Len(variables)
      /\ DOMAIN environments = 1..Len(environments) /\ DOMAIN procedures = 1..Len(procedures)
      /\ DOMAIN activations = 1..Len(activations)
  BY SeqFacts DEF IInv, ContextsOK, EnvironmentsOK, ProceduresOK, RunningOK
<1>2. ASSUME NEW d \in DOMAIN contexts
      PROVE  LET slots == contexts[d].slots
             IN  /\ contexts[d].lexicalEnvironment \in 0..Len(environments)
                 /\ \A k \in DOMAIN slots : slots[k].variable \in DOMAIN variables
                 /\ \A k, l \in DOMAIN slots : slots[k].index = slots[l].index => k = l
  <2> DEFINE slots == contexts[d].slots
  <2>1. contexts[d].lexicalEnvironment \in 0..Len(environments) /\ SlotsOK(slots, Len(variables))
    BY <1>1 DEF IInv, ContextsOK, ContextOK
  <2> HIDE DEF slots
  <2>2. DOMAIN slots = 1..Len(slots)
    BY <2>1, SeqFacts DEF SlotsOK
  <2>3. \A k \in 1..Len(slots) : slots[k].variable \in 1..Len(variables)
    BY <2>1 DEF SlotsOK
  <2>4. \A k, l \in 1..Len(slots) : slots[k].index = slots[l].index => k = l
    BY <2>1, SlotsDistinct
  <2> QED BY <1>1, <2>1, <2>2, <2>3, <2>4 DEF slots
<1>3. \A p \in DOMAIN procedures : procedures[p].environment \in 0..Len(environments)
  BY <1>1 DEF IInv, ProceduresOK
<1>4. \A e \in DOMAIN environments : environments[e].parent < e
  BY <1>1 DEF IInv, EnvironmentsOK
<1>5. running = Nobody \/ A \in DOMAIN activations
  BY <1>1 DEF IInv, RunningOK, A
<1> QED BY <1>2, <1>3, <1>4, <1>5 DEF TypeOK

LEMMA Starts == ASSUME Init PROVE IInv
<1> DEFINE c == Context(1, <<>>)
           env == [parent |-> None, value |-> [s \in Symbols |-> GlobalValue(s)]]
           proc == [code |-> <<>>, environment |-> None, captured |-> FALSE]
<1>1. contexts = <<c>> /\ environments = <<env>> /\ procedures = <<proc>> /\ variables = <<>>
      /\ activations = <<>> /\ running = Nobody
  BY DEF Init
<1>2. SlotsOK(<<>>, 0)
  <2> DEFINE e == <<>>
  <2>0. e = <<>>
    OBVIOUS
  <2> HIDE DEF e
  <2>1. IsSeq(e) /\ Len(e) = 0
    BY <2>0, EmptyIsSeq
  <2>2. Ordered(e, 0)
    BY <2>1 DEF Ordered
  <2>3. SlotsOK(e, 0)
    BY <2>1, <2>2 DEF SlotsOK
  <2> QED BY <2>3 DEF e
<1>3. LetsOK(<<>>)
  <2> DEFINE e == <<>>
  <2>0. e = <<>>
    OBVIOUS
  <2> HIDE DEF e
  <2>1. IsSeq(e) /\ Len(e) = 0
    BY <2>0, EmptyIsSeq
  <2>2. LetsOK(e)
    BY <2>1 DEF LetsOK
  <2> QED BY <2>2 DEF e
<1>4. ContextOK(c, 1, 0)
  BY <1>2, <1>3 DEF ContextOK, Context, ContextFields, None
<1>5. {"parent", "value"} \subseteq DOMAIN env /\ env.parent \in 0..0 /\ proc.environment \in 0..1
  BY DEF None
<1> HIDE DEF c, env, proc
<1> DEFINE cs == <<c>>
           es == <<env>>
           ps == <<proc>>
<1>6. IsSeq(variables) /\ Len(variables) = 0 /\ IsSeq(activations)
  BY <1>1, EmptyIsSeq
<1>7. /\ IsSeq(cs) /\ Len(cs) = 1 /\ cs[1] = c
      /\ IsSeq(es) /\ Len(es) = 1 /\ es[1] = env
      /\ IsSeq(ps) /\ Len(ps) = 1 /\ ps[1] = proc
  BY OneIsSeq
<1>8. contexts = cs /\ environments = es /\ procedures = ps /\ running = Nobody
  BY <1>1
<1> HIDE DEF cs, es, ps
<1>14. 1..1 = {1} /\ 1 - 1 = 0
  OBVIOUS
<1>9. ContextsOK(contexts, 1, 0)
  BY <1>4, <1>7, <1>8, <1>14 DEF ContextsOK
<1>10. EnvironmentsOK(environments)
  <2>1. environments = es /\ {"parent", "value"} \subseteq DOMAIN es[1] /\ es[1].parent \in 0..1 - 1
    BY <1>5, <1>7, <1>8
  <2>2. EnvironmentsOK(es)
    BY <1>7, <1>14, <2>1 DEF EnvironmentsOK
  <2> QED BY <2>1, <2>2
<1>11. ProceduresOK(procedures, 1)
  BY <1>5, <1>7, <1>8, <1>14 DEF ProceduresOK
<1>12. RunningOK(running, activations)
  BY <1>6, <1>8 DEF RunningOK
<1>13. Len(environments) = 1
  BY <1>7, <1>8
<1> QED BY <1>6, <1>9, <1>10, <1>11, <1>12, <1>13 DEF IInv
-----------------------------------------------------------------------------
(***************************************************************************)
(* Parts of the steps.                                                     *)
(***************************************************************************)
\* More environments and variables.
LEMMA ContextGrows ==
    ASSUME NEW c, NEW E \in Nat, NEW V \in Nat, ContextOK(c, E, V),
           NEW F \in Nat, NEW W \in Nat, E <= F, V <= W
    PROVE  ContextOK(c, F, W)
<1>1. SlotsOK(c.slots, W)
  BY DEF ContextOK, SlotsOK
<1> QED BY <1>1 DEF ContextOK

LEMMA CurrentOK ==
    ASSUME IInv, Compiling
    PROVE  /\ Depth \in Nat \ {0} /\ Current = contexts[Depth]
           /\ ContextOK(Current, Len(environments), Len(variables))
<1>1. IsSeq(contexts)
  BY DEF IInv, ContextsOK
<1>2. Depth \in Nat /\ Depth # 0
  <2>1. PICK S : contexts \in Seq(S)
    BY <1>1 DEF IsSeq
  <2> QED BY <2>1 DEF Compiling, Depth
<1>3. Current = contexts[Depth]
  BY DEF Current, Last, Depth
<1>4. Depth \in 1..Len(contexts)
  BY <1>2 DEF Depth
<1> QED BY <1>2, <1>3, <1>4 DEF IInv, ContextsOK

\* Emitting code does nothing to the tables.
LEMMA EmitOK ==
    ASSUME NEW c, NEW E, NEW V, ContextOK(c, E, V), NEW insns
    PROVE  ContextOK(Emit(c, insns), E, V)
<1>1. ContextFields \subseteq DOMAIN c
  BY DEF ContextOK
<1>2. CASE Initialising(c)
  <2> DEFINE x == [c.slots[1] EXCEPT !.initializer = c.slots[1].initializer \o insns]
             t == [c.slots EXCEPT ![1] = x]
             e == [c EXCEPT !.slots = t]
  <2>1. Emit(c, insns) = e
    BY <1>2 DEF Emit
  <2>2. SlotsOK(c.slots, V)
    BY DEF ContextOK
  <2>3. 1 \in 1..Len(c.slots) => /\ SlotFields \subseteq DOMAIN x /\ x.index = c.slots[1].index
                                 /\ x.variable = c.slots[1].variable
    <3> SUFFICES ASSUME 1 \in 1..Len(c.slots)
                 PROVE  /\ SlotFields \subseteq DOMAIN x /\ x.index = c.slots[1].index
                        /\ x.variable = c.slots[1].variable
      OBVIOUS
    <3>1. SlotFields \subseteq DOMAIN c.slots[1]
      BY <2>2 DEF SlotsOK
    <3> QED BY <3>1 DEF SlotFields
  <2> HIDE DEF x
  <2>4. SlotsOK(t, V)
    BY <2>2, <2>3, SlotChanged
  <2> HIDE DEF t
  <2>5. e.slots = t /\ e.lets = c.lets /\ e.lexicalEnvironment = c.lexicalEnvironment
        /\ e.parentEnvironment = c.parentEnvironment /\ DOMAIN e = DOMAIN c
    BY <1>1 DEF ContextFields
  <2> HIDE DEF e
  <2> QED BY <1>1, <2>1, <2>4, <2>5 DEF ContextOK
<1>3. CASE ~Initialising(c)
  <2> DEFINE e == [c EXCEPT !.code = c.code \o insns]
  <2>1. Emit(c, insns) = e
    BY <1>3 DEF Emit
  <2>2. e.slots = c.slots /\ e.lets = c.lets /\ e.lexicalEnvironment = c.lexicalEnvironment
        /\ e.parentEnvironment = c.parentEnvironment /\ DOMAIN e = DOMAIN c
    BY <1>1 DEF ContextFields
  <2> HIDE DEF e
  <2> QED BY <1>1, <2>1, <2>2 DEF ContextOK
<1> QED BY <1>2, <1>3

\* The current context changes.
LEMMA InContextOK ==
    ASSUME IInv, Compiling, NEW c, InContext(c), NEW E, NEW V,
           ContextOK(c, E, V), \A d \in 1..Len(contexts) : ContextOK(contexts[d], E, V)
    PROVE  ContextsOK(contexts', E, V)
<1>1. Replaced(contexts', contexts, Depth, c)
  BY SeqReplaced DEF IInv, ContextsOK, InContext
<1> QED BY <1>1 DEF Replaced, ContextsOK

\* A compiler step that makes no environment, and whose context is c.
LEMMA ContextStep ==
    ASSUME IInv, Compiling, NEW c, InContext(c), UNCHANGED <<environments, procedures, activations, running>>,
           NEW V \in Nat, Len(variables) <= V, IsSeq(variables'), Len(variables') = V,
           ContextOK(c, Len(environments), V)
    PROVE  IInv'
<1>1. Len(environments) \in Nat /\ Len(variables) \in Nat
  BY Lengths
<1>2. \A d \in 1..Len(contexts) : ContextOK(contexts[d], Len(environments), V)
  BY <1>1, ContextGrows DEF IInv, ContextsOK
<1>3. ContextsOK(contexts', Len(environments), V)
  BY <1>2, InContextOK
<1> QED BY <1>3 DEF IInv

\* The walk from inner contexts to outer ones ends at a context, or at none.
LEMMA RootIsAround ==
    ASSUME IInv, Compiling, NEW s
    PROVE  RootOf(s) \in 0..Depth - 1
<1> DEFINE body(d, f) == IF d = 0 \/ SlotOf(contexts[d], s) # None THEN d ELSE f[d - 1]
           from == CHOOSE f : f = [d \in 0..Depth |-> body(d, f)]
<1>1. Depth \in Nat \ {0}
  BY CurrentOK
<1>2. \E f : f = [d \in 0..Depth |-> body(d, f)]
  <2> DEFINE W == 0..Depth
             nxt == [d \in W |-> d - 1]
             rank == [d \in W |-> d]
             step == [d \in W |-> [w \in W |-> IF d = 0 \/ SlotOf(contexts[d], s) # None THEN d ELSE w]]
  <2>1. LinksDown(nxt, Depth, rank)
    BY <1>1 DEF LinksDown
  <2>2. Recursion(Depth, W, 0, step)
    BY <1>1 DEF Recursion
  <2>3. \A d \in 1..Depth : nxt[d] = d - 1 /\ d - 1 \in W
    BY <1>1
  <2>4. \A d \in 1..Depth, w \in W :
            step[d][w] = IF d = 0 \/ SlotOf(contexts[d], s) # None THEN d ELSE w
    BY <1>1
  <2> HIDE DEF nxt, rank, step
  <2>5. PICK g \in [0..Depth -> W] : g[0] = 0 /\ \A d \in 1..Depth : g[d] = step[d][g[nxt[d]]]
    BY <1>1, <2>1, <2>2, LinkRecursion
  <2>6. \A d \in 0..Depth : g[d] = body(d, g)
    <3> SUFFICES ASSUME NEW d \in 0..Depth PROVE g[d] = body(d, g)
      OBVIOUS
    <3>1. CASE d = 0
      BY <2>5, <3>1
    <3>2. CASE d # 0
      <4>1. d \in 1..Depth
        BY <1>1, <3>2
      <4>2. g[d - 1] \in W
        BY <2>3, <4>1
      <4> QED BY <2>3, <2>4, <2>5, <4>1, <4>2
    <3> QED BY <3>1, <3>2
  <2> HIDE DEF body
  <2>7. g = [d \in 0..Depth |-> body(d, g)]
    BY <2>6
  <2> QED BY <2>7
<1>3. from = [d \in 0..Depth |-> body(d, from)]
  <2> HIDE DEF body
  <2> QED BY <1>2
<1>4. RootOf(s) = from[Depth - 1]
  BY DEF RootOf
<1> HIDE DEF from
<1>5. \A d \in 0..Depth : from[d] = body(d, from)
  <2> HIDE DEF body
  <2> QED BY <1>3
<1> DEFINE G == {n \in Nat : n <= Depth => from[n] \in 0..n}
<1>6. 0 \in G
  BY <1>1, <1>5
<1>7. ASSUME NEW n \in G PROVE n + 1 \in G
  <2> SUFFICES ASSUME n + 1 <= Depth PROVE from[n + 1] \in 0..n + 1
    BY <1>7
  <2>1. n + 1 \in 0..Depth /\ (n + 1) - 1 = n /\ from[n] \in 0..n
    BY <1>1, <1>7
  <2>2. from[n + 1] = n + 1 \/ from[n + 1] = from[n]
    BY <1>5, <2>1
  <2> QED BY <1>7, <2>1, <2>2
<1>8. G = Nat
  <2> HIDE DEF G
  <2>1. G \in SUBSET Nat
    BY DEF G
  <2> QED BY <1>6, <1>7, <2>1, SetInduction
<1>9. Depth - 1 \in G
  BY <1>1, <1>8
<1> QED BY <1>1, <1>4, <1>9

\* The environment of the captured variables, made or there, and the contexts that get it.
LEMMA CaptureOK ==
    ASSUME IInv, Compiling, NEW s, NEW insns, RootOf(s) # None, Capture(s, insns),
           UNCHANGED <<variables, procedures, activations, running>>
    PROVE  IInv'
<1> DEFINE E == Len(environments)
           V == Len(variables)
           r == RootOf(s)
           root == contexts[r]
           k == SlotOf(root, s)
           env == IF root.lexicalEnvironment = None THEN E + 1 ELSE root.lexicalEnvironment
           F == IF env = E + 1 THEN E + 1 ELSE E
           base == [Current EXCEPT !.parentEnvironment = env, !.lexicalEnvironment = env]
           inner == Emit(base, insns)
           slot == [root.slots[k] EXCEPT !.demoted = TRUE]
           slots == [root.slots EXCEPT ![k] = slot]
           cvs == <<[symbol |-> s, index |-> root.slots[k].index]>> \o root.closureVariables
           outer == [root EXCEPT !.closureVariables = cvs, !.slots = slots, !.lexicalEnvironment = env]
           made(i) == IF i # env THEN environments[i]
                      ELSE BindIn(IF i > E THEN NewEnvironmentOf(root) ELSE environments[i], s)
<1>1. E \in Nat /\ V \in Nat /\ Depth \in Nat \ {0} /\ r \in 0..Depth - 1 /\ r # None /\ r # 0
  BY Lengths, CurrentOK, RootIsAround DEF None
<1>2. r \in 1..Len(contexts) /\ E >= 1
  BY <1>1 DEF Depth, IInv, EnvironmentsOK
<1>3. ContextOK(root, E, V) /\ ContextOK(Current, E, V)
  BY <1>2, CurrentOK DEF IInv, ContextsOK
<1>4. /\ env \in 1..E + 1 /\ env \in 0..F /\ F \in Nat /\ E <= F /\ F >= 1
      /\ (1..E) \cup {env} = 1..F /\ \A i \in 1..F : i > E => i = env
  <2>1. root.lexicalEnvironment \in 0..E
    BY <1>3 DEF ContextOK
  <2> HIDE DEF root, E
  <2>2. env \in 1..E + 1
    BY <1>1, <2>1 DEF None
  <2> HIDE DEF env
  <2> QED BY <1>1, <1>2, <2>2
<1>5. /\ environments' = [i \in (1..E) \cup {env} |-> made(i)]
      /\ contexts' = [contexts EXCEPT ![r] = outer, ![Depth] = inner]
  BY DEF Capture
<1>6. environments' = [i \in 1..F |-> made(i)]
  BY <1>4, <1>5
<1> HIDE DEF env, F
<1>7. ContextOK(inner, F, V)
  <2>1. ContextFields \subseteq DOMAIN Current
    BY <1>3 DEF ContextOK
  <2>2. /\ base.parentEnvironment = env /\ base.lexicalEnvironment = env
        /\ base.slots = Current.slots /\ base.lets = Current.lets /\ DOMAIN base = DOMAIN Current
    BY <2>1 DEF ContextFields
  <2> HIDE DEF base
  <2>3. ContextOK(base, F, V)
    BY <1>3, <1>4, <2>2 DEF ContextOK
  <2> QED BY <2>3, EmitOK
<1>8. ContextOK(outer, F, V)
  <2>1. ContextFields \subseteq DOMAIN root /\ SlotsOK(root.slots, V)
    BY <1>3 DEF ContextOK
  <2>2. k \in 1..Len(root.slots) => /\ SlotFields \subseteq DOMAIN slot /\ slot.index = root.slots[k].index
                                    /\ slot.variable = root.slots[k].variable
    <3> SUFFICES ASSUME k \in 1..Len(root.slots)
                 PROVE  /\ SlotFields \subseteq DOMAIN slot /\ slot.index = root.slots[k].index
                        /\ slot.variable = root.slots[k].variable
      OBVIOUS
    <3>1. SlotFields \subseteq DOMAIN root.slots[k]
      BY <2>1 DEF SlotsOK
    <3> HIDE DEF k, root
    <3> QED BY <3>1 DEF SlotFields
  <2> HIDE DEF slot, k
  <2>3. SlotsOK(slots, V)
    BY <2>1, <2>2, SlotChanged
  <2> HIDE DEF slots, cvs
  <2>4. /\ outer.slots = slots /\ outer.lexicalEnvironment = env /\ outer.lets = root.lets
        /\ outer.parentEnvironment = root.parentEnvironment /\ DOMAIN outer = DOMAIN root
    <3> HIDE DEF root
    <3> QED BY <2>1 DEF ContextFields
  <2>5. root.parentEnvironment \in 0..F /\ LetsOK(root.lets)
    <3>1. root.parentEnvironment \in 0..E /\ LetsOK(root.lets)
      BY <1>3 DEF ContextOK
    <3> HIDE DEF root, E
    <3> QED BY <1>1, <1>4, <3>1
  <2> HIDE DEF outer, root
  <2> QED BY <1>4, <2>1, <2>3, <2>4, <2>5 DEF ContextOK
<1> HIDE DEF inner, outer, base, slot, slots, cvs
<1>9. ContextsOK(contexts', F, V)
  <2> DEFINE cs == [contexts EXCEPT ![r] = outer]
             ds == [cs EXCEPT ![Depth] = inner]
  <2>1. contexts' = ds
    BY <1>5
  <2>2. IsSeq(contexts)
    BY DEF IInv, ContextsOK
  <2>3. Replaced(cs, contexts, r, outer)
    BY <2>2, SeqReplaced
  <2> HIDE DEF cs
  <2>4. Replaced(ds, cs, Depth, inner)
    <3>1. IsSeq(cs)
      BY <2>3 DEF Replaced
    <3> QED BY <3>1, SeqReplaced
  <2> HIDE DEF ds, r
  <2>5. \A d \in 1..Len(contexts) : ContextOK(contexts[d], F, V)
    BY <1>1, <1>4, ContextGrows DEF IInv, ContextsOK
  <2> HIDE DEF E, V
  <2>6. \A d \in 1..Len(cs) : ContextOK(cs[d], F, V)
    BY <1>8, <2>3, <2>5 DEF Replaced
  <2>7. \A d \in 1..Len(ds) : ContextOK(ds[d], F, V)
    BY <1>7, <2>4, <2>6 DEF Replaced
  <2> QED BY <2>1, <2>4, <2>7 DEF ContextsOK, Replaced
<1>10. ASSUME NEW i \in 1..F
       PROVE  {"parent", "value"} \subseteq DOMAIN made(i) /\ made(i).parent \in 0..i - 1
  <2>1. \A j \in 1..E : {"parent", "value"} \subseteq DOMAIN environments[j] /\ environments[j].parent \in 0..j - 1
    BY DEF IInv, EnvironmentsOK
  <2>2. \A e : {"parent", "value"} \subseteq DOMAIN e =>
                   BindIn(e, s).parent = e.parent /\ DOMAIN BindIn(e, s) = DOMAIN e
    BY DEF BindIn
  <2>3. CASE i > E
    <3>1. i = E + 1 /\ i = env
      BY <1>1, <1>4, <2>3
    <3> DEFINE new == NewEnvironmentOf(root)
    <3>2. {"parent", "value"} \subseteq DOMAIN new /\ new.parent \in 0..E
      <4>1. root.parentEnvironment \in 0..E
        BY <1>3 DEF ContextOK
      <4> HIDE DEF root, E
      <4> QED BY <1>1, <1>2, <4>1 DEF NewEnvironmentOf, Global, None
    <3> HIDE DEF new
    <3>3. made(i) = BindIn(new, s)
      BY <2>3, <3>1 DEF new
    <3>4. E + 1 - 1 = E
      BY <1>1
    <3> QED BY <2>2, <3>1, <3>2, <3>3, <3>4
  <2>4. CASE ~(i > E)
    <3>1. i \in 1..E
      BY <1>1, <1>4, <2>4
    <3> QED BY <2>1, <2>2, <2>4, <3>1
  <2> QED BY <2>3, <2>4
<1> HIDE DEF made
<1>11. \A i \in 1..F : environments'[i] = made(i)
  BY <1>6
<1>12. environments' = [i \in 1..F |-> environments'[i]]
  BY <1>6
<1>13. IsSeq(environments') /\ Len(environments') = F
  BY <1>4, <1>12, SeqMapped
<1>14. EnvironmentsOK(environments')
  BY <1>4, <1>10, <1>11, <1>13 DEF EnvironmentsOK
<1>15. ProceduresOK(procedures, F)
  <2>1. ProceduresOK(procedures, E)
    BY DEF IInv
  <2> HIDE DEF E
  <2> QED BY <1>1, <1>4, <2>1 DEF ProceduresOK
<1> QED BY <1>9, <1>13, <1>14, <1>15 DEF IInv
-----------------------------------------------------------------------------
(***************************************************************************)
(* The steps.                                                              *)
(***************************************************************************)
LEMMA ReadStep == ASSUME IInv, NEW s, Read(s) PROVE IInv'
<1>1. Compiling /\ UNCHANGED <<activations, running, variables, procedures>>
  BY DEF Read, Compile, UnchangedRun
<1>2. ContextOK(Current, Len(environments), Len(variables))
  BY <1>1, CurrentOK
<1>3. IsSeq(variables) /\ Len(variables) \in Nat
  BY Lengths DEF IInv
<1>4. ASSUME NEW insns, InContext(Emit(Current, insns)), UNCHANGED environments PROVE IInv'
  <2>1. ContextOK(Emit(Current, insns), Len(environments), Len(variables))
    BY <1>2, EmitOK
  <2> QED BY <1>1, <1>3, <1>4, <2>1, ContextStep
<1>5. ASSUME NEW insns, RootOf(s) # None, Capture(s, insns) PROVE IInv'
  BY <1>1, <1>5, CaptureOK
<1>6. \/ \E insns : InContext(Emit(Current, insns)) /\ UNCHANGED environments
      \/ \E insns : RootOf(s) # None /\ Capture(s, insns)
  BY DEF Read
<1> QED BY <1>4, <1>5, <1>6

LEMMA AssignStep == ASSUME IInv, NEW s, Assign(s) PROVE IInv'
<1>1. Compiling /\ UNCHANGED <<activations, running, variables, procedures, environments>>
  BY DEF Assign, Compile, UnchangedRun
<1>2. PICK insns : InContext(Emit(Current, insns))
  BY DEF Assign
<1>3. ContextOK(Emit(Current, insns), Len(environments), Len(variables))
  BY <1>1, CurrentOK, EmitOK
<1>4. IsSeq(variables) /\ Len(variables) \in Nat
  BY Lengths DEF IInv
<1> QED BY <1>1, <1>2, <1>3, <1>4, ContextStep

LEMMA Declares ==
    ASSUME IInv, Compiling, NEW s, NEW lets, LetsOK(lets), Declare(s, lets)
    PROVE  IInv'
<1> DEFINE V == Len(variables)
           E == Len(environments)
           slots == <<Slot(s, NewSlotIndex(Current), V + 1)>> \o Current.slots
           c == [Current EXCEPT !.slots = slots, !.lets = lets]
<1>1. /\ InContext(c) /\ UNCHANGED <<environments, procedures, activations, running>>
      /\ \E v : variables' = Append(variables, v)
  BY DEF Declare, UnchangedRun
<1>2. V \in Nat /\ E \in Nat /\ IsSeq(variables)
  BY Lengths DEF IInv
<1>3. IsSeq(variables') /\ Len(variables') = V + 1
  BY <1>1, <1>2, SeqLonger DEF Longer
<1>4. ContextOK(Current, E, V)
  BY CurrentOK
<1>5. SlotsOK(slots, V + 1)
  <2>1. SlotsOK(Current.slots, V)
    BY <1>4 DEF ContextOK
  <2> HIDE DEF V
  <2> QED BY <1>2, <2>1, SlotAdded
<1> HIDE DEF slots
<1>6. /\ c.slots = slots /\ c.lets = lets /\ c.lexicalEnvironment = Current.lexicalEnvironment
      /\ c.parentEnvironment = Current.parentEnvironment /\ DOMAIN c = DOMAIN Current
  BY <1>4 DEF ContextOK, ContextFields
<1> HIDE DEF c
<1>7. ContextOK(c, E, V + 1)
  BY <1>4, <1>5, <1>6 DEF ContextOK
<1>8. V + 1 \in Nat /\ V <= V + 1
  BY <1>2
<1> QED BY <1>1, <1>3, <1>7, <1>8, ContextStep

LEMMA OpenLetStep == ASSUME IInv, NEW s, OpenLet(s) PROVE IInv'
<1> DEFINE new == [phase |-> "initialiser", variables |-> 1]
           lets == Append(Current.lets, new)
<1>1. Compiling /\ Declare(s, lets)
  BY DEF OpenLet, Compile
<1>2. LetsOK(Current.lets)
  BY <1>1, CurrentOK DEF ContextOK
<1>3. LetFields \subseteq DOMAIN new /\ new.variables \in Nat
  BY DEF LetFields
<1> HIDE DEF new
<1>4. Longer(lets, Current.lets, new)
  BY <1>2, SeqLonger DEF LetsOK
<1>5. Len(Current.lets) \in Nat
  BY <1>2, SeqFacts DEF LetsOK
<1> HIDE DEF lets
<1>6. LetsOK(lets)
  <2>1. \A k \in 1..Len(lets) : k \in 1..Len(Current.lets) \/ k = Len(Current.lets) + 1
    BY <1>4, <1>5 DEF Longer
  <2> QED BY <1>2, <1>3, <1>4, <2>1 DEF LetsOK, Longer
<1> QED BY <1>1, <1>6, Declares

\* The innermost let changes.
LEMMA LetChanged ==
    ASSUME NEW lets, LetsOK(lets), NEW x,
           Len(lets) # 0 => LetFields \subseteq DOMAIN x /\ x.variables \in Nat
    PROVE  LetsOK([lets EXCEPT ![Len(lets)] = x])
<1> DEFINE t == [lets EXCEPT ![Len(lets)] = x]
<1>1. Replaced(t, lets, Len(lets), x)
  BY SeqReplaced DEF LetsOK
<1>2. Len(lets) \in Nat
  BY SeqFacts DEF LetsOK
<1> HIDE DEF t
<1>3. ASSUME NEW k \in 1..Len(t) PROVE LetFields \subseteq DOMAIN t[k] /\ t[k].variables \in Nat
  <2>1. k \in 1..Len(lets) /\ Len(lets) # 0 /\ t[k] = IF k = Len(lets) THEN x ELSE lets[k]
    BY <1>1, <1>2 DEF Replaced
  <2> QED BY <2>1 DEF LetsOK
<1> QED BY <1>1, <1>3 DEF LetsOK, Replaced, t

LEMMA NextVariableStep == ASSUME IInv, NEW s, NextVariable(s) PROVE IInv'
<1> DEFINE old == Current.lets
           n == Len(old)
           x == [old[n] EXCEPT !.variables = old[n].variables + 1]
           lets == [old EXCEPT ![n] = x]
<1>1. Compiling /\ Declare(s, lets)
  BY DEF NextVariable, Compile
<1>2. LetsOK(old)
  BY <1>1, CurrentOK DEF ContextOK
<1>3. n \in Nat
  BY <1>2, SeqFacts DEF LetsOK
<1> HIDE DEF old
<1>4. n # 0 => LetFields \subseteq DOMAIN x /\ x.variables \in Nat
  <2> SUFFICES ASSUME n # 0 PROVE LetFields \subseteq DOMAIN x /\ x.variables \in Nat
    OBVIOUS
  <2>1. LetFields \subseteq DOMAIN old[n] /\ old[n].variables \in Nat
    BY <1>2, <1>3 DEF LetsOK
  <2> QED BY <2>1 DEF LetFields
<1> HIDE DEF x
<1>5. LetsOK(lets)
  BY <1>2, <1>4, LetChanged
<1> QED BY <1>1, <1>5, Declares

LEMMA LetBodyStep == ASSUME IInv, LetBody PROVE IInv'
<1> DEFINE old == Current.lets
           n == Len(old)
           x == [old[n] EXCEPT !.phase = "body"]
           lets == [old EXCEPT ![n] = x]
           c == [Current EXCEPT !.code = @ \o Initializers(Current), !.lets = lets]
<1>1. Compiling /\ UNCHANGED <<activations, running, variables, procedures, environments>> /\ InContext(c)
  BY DEF LetBody, Compile, UnchangedRun
<1>2. ContextOK(Current, Len(environments), Len(variables)) /\ LetsOK(old)
  BY <1>1, CurrentOK DEF ContextOK
<1>3. n \in Nat
  BY <1>2, SeqFacts DEF LetsOK
<1>4. LetsOK(lets)
  <2> HIDE DEF old
  <2>1. n # 0 => LetFields \subseteq DOMAIN x /\ x.variables \in Nat
    <3> SUFFICES ASSUME n # 0 PROVE LetFields \subseteq DOMAIN x /\ x.variables \in Nat
      OBVIOUS
    <3>1. LetFields \subseteq DOMAIN old[n] /\ old[n].variables \in Nat
      BY <1>2, <1>3 DEF LetsOK
    <3> QED BY <3>1 DEF LetFields
  <2> HIDE DEF x
  <2> QED BY <1>2, <2>1, LetChanged
<1> HIDE DEF lets
<1>5. /\ c.slots = Current.slots /\ c.lets = lets /\ c.lexicalEnvironment = Current.lexicalEnvironment
      /\ c.parentEnvironment = Current.parentEnvironment /\ DOMAIN c = DOMAIN Current
  BY <1>2 DEF ContextOK, ContextFields
<1> HIDE DEF c
<1>6. ContextOK(c, Len(environments), Len(variables))
  BY <1>2, <1>4, <1>5 DEF ContextOK
<1>7. IsSeq(variables) /\ Len(variables) \in Nat
  BY Lengths DEF IInv
<1> QED BY <1>1, <1>6, <1>7, ContextStep

LEMMA CloseLetStep == ASSUME IInv, CloseLet PROVE IInv'
<1> DEFINE n == Last(Current.lets).variables
           slots == SubSeq(Current.slots, n + 1, Len(Current.slots))
           lets == Front(Current.lets)
           c == [Current EXCEPT !.slots = slots, !.lets = lets]
<1>1. /\ Compiling /\ UNCHANGED <<activations, running, variables, procedures, environments>>
      /\ InContext(c) /\ Current.lets # <<>>
  BY DEF CloseLet, Compile, UnchangedRun
<1>2. ContextOK(Current, Len(environments), Len(variables)) /\ LetsOK(Current.lets)
  BY <1>1, CurrentOK DEF ContextOK
<1>3. Len(Current.lets) \in Nat /\ Len(Current.lets) > 0
  <2>1. PICK S : Current.lets \in Seq(S)
    BY <1>2 DEF LetsOK, IsSeq
  <2> QED BY <1>1, <2>1
<1>4. n \in Nat
  BY <1>2, <1>3 DEF LetsOK, Last
<1>5. SlotsOK(slots, Len(variables))
  BY <1>2, <1>4, SlotsDropped DEF ContextOK
<1>6. LetsOK(lets)
  <2> DEFINE old == Current.lets
  <2>1. /\ IsSeq(lets) /\ Len(lets) = Len(old) - 1
        /\ \A k \in 1..Len(old) - 1 : lets[k] = old[k]
    BY <1>2, <1>3, SeqFront DEF LetsOK
  <2>2. \A k \in 1..Len(lets) : k \in 1..Len(old) - 1 /\ k \in 1..Len(old)
    BY <1>3, <2>1
  <2> QED BY <1>2, <2>1, <2>2 DEF LetsOK
<1> HIDE DEF lets, slots
<1>7. /\ c.slots = slots /\ c.lets = lets /\ c.lexicalEnvironment = Current.lexicalEnvironment
      /\ c.parentEnvironment = Current.parentEnvironment /\ DOMAIN c = DOMAIN Current
  BY <1>2 DEF ContextOK, ContextFields
<1> HIDE DEF c
<1>8. ContextOK(c, Len(environments), Len(variables))
  BY <1>2, <1>5, <1>6, <1>7 DEF ContextOK
<1>9. IsSeq(variables) /\ Len(variables) \in Nat
  BY Lengths DEF IInv
<1> QED BY <1>1, <1>8, <1>9, ContextStep

LEMMA SeqJoined ==
    ASSUME NEW s, NEW t, IsSeq(s), IsSeq(t)
    PROVE  IsSeq(s \o t) /\ Len(s \o t) = Len(s) + Len(t)
<1>1. PICK S : s \in Seq(S)
  BY DEF IsSeq
<1>2. PICK T : t \in Seq(T)
  BY DEF IsSeq
<1> DEFINE U == S \cup T
           u == s \o t
<1>3. s \in Seq(U) /\ t \in Seq(U)
  BY <1>1, <1>2
<1> HIDE DEF U
<1>4. u \in Seq(U) /\ Len(u) = Len(s) + Len(t)
  BY <1>3
<1> QED BY <1>4 DEF IsSeq

LEMMA EnterLambdaStep ==
    ASSUME IInv, NEW args \in {<<>>} \cup {<<s>> : s \in Symbols}, EnterLambda(args)
    PROVE  IInv'
<1> DEFINE E == Len(environments)
           V == Len(variables)
           n == Len(args)
           p == Len(procedures) + 1
           new == [i \in DOMAIN args |-> Variable(args[i], p, i - 1)]
           slots == [i \in DOMAIN args |-> Slot(args[i], i - 1, V + i)]
           c == Context(p, slots)
           proc == [code |-> <<>>, environment |-> None, captured |-> FALSE]
<1>1. /\ Compiling /\ UNCHANGED <<environments, activations, running>>
      /\ variables' = variables \o new
      /\ procedures' = Append(procedures, proc)
      /\ contexts' = Append(contexts, c)
  BY DEF EnterLambda, Compile, UnchangedRun
<1>2. n \in Nat /\ DOMAIN args = 1..n
  BY SeqFacts, EmptyIsSeq, OneIsSeq
<1>3. V \in Nat /\ E \in Nat /\ IsSeq(variables)
  BY Lengths DEF IInv
<1>4. IsSeq(new) /\ Len(new) = n
  <2>1. new = [i \in 1..n |-> new[i]]
    BY <1>2
  <2> HIDE DEF new
  <2> QED BY <1>2, <2>1, SeqMapped
<1>5. IsSeq(slots) /\ Len(slots) = n
  <2>1. slots = [i \in 1..n |-> slots[i]]
    BY <1>2
  <2> HIDE DEF slots
  <2> QED BY <1>2, <2>1, SeqMapped
<1>6. \A i \in 1..n : /\ slots[i].index = i - 1 /\ slots[i].variable = V + i
                      /\ SlotFields \subseteq DOMAIN slots[i]
  BY <1>2 DEF Slot, SlotFields
<1> HIDE DEF new, slots
<1>7. IsSeq(variables') /\ Len(variables') = V + n
  BY <1>1, <1>3, <1>4, SeqJoined
<1>8. SlotsOK(slots, V + n)
  <2>1. Ordered(slots, 0)
    <3> HIDE DEF n
    <3>1. \A i \in 1..n : slots[i].index \in Nat
      BY <1>2, <1>6
    <3>2. \A i, j \in 1..n : i < j => slots[i].index < slots[j].index
      BY <1>2, <1>6
    <3>3. 0 + 1..Len(slots) = 1..n
      BY <1>5
    <3>4. \A k \in 1..0 : FALSE
      OBVIOUS
    <3> QED BY <3>1, <3>2, <3>3, <3>4 DEF Ordered
  <2>2. \A i \in 1..n : V + i \in 1..V + n
    BY <1>2, <1>3
  <2>3. \A i \in 1..Len(slots) : SlotFields \subseteq DOMAIN slots[i] /\ slots[i].variable \in 1..V + n
    BY <1>5, <1>6, <2>2
  <2>4. 0 \in 0..Len(slots)
    BY <1>2, <1>5
  <2> QED BY <1>5, <2>1, <2>3, <2>4 DEF SlotsOK
<1>9. /\ c.slots = slots /\ c.lets = <<>> /\ c.lexicalEnvironment = 0 /\ c.parentEnvironment = 0
      /\ ContextFields \subseteq DOMAIN c
  BY DEF Context, ContextFields, None
<1> HIDE DEF c
<1>10. LetsOK(c.lets)
  <2>1. IsSeq(c.lets) /\ Len(c.lets) = 0
    BY <1>9, EmptyIsSeq
  <2> QED BY <2>1 DEF LetsOK
<1>11. ContextOK(c, E, V + n)
  BY <1>3, <1>8, <1>9, <1>10 DEF ContextOK
<1>12. \A d \in 1..Len(contexts) : ContextOK(contexts[d], E, V + n)
  <2>1. V + n \in Nat /\ V <= V + n
    BY <1>2, <1>3
  <2> QED BY <1>3, <2>1, ContextGrows DEF IInv, ContextsOK
<1> HIDE DEF E, V, n
<1>13. ContextsOK(contexts', E, V + n)
  <2>1. Longer(contexts', contexts, c)
    BY <1>1, SeqLonger DEF IInv, ContextsOK
  <2>2. \A d \in 1..Len(contexts') : d \in 1..Len(contexts) \/ d = Len(contexts) + 1
    BY <2>1, Lengths DEF Longer
  <2> QED BY <1>11, <1>12, <2>1, <2>2 DEF Longer, ContextsOK
<1>14. ProceduresOK(procedures', E)
  <2>1. proc.environment \in 0..E
    BY <1>3 DEF None
  <2> HIDE DEF proc
  <2>2. Longer(procedures', procedures, proc)
    BY <1>1, SeqLonger DEF IInv, ProceduresOK
  <2>3. \A d \in 1..Len(procedures') : d \in 1..Len(procedures) \/ d = Len(procedures) + 1
    BY <2>2, Lengths DEF Longer
  <2>4. ProceduresOK(procedures, E)
    BY DEF IInv, E
  <2> QED BY <2>1, <2>2, <2>3, <2>4 DEF Longer, ProceduresOK
<1>15. Len(environments') = E
  BY <1>1 DEF E
<1> QED BY <1>1, <1>7, <1>13, <1>14, <1>15 DEF IInv

LEMMA LeaveLambdaStep == ASSUME IInv, LeaveLambda PROVE IInv'
<1> DEFINE E == Len(environments)
           V == Len(variables)
           p == Current.procedure
           proc == [code |-> DemoteClosureReferences(Current),
                    environment |-> IF Current.lexicalEnvironment = None THEN Global ELSE Current.lexicalEnvironment,
                    captured |-> Current.closureVariables # <<>>]
           front == Front(contexts)
           inner == Emit(front[Depth - 1], <<Insn("CLOSURE", p, None)>>)
<1>1. /\ Compiling /\ UNCHANGED <<activations, running, variables, environments>>
      /\ procedures' = [procedures EXCEPT ![p] = proc]
      /\ contexts' = IF Depth = 1 THEN <<>> ELSE [front EXCEPT ![Depth - 1] = inner]
  BY DEF LeaveLambda, Compile, UnchangedRun
<1>2. Depth \in Nat \ {0} /\ ContextOK(Current, E, V) /\ E \in Nat /\ E >= 1
  BY <1>1, CurrentOK, Lengths DEF IInv, EnvironmentsOK
<1>3. proc.environment \in 0..E
  <2>1. Current.lexicalEnvironment \in 0..E
    BY <1>2 DEF ContextOK
  <2> HIDE DEF E
  <2> QED BY <1>2, <2>1 DEF Global
<1> HIDE DEF proc
<1>4. ProceduresOK(procedures', E)
  <2>1. Replaced(procedures', procedures, p, proc)
    BY <1>1, SeqReplaced DEF IInv, ProceduresOK
  <2>2. ProceduresOK(procedures, E)
    BY DEF IInv
  <2> HIDE DEF E, p
  <2> QED BY <1>3, <2>1, <2>2 DEF ProceduresOK, Replaced
<1>5. ContextsOK(contexts', E, V)
  <2>1. CASE Depth = 1
    <3>1. IsSeq(contexts') /\ Len(contexts') = 0
      BY <1>1, <2>1, EmptyIsSeq
    <3> QED BY <3>1 DEF ContextsOK
  <2>2. CASE Depth # 1
    <3> DEFINE cs == [front EXCEPT ![Depth - 1] = inner]
    <3>1. contexts' = cs
      BY <1>1, <2>2
    <3>2. IsSeq(front) /\ Len(front) = Depth - 1 /\ \A d \in 1..Depth - 1 : front[d] = contexts[d]
      BY <1>2, SeqFront DEF IInv, ContextsOK, Depth
    <3> HIDE DEF front
    <3>3. \A d \in 1..Depth - 1 : ContextOK(front[d], E, V)
      <4>1. \A d \in 1..Depth - 1 : d \in 1..Len(contexts)
        BY <1>2 DEF Depth
      <4> QED BY <3>2, <4>1 DEF IInv, ContextsOK
    <3>4. Depth - 1 \in 1..Depth - 1
      BY <1>2, <2>2
    <3>5. ContextOK(inner, E, V)
      BY <3>3, <3>4, EmitOK
    <3> HIDE DEF inner
    <3>6. Replaced(cs, front, Depth - 1, inner)
      BY <3>2, SeqReplaced
    <3> HIDE DEF cs
    <3>7. \A d \in 1..Len(cs) : ContextOK(cs[d], E, V)
      BY <3>2, <3>3, <3>5, <3>6 DEF Replaced
    <3> QED BY <3>1, <3>6, <3>7 DEF ContextsOK, Replaced
  <2> QED BY <2>1, <2>2
<1> QED BY <1>1, <1>4, <1>5 DEF IInv

\* Runs: calls are added, and values are stored where they are.
LEMMA RunStep ==
    ASSUME IInv, UnchangedCompiler,
           \/ UNCHANGED environments
           \/ \E e, s, x : environments' = [environments EXCEPT ![e].value[s] = x],
           RunningOK(running', activations')
    PROVE  IInv'
<1>1. EnvironmentsOK(environments') /\ Len(environments') = Len(environments)
  <2>1. CASE UNCHANGED environments
    BY <2>1 DEF IInv
  <2>2. ASSUME NEW e, NEW s, NEW x, environments' = [environments EXCEPT ![e].value[s] = x]
        PROVE  EnvironmentsOK(environments') /\ Len(environments') = Len(environments)
    <3> DEFINE y == [environments[e] EXCEPT !.value = [environments[e].value EXCEPT ![s] = x]]
    <3>1. environments' = [environments EXCEPT ![e] = y]
      BY <2>2
    <3>2. e \in 1..Len(environments) => /\ {"parent", "value"} \subseteq DOMAIN y
                                        /\ y.parent = environments[e].parent
      <4> SUFFICES ASSUME e \in 1..Len(environments)
                   PROVE  {"parent", "value"} \subseteq DOMAIN y /\ y.parent = environments[e].parent
        OBVIOUS
      <4>1. {"parent", "value"} \subseteq DOMAIN environments[e]
        BY DEF IInv, EnvironmentsOK
      <4> QED BY <4>1
    <3> HIDE DEF y
    <3>3. Replaced(environments', environments, e, y)
      BY <3>1, SeqReplaced DEF IInv, EnvironmentsOK
    <3> QED BY <3>2, <3>3 DEF Replaced, IInv, EnvironmentsOK
  <2> QED BY <2>1, <2>2
<1> QED BY <1>1 DEF IInv, UnchangedCompiler

\* The instruction after this one, or none, of a call that is still there.
LEMMA ExecutingOK ==
    ASSUME IInv, NEW ops, Executing(ops), IsSeq(activations'), Len(activations') = Len(activations)
    PROVE  RunningOK(running', activations')
<1>1. \/ running' = Nobody
      \/ running' = [running EXCEPT !.pc = running.pc + 1]
  BY DEF Executing
<1>2. running.activation \in 1..Len(activations) /\ "activation" \in DOMAIN running
  BY DEF IInv, RunningOK, Executing
<1>3. CASE running' = Nobody
  BY <1>3 DEF RunningOK
<1>4. CASE running' = [running EXCEPT !.pc = running.pc + 1]
  <2>1. running'.activation = running.activation /\ "activation" \in DOMAIN running'
    BY <1>2, <1>4
  <2> QED BY <1>2, <2>1 DEF RunningOK
<1> QED BY <1>1, <1>3, <1>4

LEMMA SeqFrame == ASSUME NEW s, IsSeq(s), NEW i, NEW x, NEW j, NEW y
    PROVE  LET t == [s EXCEPT ![i] = x]
           IN  /\ IsSeq(t) /\ Len(t) = Len(s)
               /\ IsSeq([t EXCEPT ![j] = y]) /\ Len([t EXCEPT ![j] = y]) = Len(s)
<1> DEFINE t == [s EXCEPT ![i] = x]
<1>1. IsSeq(t) /\ Len(t) = Len(s)
  BY SeqReplaced DEF Replaced
<1> HIDE DEF t
<1>2. IsSeq([t EXCEPT ![j] = y]) /\ Len([t EXCEPT ![j] = y]) = Len(t)
  BY <1>1, SeqReplaced DEF Replaced
<1> QED BY <1>1, <1>2 DEF t

LEMMA CallStep == ASSUME IInv, NEW f, Call(f) PROVE IInv'
<1>1. PICK a : activations' = Append(activations, a)
  BY DEF Call
<1>2. /\ running' = [activation |-> Len(activations) + 1, pc |-> 1]
      /\ UnchangedCompiler /\ UNCHANGED environments
  BY DEF Call
<1>3. IsSeq(activations) /\ Len(activations) \in Nat
  BY Lengths DEF IInv, RunningOK
<1>4. IsSeq(activations') /\ Len(activations') = Len(activations) + 1
  BY <1>1, <1>3, SeqLonger DEF Longer
<1>5. running'.activation \in 1..Len(activations') /\ "activation" \in DOMAIN running'
  BY <1>2, <1>3, <1>4
<1>6. RunningOK(running', activations')
  BY <1>4, <1>5 DEF RunningOK
<1> QED BY <1>2, <1>6, RunStep

LEMMA AssignedOK ==
    ASSUME IInv
    PROVE  IsSeq(Assigned) /\ Len(Assigned) = Len(activations)
<1>1. PICK b, y : Assigned = [activations EXCEPT ![b] = y]
  BY DEF Assigned
<1> QED BY <1>1, SeqReplaced DEF IInv, RunningOK, Replaced

LEMMA InstructionSteps ==
    ASSUME IInv, LoadSlot \/ StoreSlot \/ LoadBound \/ StoreBound \/ MakeClosure
    PROVE  IInv'
<1>1. PICK ops : Executing(ops)
  BY DEF LoadSlot, StoreSlot, LoadBound, StoreBound, MakeClosure
<1>2. UnchangedCompiler
  BY <1>1 DEF Executing
<1>3. IsSeq(activations)
  BY DEF IInv, RunningOK
<1>4. CASE LoadSlot \/ LoadBound \/ MakeClosure
  <2>1. UNCHANGED <<environments, activations>>
    BY <1>4 DEF LoadSlot, LoadBound, MakeClosure
  <2>2. RunningOK(running', activations')
    BY <1>1, <1>3, <2>1, ExecutingOK
  <2> QED BY <1>2, <2>1, <2>2, RunStep
<1>5. CASE StoreSlot
  <2>1. UNCHANGED environments /\ \E b, y : activations' = [Assigned EXCEPT ![b] = y]
    BY <1>5 DEF StoreSlot
  <2>2. PICK b, y : activations' = [Assigned EXCEPT ![b] = y]
    BY <2>1
  <2>3. IsSeq(activations') /\ Len(activations') = Len(activations)
    BY <2>2, AssignedOK, SeqReplaced DEF Replaced
  <2> QED BY <1>1, <1>2, <2>1, <2>3, ExecutingOK, RunStep
<1>6. CASE StoreBound
  <2>1. activations' = Assigned
    BY <1>6 DEF StoreBound
  <2>2. PICK e : environments' = [environments EXCEPT ![e].value[Here.arg] = NewValue]
    BY <1>6 DEF StoreBound
  <2>3. RunningOK(running', activations')
    BY <1>1, <2>1, AssignedOK, ExecutingOK
  <2> QED BY <1>2, <2>2, <2>3, RunStep
<1> QED BY <1>4, <1>5, <1>6

LEMMA Invariance == Spec => []IInv
<1>1. Init => IInv
  BY Starts
<1>2. IInv /\ [Next]_vars => IInv'
  <2> SUFFICES ASSUME IInv, [Next]_vars PROVE IInv'
    OBVIOUS
  <2>1. CASE UNCHANGED vars
    BY <2>1 DEF vars, IInv
  <2>2. ASSUME NEW s \in Symbols, Read(s) \/ Assign(s) \/ OpenLet(s) \/ NextVariable(s) PROVE IInv'
    BY <2>2, ReadStep, AssignStep, OpenLetStep, NextVariableStep
  <2>3. CASE LetBody \/ CloseLet
    BY <2>3, LetBodyStep, CloseLetStep
  <2>4. ASSUME NEW args \in {<<>>} \cup {<<s>> : s \in Symbols}, EnterLambda(args) PROVE IInv'
    BY <2>4, EnterLambdaStep
  <2>5. CASE LeaveLambda
    BY <2>5, LeaveLambdaStep
  <2>6. ASSUME NEW f \in closures, Call(f) PROVE IInv'
    BY <2>6, CallStep
  <2>7. CASE LoadSlot \/ StoreSlot \/ LoadBound \/ StoreBound \/ MakeClosure
    BY <2>7, InstructionSteps
  <2> QED BY <2>1, <2>2, <2>3, <2>4, <2>5, <2>6, <2>7 DEF Next
<1> QED BY <1>1, <1>2, PTL DEF Spec

\* Whatever is compiled, for any programs: two variables of a procedure that are in scope have stack
\* slots of their own, the tables lead to variables and environments that there are, and parents of
\* environments are older (compile_let, vm_slot_index, bind_symbol_for_scoped_environment).
THEOREM TypeCorrect == Spec => []TypeOK
<1>1. IInv => TypeOK
  BY InvType
<1> QED BY <1>1, Invariance, PTL
=============================================================================
