-------------------------- MODULE Interning_proofs --------------------------
(***************************************************************************)
(* Proofs about the internment of symbols.                                 *)
(***************************************************************************)
EXTENDS Interning, Induction

-----------------------------------------------------------------------------
(***************************************************************************)
(* A page of hashes: qsort puts a new entry in its place, and bsearch      *)
(* finds what is in a page that is sorted.                                 *)
(***************************************************************************)
InOrder(es) == \A i, j \in 1..Len(es) : i < j => es[i].hash < es[j].hash

Has(es, h) == \E k \in 1..Len(es) : es[k].hash = h

\* r is es with e among its entries, in order.
Inserted(r, E, es, e) ==
    /\ r \in Seq(E) /\ Len(r) = Len(es) + 1 /\ InOrder(r)
    /\ \A k \in 1..Len(r) : r[k] = e \/ \E i \in 1..Len(es) : r[k] = es[i]
    /\ \E k \in 1..Len(r) : r[k] = e
    /\ \A i \in 1..Len(es) : \E k \in 1..Len(r) : r[k] = es[i]

\* The orders that qsort may put entries in.
Orders(a) ==
    {p \in Bijection(DOMAIN a, DOMAIN a) : \A i, j \in DOMAIN a : i < j => ~BySymbol(a[p[j]], a[p[i]])}

LEMMA OrderExists ==
    ASSUME NEW E, \A x \in E : x.hash \in Nat, NEW es \in Seq(E), InOrder(es), NEW e \in E
    PROVE  Orders(Append(es, e)) # {}
<1> DEFINE n == Len(es)
           a == Append(es, e)
           T == {i \in 1..n + 1 : i = n + 1 \/ e.hash < es[i].hash}
<1>1. n \in Nat /\ DOMAIN a = 1..n + 1 /\ a[n + 1] = e /\ \A i \in 1..n : a[i] = es[i] /\ es[i] \in E
  OBVIOUS
<1>2. T \in SUBSET Nat /\ T # {}
  <2>1. n + 1 \in T
    BY <1>1
  <2>2. T \subseteq 1..n + 1
    OBVIOUS
  <2> HIDE DEF T
  <2> QED BY <1>1, <2>1, <2>2
<1>3. PICK q \in T : \A y \in T : q <= y
  <2> HIDE DEF T
  <2> QED BY <1>2, SetMin
<1>4. q \in 1..n + 1 /\ \A i \in 1..n : i < q => ~(e.hash < es[i].hash)
  <2>1. q \in 1..n + 1
    BY <1>3
  <2>2. ASSUME NEW i \in 1..n, i < q PROVE ~(e.hash < es[i].hash)
    <3>1. i \notin T
      BY <1>1, <1>2, <1>3, <2>1, <2>2
    <3> QED BY <1>1, <3>1
  <2> QED BY <2>1, <2>2
<1>5. \A i \in 1..n : q <= i => e.hash <= es[i].hash
  <2> SUFFICES ASSUME NEW i \in 1..n, q <= i PROVE e.hash <= es[i].hash
    OBVIOUS
  <2>1. q \in 1..n /\ e.hash < es[q].hash
    BY <1>1, <1>3, <1>4
  <2>2. es[q].hash \in Nat /\ es[i].hash \in Nat /\ e.hash \in Nat
    BY <1>1, <2>1
  <2>3. q = i \/ es[q].hash < es[i].hash
    BY <1>1, <2>1 DEF InOrder
  <2> QED BY <2>1, <2>2, <2>3
<1> DEFINE p == [i \in 1..n + 1 |-> IF i < q THEN i ELSE IF i = q THEN n + 1 ELSE i - 1]
<1>6. p \in Bijection(1..n + 1, 1..n + 1)
  <2>1. p \in [1..n + 1 -> 1..n + 1]
    BY <1>1, <1>4
  <2>2. ASSUME NEW i \in 1..n + 1, NEW j \in 1..n + 1, p[i] = p[j] PROVE i = j
    BY <1>1, <1>4, <2>2
  <2>3. ASSUME NEW t \in 1..n + 1 PROVE \E s \in 1..n + 1 : p[s] = t
    <3>1. CASE t < q
      BY <1>1, <1>4, <3>1
    <3>2. CASE t = n + 1
      BY <1>1, <1>4, <3>2
    <3>3. CASE q <= t /\ t # n + 1
      <4>1. t + 1 \in 1..n + 1 /\ ~(t + 1 < q) /\ t + 1 # q
        BY <1>1, <1>4, <3>3
      <4>2. p[t + 1] = t
        BY <1>1, <4>1
      <4> QED BY <4>1, <4>2
    <3> QED BY <1>1, <1>4, <3>1, <3>2, <3>3
  <2> HIDE DEF p
  <2> QED BY <2>1, <2>2, <2>3 DEF Bijection, Injection, Surjection, IsInjective
<1>7. ASSUME NEW i \in 1..n + 1, NEW j \in 1..n + 1, i < j PROVE ~BySymbol(a[p[j]], a[p[i]])
  <2>1. \A k \in 1..n + 1 : /\ k < q => k \in 1..n /\ a[p[k]] = es[k]
                            /\ k = q => a[p[k]] = e
                            /\ q < k => k - 1 \in 1..n /\ a[p[k]] = es[k - 1]
    BY <1>1, <1>4
  <2>2. \A k \in 1..n : es[k].hash \in Nat
    BY <1>1
  <2>e. e.hash \in Nat
    OBVIOUS
  <2>3. CASE j < q
    <3>1. i \in 1..n /\ j \in 1..n /\ a[p[i]] = es[i] /\ a[p[j]] = es[j]
      BY <1>4, <1>7, <2>1, <2>3
    <3>2. es[i].hash < es[j].hash
      BY <1>7, <3>1 DEF InOrder
    <3> QED BY <2>2, <3>1, <3>2 DEF BySymbol
  <2>4. CASE j = q
    <3>1. i \in 1..n /\ i < q /\ a[p[i]] = es[i] /\ a[p[j]] = e
      BY <1>4, <1>7, <2>1, <2>4
    <3> QED BY <1>4, <3>1 DEF BySymbol
  <2>5. CASE i = q
    <3>1. j - 1 \in 1..n /\ q <= j - 1 /\ a[p[i]] = e /\ a[p[j]] = es[j - 1]
      BY <1>4, <1>7, <2>1, <2>5
    <3> QED BY <1>5, <2>2, <2>e, <3>1 DEF BySymbol
  <2>6. CASE i < q /\ q < j
    <3>1. i \in 1..n /\ j - 1 \in 1..n /\ (i = j - 1 \/ i < j - 1) /\ a[p[i]] = es[i] /\ a[p[j]] = es[j - 1]
      BY <1>4, <1>7, <2>1, <2>6
    <3>2. i = j - 1 \/ es[i].hash < es[j - 1].hash
      BY <3>1 DEF InOrder
    <3> QED BY <2>2, <3>1, <3>2 DEF BySymbol
  <2>7. CASE q < i
    <3>1. i - 1 \in 1..n /\ j - 1 \in 1..n /\ i - 1 < j - 1 /\ a[p[i]] = es[i - 1] /\ a[p[j]] = es[j - 1]
      BY <1>4, <1>7, <2>1, <2>7
    <3>2. es[i - 1].hash < es[j - 1].hash
      BY <3>1 DEF InOrder
    <3> QED BY <2>2, <3>1, <3>2 DEF BySymbol
  <2> QED BY <1>4, <1>7, <2>3, <2>4, <2>5, <2>6, <2>7
<1> HIDE DEF p, a
<1>8. p \in Orders(a)
  BY <1>1, <1>6, <1>7 DEF Orders
<1> QED BY <1>8 DEF a

LEMMA SortedInserts ==
    ASSUME NEW E, \A x \in E : x.hash \in Nat, NEW es \in Seq(E), InOrder(es), NEW e \in E,
           ~Has(es, e.hash)
    PROVE  Inserted(Sorted(Append(es, e)), E, es, e)
<1> DEFINE n == Len(es)
           a == Append(es, e)
           p == CHOOSE o \in Bijection(DOMAIN a, DOMAIN a) :
                    \A i, j \in DOMAIN a : i < j => ~BySymbol(a[o[j]], a[o[i]])
           r == Sorted(a)
<1>1. n \in Nat /\ DOMAIN a = 1..n + 1 /\ a[n + 1] = e /\ \A i \in 1..n : a[i] = es[i] /\ es[i] \in E
  OBVIOUS
<1>2. \A i \in 1..n + 1 : a[i] \in E /\ a[i].hash \in Nat
  BY <1>1
<1>3. \A i, j \in 1..n + 1 : i # j => a[i].hash # a[j].hash
  <2>1. \A i \in 1..n : a[i].hash # a[n + 1].hash
    BY <1>1 DEF Has
  <2>2. \A i, j \in 1..n : i < j => a[i].hash < a[j].hash
    BY <1>1 DEF InOrder
  <2>3. ASSUME NEW i \in 1..n + 1, NEW j \in 1..n + 1, i < j PROVE a[i].hash # a[j].hash
    <3>1. i \in 1..n /\ (j \in 1..n \/ j = n + 1)
      BY <1>1, <2>3
    <3> QED BY <1>2, <2>1, <2>2, <2>3, <3>1
  <2> QED BY <1>1, <2>3
<1>4. p \in Bijection(1..n + 1, 1..n + 1)
      /\ \A i, j \in 1..n + 1 : i < j => ~BySymbol(a[p[j]], a[p[i]])
  <2>1. \E o \in Bijection(DOMAIN a, DOMAIN a) :
             \A i, j \in DOMAIN a : i < j => ~BySymbol(a[o[j]], a[o[i]])
    BY OrderExists DEF Orders
  <2> HIDE DEF a
  <2> QED BY <1>1, <2>1
<1>5. r = [i \in 1..n + 1 |-> a[p[i]]]
  BY <1>1 DEF Sorted
<1> HIDE DEF p, r, a
<1>6. /\ p \in [1..n + 1 -> 1..n + 1]
      /\ \A i, j \in 1..n + 1 : p[i] = p[j] => i = j
      /\ \A t \in 1..n + 1 : \E s \in 1..n + 1 : p[s] = t
  BY <1>4 DEF Bijection, Injection, Surjection, IsInjective
<1>7. r \in Seq(E) /\ Len(r) = n + 1 /\ \A i \in 1..n + 1 : r[i] = a[p[i]]
  <2>1. \A i \in 1..n + 1 : a[p[i]] \in E
    BY <1>2, <1>6
  <2>2. n + 1 \in Nat
    BY <1>1
  <2> HIDE DEF n
  <2> QED BY <1>5, <2>1, <2>2
<1>8. InOrder(r)
  <2> SUFFICES ASSUME NEW i \in 1..n + 1, NEW j \in 1..n + 1, i < j PROVE r[i].hash < r[j].hash
    BY <1>7 DEF InOrder
  <2>1. p[i] \in 1..n + 1 /\ p[j] \in 1..n + 1 /\ p[i] # p[j]
    <3>1. i # j
      BY <1>1
    <3> HIDE DEF n
    <3> QED BY <1>6, <3>1
  <2>2. ~(a[p[j]].hash < a[p[i]].hash)
    BY <1>4 DEF BySymbol
  <2>3. a[p[j]].hash # a[p[i]].hash /\ a[p[j]].hash \in Nat /\ a[p[i]].hash \in Nat
    BY <1>2, <1>3, <2>1
  <2> QED BY <1>7, <2>2, <2>3
<1>9. ASSUME NEW k \in 1..n + 1 PROVE r[k] = e \/ \E i \in 1..n : r[k] = es[i]
  <2>1. p[k] \in 1..n + 1
    BY <1>6
  <2>2. p[k] = n + 1 \/ p[k] \in 1..n
    BY <1>1, <2>1
  <2> QED BY <1>1, <1>7, <2>2
<1>10. \E k \in 1..n + 1 : r[k] = e
  <2>1. PICK k \in 1..n + 1 : p[k] = n + 1
    BY <1>1, <1>6
  <2> QED BY <1>1, <1>7, <2>1
<1>11. ASSUME NEW i \in 1..n PROVE \E k \in 1..n + 1 : r[k] = es[i]
  <2>1. i \in 1..n + 1
    BY <1>1
  <2>2. PICK k \in 1..n + 1 : p[k] = i
    BY <1>6, <2>1
  <2> QED BY <1>1, <1>7, <2>2
<1>12. Inserted(r, E, es, e)
  BY <1>7, <1>8, <1>9, <1>10, <1>11 DEF Inserted
<1> QED BY <1>12 DEF r, a

FindBody(es, h, f, from, before) ==
    LET middle == (from + before) \div 2
    IN  IF from >= before THEN 0
        ELSE IF es[middle].hash = h THEN middle
        ELSE IF h < es[middle].hash THEN f[<<from, middle>>]
        ELSE f[<<middle + 1, before>>]

Ranges(es) == (1..Len(es) + 1) \X (1..Len(es) + 1)

Finds(es, h) ==
    CHOOSE f : f = [r \in Ranges(es) |-> FindBody(es, h, f, r[1], r[2])]

LEMMA SearchIsFinds == ASSUME NEW es, NEW h PROVE Search(es, h) = Finds(es, h)[<<1, Len(es) + 1>>]
BY DEF Search, Finds, FindBody, Ranges

LEMMA Middle ==
    ASSUME NEW n \in Nat, NEW from \in 1..n + 1, NEW before \in 1..n + 1, from < before
    PROVE  LET m == (from + before) \div 2
           IN  m \in 1..n /\ from <= m /\ m < before
OBVIOUS

\* What the search of a range of entries comes to.
FoundIn(es, h, k, from, before) ==
    \/ k = 0 /\ \A i \in 1..Len(es) : from <= i /\ i < before => es[i].hash # h
    \/ k \in 1..Len(es) /\ es[k].hash = h

LEMMA FindsExists ==
    ASSUME NEW es, Len(es) \in Nat, InOrder(es), \A i \in 1..Len(es) : es[i].hash \in Nat, NEW h \in Nat
    PROVE  Finds(es, h) = [r \in Ranges(es) |-> FindBody(es, h, Finds(es, h), r[1], r[2])]
<1> DEFINE n == Len(es)
           D == 1..n + 1
           at(from, before) == {k \in 1..n : from <= k /\ k < before /\ es[k].hash = h}
           least(from, before) == IF at(from, before) = {} THEN 0 ELSE CHOOSE k \in at(from, before) : TRUE
           g == [r \in D \X D |-> least(r[1], r[2])]
<1>1. \A i, j \in 1..n : es[i].hash = h /\ es[j].hash = h => i = j
  BY DEF InOrder
<1>2. ASSUME NEW from \in D, NEW before \in D
      PROVE  g[<<from, before>>] = FindBody(es, h, g, from, before)
  <2> DEFINE m == (from + before) \div 2
  <2>0. g[<<from, before>>] = least(from, before)
    <3> HIDE DEF least
    <3> QED OBVIOUS
  <2>1. CASE from >= before
    <3>1. at(from, before) = {}
      BY <2>1
    <3> QED BY <2>0, <2>1, <3>1 DEF FindBody
  <2>2. CASE from < before
    <3>1. m \in 1..n /\ from <= m /\ m < before
      BY <2>2, Middle
    <3>2. m \in D /\ m + 1 \in D /\ ~(from >= before)
      BY <2>2, <3>1
    <3> HIDE DEF m
    <3>3. FindBody(es, h, g, from, before) =
              IF es[m].hash = h THEN m ELSE IF h < es[m].hash THEN g[<<from, m>>] ELSE g[<<m + 1, before>>]
      BY <3>2 DEF FindBody, m
    <3>4. CASE es[m].hash = h
      <4>1. at(from, before) = {m}
        BY <1>1, <3>1, <3>4
      <4> HIDE DEF at, g
      <4> QED BY <2>0, <3>3, <3>4, <4>1
    <3>5. CASE h < es[m].hash
      <4>1. at(from, before) = at(from, m)
        BY <3>1, <3>5 DEF InOrder
      <4>2. g[<<from, m>>] = least(from, m)
        <5> HIDE DEF least
        <5> QED BY <3>2
      <4>3. es[m].hash # h
        BY <3>1, <3>5
      <4> HIDE DEF at, g
      <4> QED BY <2>0, <3>3, <3>5, <4>1, <4>2, <4>3
    <3>6. CASE es[m].hash < h
      <4>1. at(from, before) = at(m + 1, before)
        BY <3>1, <3>6 DEF InOrder
      <4>2. g[<<m + 1, before>>] = least(m + 1, before)
        <5> HIDE DEF least
        <5> QED BY <3>2
      <4>3. es[m].hash # h /\ ~(h < es[m].hash)
        BY <3>1, <3>6
      <4> HIDE DEF at, g
      <4> QED BY <2>0, <3>3, <4>1, <4>2, <4>3
    <3>7. es[m].hash \in Nat
      BY <3>1
    <3>8. es[m].hash = h \/ h < es[m].hash \/ es[m].hash < h
      BY <3>7
    <3> HIDE DEF at, g
    <3> QED BY <3>4, <3>5, <3>6, <3>8
  <2> HIDE DEF at, g
  <2> QED BY <2>1, <2>2
<1>3. g = [r \in D \X D |-> FindBody(es, h, g, r[1], r[2])]
  <2>1. ASSUME NEW r \in D \X D PROVE g[r] = FindBody(es, h, g, r[1], r[2])
    <3>1. r[1] \in D /\ r[2] \in D /\ r = <<r[1], r[2]>>
      OBVIOUS
    <3> HIDE DEF g
    <3> QED BY <1>2, <3>1
  <2>2. g = [r \in D \X D |-> g[r]]
    <3> HIDE DEF least
    <3> QED OBVIOUS
  <2> HIDE DEF g
  <2> QED BY <2>1, <2>2
<1> HIDE DEF g
<1> QED BY <1>3 DEF Finds, Ranges

\* bsearch finds a symbol in a page if it is there.
LEMMA SearchFinds ==
    ASSUME NEW es, Len(es) \in Nat, InOrder(es), \A i \in 1..Len(es) : es[i].hash \in Nat, NEW h \in Nat
    PROVE  /\ Search(es, h) = 0 <=> ~Has(es, h)
           /\ Search(es, h) # 0 => Search(es, h) \in 1..Len(es) /\ es[Search(es, h)].hash = h
<1> DEFINE n == Len(es)
           D == 1..n + 1
           f == Finds(es, h)
           S == {d \in Nat : \A from, before \in D :
                                before - from <= d => FoundIn(es, h, f[<<from, before>>], from, before)}
<1>1. \A from, before \in D : f[<<from, before>>] = FindBody(es, h, f, from, before)
  <2>1. f = [r \in D \X D |-> FindBody(es, h, f, r[1], r[2])]
    BY FindsExists DEF Ranges
  <2> HIDE DEF f, D
  <2> QED BY <2>1
<1> HIDE DEF f
<1>2. \A from, before \in D : from >= before => FoundIn(es, h, f[<<from, before>>], from, before)
  <2> SUFFICES ASSUME NEW from \in D, NEW before \in D, from >= before
               PROVE  FoundIn(es, h, f[<<from, before>>], from, before)
    OBVIOUS
  <2>1. f[<<from, before>>] = 0
    BY <1>1 DEF FindBody
  <2> QED BY <2>1 DEF FoundIn
<1>3. 0 \in S
  BY <1>2
<1>4. ASSUME NEW d \in S PROVE d + 1 \in S
  <2> SUFFICES ASSUME NEW from \in D, NEW before \in D, before - from <= d + 1, from < before
               PROVE  FoundIn(es, h, f[<<from, before>>], from, before)
    BY <1>2, <1>4
  <2> DEFINE m == (from + before) \div 2
  <2>1. m \in 1..n /\ from <= m /\ m < before
    BY Middle
  <2>2. f[<<from, before>>] = IF es[m].hash = h THEN m ELSE IF h < es[m].hash THEN f[<<from, m>>] ELSE f[<<m + 1, before>>]
    <3>1. ~(from >= before)
      OBVIOUS
    <3> QED BY <1>1, <3>1 DEF FindBody
  <2>3. m \in D /\ m + 1 \in D
    BY <2>1
  <2>4. m - from <= d /\ before - (m + 1) <= d
    BY <1>4, <2>1
  <2> HIDE DEF m
  <2>5. FoundIn(es, h, f[<<from, m>>], from, m) /\ FoundIn(es, h, f[<<m + 1, before>>], m + 1, before)
    BY <1>4, <2>3, <2>4
  <2>6. CASE es[m].hash = h
    BY <2>1, <2>2, <2>6 DEF FoundIn
  <2>7. CASE h < es[m].hash
    <3>1. \A i \in 1..n : m <= i => es[i].hash # h
      BY <2>1, <2>7 DEF InOrder
    <3> QED BY <2>1, <2>2, <2>5, <2>7, <3>1 DEF FoundIn
  <2>8. CASE es[m].hash < h
    <3>1. \A i \in 1..n : i <= m => es[i].hash # h
      <4> SUFFICES ASSUME NEW i \in 1..n, i <= m, es[i].hash = h PROVE FALSE
        OBVIOUS
      <4>1. i # m /\ m \in 1..n /\ i \in Nat /\ m \in Nat /\ es[m].hash \in Nat
        BY <2>1, <2>8
      <4>2. i < m
        BY <4>1
      <4>3. es[i].hash < es[m].hash
        BY <4>1, <4>2 DEF InOrder
      <4> QED BY <2>8, <4>1, <4>3
    <3>2. es[m].hash # h /\ ~(h < es[m].hash)
      BY <2>1, <2>8
    <3> QED BY <2>1, <2>2, <2>5, <3>1, <3>2 DEF FoundIn
  <2> QED BY <2>1, <2>6, <2>7, <2>8
<1>5. S = Nat
  <2> HIDE DEF S
  <2>1. S \in SUBSET Nat
    BY DEF S
  <2> QED BY <1>3, <1>4, <2>1, SetInduction
<1>6. FoundIn(es, h, f[<<1, n + 1>>], 1, n + 1)
  <2>1. n \in S
    BY <1>5
  <2> QED BY <2>1
<1>7. Search(es, h) = f[<<1, n + 1>>]
  BY SearchIsFinds DEF f
<1> QED BY <1>6, <1>7 DEF FoundIn, Has
-----------------------------------------------------------------------------
(***************************************************************************)
(* Texts in pages of strings, and the names of symbols.  The pages are     *)
(* parameters, for the same facts are needed before and after a step.      *)
(***************************************************************************)
Bytes == {Zero} \cup [text : Spellings, byte : Nat]

StringPage == [top : 0..StringBytes, available : 0..StringBytes, data : [0..StringBytes - 1 -> Bytes]]

StringsIn(sp) ==
    /\ sp \in Seq(StringPage) /\ Len(sp) <= MaxPages
    /\ \A p \in 1..Len(sp) : sp[p].available = StringBytes - sp[p].top

\* Text t and its terminator are at string, below top.
Holds(sp, string, t) ==
    /\ string.page \in 1..Len(sp)
    /\ string.at \in 0..StringBytes
    /\ string.at + Length[t] < sp[string.page].top
    /\ \A k \in 0..Length[t] :
           sp[string.page].data[string.at + k] = IF k < Length[t] THEN [text |-> t, byte |-> k] ELSE Zero

IsWritten(sp, string, s) ==
    \A k \in 0..Length[s] :
        sp[string.page].data[string.at + k] = IF k < Length[s] THEN [text |-> s, byte |-> k] ELSE Zero

TextIn(sp, string) ==
    IF \E s \in Spellings : IsWritten(sp, string, s)
    THEN CHOOSE s \in Spellings : IsWritten(sp, string, s) ELSE NoName

LEMMA HeldTextIsRead ==
    ASSUME NEW sp, NEW string, string.at \in Nat, NEW t \in Spellings, Holds(sp, string, t)
    PROVE  TextIn(sp, string) = t
<1>1. IsWritten(sp, string, t)
  BY DEF Holds, IsWritten
<1>2. ASSUME NEW s \in Spellings, IsWritten(sp, string, s) PROVE s = t
  <2> DEFINE first == sp[string.page].data[string.at]
  <2>1. Length[s] \in Nat /\ Length[t] \in Nat /\ s # NoName /\ t # NoName
    BY SpellingsAssumption DEF SpellingsAssumption
  <2>2. 0 \in 0..Length[s] /\ 0 \in 0..Length[t] /\ string.at + 0 = string.at
    BY <2>1
  <2>3. first = IF 0 < Length[s] THEN [text |-> s, byte |-> 0] ELSE Zero
    BY <1>2, <2>2 DEF IsWritten
  <2>4. first = IF 0 < Length[t] THEN [text |-> t, byte |-> 0] ELSE Zero
    BY <1>1, <2>2 DEF IsWritten
  <2> HIDE DEF first
  <2>5. CASE Length[s] = 0 /\ Length[t] = 0
    BY <2>5, SpellingsAssumption DEF SpellingsAssumption
  <2>6. CASE ~(Length[s] = 0 /\ Length[t] = 0)
    <3>1. \A a \in Spellings : [text |-> a, byte |-> 0].text = a /\ Zero.text = NoName
      BY DEF Zero
    <3>2. first.text = (IF 0 < Length[s] THEN s ELSE NoName) /\ first.text = (IF 0 < Length[t] THEN t ELSE NoName)
      BY <2>3, <2>4, <3>1
    <3> QED BY <2>1, <2>6, <3>2
  <2> QED BY <2>5, <2>6
<1> QED BY <1>1, <1>2 DEF TextIn

\* An entry has the name of a spelling of its symbol.
Named(sp, e) == \E s \in Spellings : Hash[s] = e.hash /\ Holds(sp, e.string, Lower[s])

Entry == [hash : Nat, string : Strings]

HashPage == [entries : Seq(Entry), available : Nat]

HashesIn(sp, hp) ==
    /\ hp \in Seq(HashPage)
    /\ \A p \in 1..Len(hp) : /\ Len(hp[p].entries) + hp[p].available = HashSlots
                             /\ InOrder(hp[p].entries)
                             /\ \A k \in 1..Len(hp[p].entries) : Named(sp, hp[p].entries[k])
    /\ \A p, q \in 1..Len(hp), h \in Nat : Has(hp[p].entries, h) /\ Has(hp[q].entries, h) => p = q

Interned(hp, h) == \E p \in 1..Len(hp) : Has(hp[p].entries, h)

WithIn(hp, hash) == {p \in DOMAIN hp : Search(hp[p].entries, hash) # 0}

NameIn(sp, hp, hash) ==
    LET entries == hp[Max(WithIn(hp, hash))].entries
    IN  IF WithIn(hp, hash) = {} THEN NoName ELSE TextIn(sp, entries[Search(entries, hash)].string)

LEMMA NamesAreNames ==
    /\ \A h : PagesWith(h) = WithIn(hashPages, h)
    /\ \A h : FindSymbolName(h) = NameIn(stringPages, hashPages, h)
    /\ \A h : FindSymbolName(h)' = NameIn(stringPages', hashPages', h)
<1>1. \A string : Text(string) = TextIn(stringPages, string)
  BY DEF Text, TextIn, IsWritten
<1>2. \A string : Text(string)' = TextIn(stringPages', string)
  BY DEF Text, TextIn, IsWritten
<1>3. \A h : PagesWith(h) = WithIn(hashPages, h) /\ PagesWith(h)' = WithIn(hashPages', h)
  BY DEF PagesWith, WithIn
<1> QED BY <1>1, <1>2, <1>3 DEF FindSymbolName, NameIn

LEMMA PageFacts ==
    ASSUME NEW sp, NEW hp, HashesIn(sp, hp)
    PROVE  /\ Len(hp) \in Nat /\ DOMAIN hp = 1..Len(hp)
           /\ \A p \in 1..Len(hp) : /\ hp[p].entries \in Seq(Entry) /\ hp[p].available \in Nat
                                    /\ InOrder(hp[p].entries) /\ Len(hp[p].entries) \in Nat
                                    /\ \A k \in 1..Len(hp[p].entries) : hp[p].entries[k] \in Entry
<1>1. hp \in Seq(HashPage)
  BY DEF HashesIn
<1>2. \A p \in 1..Len(hp) : hp[p] \in HashPage
  BY <1>1
<1>3. \A p \in 1..Len(hp) : hp[p].entries \in Seq(Entry) /\ hp[p].available \in Nat
  BY <1>2 DEF HashPage
<1>4. \A es \in Seq(Entry) : Len(es) \in Nat /\ \A k \in 1..Len(es) : es[k] \in Entry
  OBVIOUS
<1>5. \A p \in 1..Len(hp) : InOrder(hp[p].entries)
  BY DEF HashesIn
<1> QED BY <1>1, <1>3, <1>4, <1>5

LEMMA WithFacts ==
    ASSUME NEW sp, NEW hp, HashesIn(sp, hp), NEW h \in Nat
    PROVE  WithIn(hp, h) = {p \in 1..Len(hp) : Has(hp[p].entries, h)}
<1>1. ASSUME NEW p \in 1..Len(hp) PROVE Search(hp[p].entries, h) # 0 <=> Has(hp[p].entries, h)
  <2> DEFINE es == hp[p].entries
  <2>1. Len(es) \in Nat /\ InOrder(es) /\ \A i \in 1..Len(es) : es[i].hash \in Nat
    BY PageFacts DEF Entry
  <2> HIDE DEF es
  <2>2. Search(es, h) = 0 <=> ~Has(es, h)
    BY <2>1, SearchFinds
  <2> QED BY <2>2 DEF es
<1> QED BY <1>1, PageFacts DEF WithIn

\* The name of an entry's symbol is the text that the entry leads to.
LEMMA NameOfEntry ==
    ASSUME NEW sp, NEW hp, HashesIn(sp, hp), NEW p \in 1..Len(hp), NEW k \in 1..Len(hp[p].entries),
           NEW t \in Spellings, Holds(sp, hp[p].entries[k].string, t)
    PROVE  NameIn(sp, hp, hp[p].entries[k].hash) = t
<1> DEFINE es == hp[p].entries
           h == es[k].hash
<1>1. Len(es) \in Nat /\ InOrder(es) /\ \A i \in 1..Len(es) : es[i] \in Entry /\ es[i].hash \in Nat
  BY PageFacts DEF Entry
<1>2. h \in Nat /\ es[k].string.at \in Nat
  BY <1>1 DEF Entry, Strings
<1>3. Has(es, h)
  BY DEF Has
<1>4. WithIn(hp, h) = {p}
  <2>1. \A q \in 1..Len(hp) : Has(hp[q].entries, h) => q = p
    BY <1>2, <1>3 DEF HashesIn
  <2>2. WithIn(hp, h) = {q \in 1..Len(hp) : Has(hp[q].entries, h)}
    BY <1>2, WithFacts
  <2> HIDE DEF h
  <2> QED BY <1>3, <2>1, <2>2
<1>5. Max({p}) = p
  <2>1. p \in Int
    BY PageFacts
  <2> QED BY <2>1 DEF Max
<1>6. Search(es, h) = k
  <2> HIDE DEF es
  <2>1. Search(es, h) # 0 /\ Search(es, h) \in 1..Len(es) /\ es[Search(es, h)].hash = h
    BY <1>1, <1>2, <1>3, SearchFinds
  <2>2. \A i \in 1..Len(es) : es[i].hash = es[k].hash => i = k
    <3>1. k \in 1..Len(es)
      BY DEF es
    <3> QED BY <1>1, <3>1 DEF InOrder
  <2> QED BY <2>1, <2>2
<1>7. TextIn(sp, es[k].string) = t
  BY <1>2, HeldTextIsRead
<1> HIDE DEF es, h
<1>8. NameIn(sp, hp, h) = t
  BY <1>4, <1>5, <1>6, <1>7 DEF NameIn, es
<1> QED BY <1>8 DEF h, es

LEMMA NameOfNone ==
    ASSUME NEW sp, NEW hp, HashesIn(sp, hp), NEW h \in Nat, ~Interned(hp, h)
    PROVE  NameIn(sp, hp, h) = NoName
<1>1. WithIn(hp, h) = {}
  BY WithFacts DEF Interned
<1> QED BY <1>1 DEF NameIn
-----------------------------------------------------------------------------
(***************************************************************************)
(* What intern_string and intern_hash do to the pages.                     *)
(***************************************************************************)
\* No text is lost.
Keeps(sp, sq) ==
    \A string \in Strings, t \in Spellings : Holds(sp, string, t) => Holds(sq, string, t)

LEMMA StringPageFacts ==
    ASSUME NEW sp, StringsIn(sp)
    PROVE  /\ Len(sp) \in Nat /\ DOMAIN sp = 1..Len(sp)
           /\ \A p \in 1..Len(sp) : /\ sp[p] \in StringPage /\ sp[p].top \in 0..StringBytes
                                    /\ sp[p].available = StringBytes - sp[p].top
                                    /\ sp[p].data \in [0..StringBytes - 1 -> Bytes]
<1>1. sp \in Seq(StringPage)
  BY DEF StringsIn
<1>2. \A p \in 1..Len(sp) : sp[p] \in StringPage
  BY <1>1
<1> QED BY <1>1, <1>2 DEF StringPage, StringsIn

LEMMA Written ==
    ASSUME NEW sp, StringsIn(sp), NEW p \in 1..Len(sp), NEW s \in Spellings, HasRoom(sp[p], s),
           NEW sq, sq = [sp EXCEPT ![p] = WriteString(sp[p], s)]
    PROVE  /\ StringsIn(sq) /\ Keeps(sp, sq)
           /\ [page |-> p, at |-> sp[p].top] \in Strings
           /\ Holds(sq, [page |-> p, at |-> sp[p].top], Lower[s])
<1> DEFINE t == Lower[s]
           top == sp[p].top
           r == WriteString(sp[p], s)
<1>1. /\ Len(sp) \in Nat /\ sp[p] \in StringPage /\ top \in 0..StringBytes
      /\ sp[p].available = StringBytes - top /\ sp[p].data \in [0..StringBytes - 1 -> Bytes]
  BY StringPageFacts
<1>2. /\ t \in Spellings /\ Length[t] \in Nat /\ Length[s] = Length[t] /\ StringBytes \in Nat
      /\ MaxPages \in Nat
  BY SpellingsAssumption DEF SpellingsAssumption
<1>3. top + Length[t] < StringBytes
  BY <1>1, <1>2 DEF HasRoom
<1> DEFINE byte(b) == IF b \in top..top + Length[t] - 1 THEN [text |-> t, byte |-> b - top]
                      ELSE IF b = top + Length[t] THEN Zero ELSE sp[p].data[b]
<1>4. /\ r.top = top + Length[t] + 1 /\ r.available = sp[p].available - (Length[t] + 1)
      /\ r.data = [b \in 0..StringBytes - 1 |-> byte(b)]
      /\ r = [top |-> r.top, available |-> r.available, data |-> r.data]
  <2>1. r.top = top + (Length[s] + 1) /\ r.available = sp[p].available - (Length[t] + 1)
        /\ r = [top |-> r.top, available |-> r.available, data |-> r.data]
        /\ r.data = [b \in 0..StringBytes - 1 |-> byte(b)]
    BY DEF WriteString, Placed
  <2> HIDE DEF r, t, top
  <2> QED BY <1>1, <1>2, <2>1
<1>5. \A b \in 0..StringBytes - 1 : byte(b) \in Bytes
  <2> SUFFICES ASSUME NEW b \in 0..StringBytes - 1 PROVE byte(b) \in Bytes
    OBVIOUS
  <2>1. CASE b \in top..top + Length[t] - 1
    <3>1. b - top \in Nat
      BY <1>1, <2>1
    <3> QED BY <1>2, <2>1, <3>1 DEF Bytes
  <2>2. CASE b \notin top..top + Length[t] - 1
    <3>1. sp[p].data[b] \in Bytes /\ Zero \in Bytes
      BY <1>1 DEF Bytes
    <3> QED BY <2>2, <3>1
  <2> QED BY <2>1, <2>2
<1> HIDE DEF r
<1>6. r \in StringPage /\ r.available = StringBytes - r.top
  <2>1. r.data \in [0..StringBytes - 1 -> Bytes]
    <3> HIDE DEF byte
    <3> QED BY <1>4, <1>5
  <2>2. r.top \in 0..StringBytes /\ r.available \in 0..StringBytes /\ r.available = StringBytes - r.top
    <3>1. r.top = top + Length[t] + 1 /\ r.available = sp[p].available - (Length[t] + 1)
      BY <1>4
    <3>2. /\ top \in 0..StringBytes /\ sp[p].available = StringBytes - top /\ Length[t] \in Nat
          /\ StringBytes \in Nat
      BY <1>1, <1>2
    <3> HIDE DEF byte, top, t
    <3> QED BY ONLY <1>3, <3>1, <3>2
  <2> QED BY <1>4, <2>1, <2>2 DEF StringPage
<1>7. sq \in Seq(StringPage) /\ Len(sq) = Len(sp) /\ \A q \in 1..Len(sp) : sq[q] = IF q = p THEN r ELSE sp[q]
  <2>1. sp \in Seq(StringPage) /\ sq = [sp EXCEPT ![p] = r]
    BY DEF StringsIn, r
  <2> DEFINE X == StringPage
  <2>2. sp \in Seq(X) /\ r \in X
    BY <1>6, <2>1
  <2> HIDE DEF X
  <2>3. sq \in Seq(X) /\ Len(sq) = Len(sp) /\ \A q \in 1..Len(sp) : sq[q] = IF q = p THEN r ELSE sp[q]
    BY <2>1, <2>2
  <2> QED BY <2>3 DEF X
<1>8. StringsIn(sq)
  BY <1>6, <1>7 DEF StringsIn
<1>9. ASSUME NEW string \in Strings, NEW u \in Spellings, Holds(sp, string, u) PROVE Holds(sq, string, u)
  <2>1. /\ string.page \in 1..Len(sp) /\ string.at \in 0..StringBytes /\ Length[u] \in Nat
        /\ string.at + Length[u] < sp[string.page].top
    BY <1>9, SpellingsAssumption DEF Holds, SpellingsAssumption
  <2>2. CASE string.page # p
    <3>1. sq[string.page] = sp[string.page]
      BY <1>7, <2>1, <2>2
    <3> QED BY <1>7, <1>9, <3>1 DEF Holds
  <2>3. CASE string.page = p
    <3>1. sq[string.page] = r /\ sp[string.page] = sp[p]
      BY <1>7, <2>1, <2>3
    <3>2. string.at + Length[u] < r.top
      <4>1. /\ top \in 0..StringBytes /\ StringBytes \in Nat /\ Length[t] \in Nat /\ Length[u] \in Nat
            /\ string.at \in 0..StringBytes /\ string.at + Length[u] < top /\ r.top = top + Length[t] + 1
        BY <1>1, <1>2, <1>4, <2>1, <2>3
      <4> HIDE DEF top, t, byte
      <4> QED BY ONLY <4>1
    <3>3. ASSUME NEW k \in 0..Length[u] PROVE r.data[string.at + k] = sp[p].data[string.at + k]
      <4>1. string.at + k \in 0..StringBytes - 1 /\ string.at + k < top /\ string.at + k \in Int
        <5>1. /\ string.at \in 0..StringBytes /\ k \in 0..Length[u] /\ Length[u] \in Nat
              /\ StringBytes \in Nat /\ top \in 0..StringBytes /\ string.at + Length[u] < top
          BY <1>1, <1>2, <2>1, <2>3
        <5> HIDE DEF top, byte
        <5> QED BY ONLY <5>1
      <4>2. byte(string.at + k) = sp[p].data[string.at + k]
        <5>1. top \in 0..StringBytes /\ StringBytes \in Nat /\ Length[t] \in Nat
          BY <1>1, <1>2
        <5> DEFINE b == string.at + k
        <5> HIDE DEF top, byte, b
        <5>2. b \notin top..top + Length[t] - 1 /\ b # top + Length[t]
          BY ONLY <4>1, <5>1 DEF b
        <5> QED BY ONLY <5>2 DEF byte, b
      <4> HIDE DEF byte
      <4> QED BY <1>4, <4>1, <4>2
    <3>4. \A k \in 0..Length[u] :
              sp[p].data[string.at + k] = IF k < Length[u] THEN [text |-> u, byte |-> k] ELSE Zero
      BY <1>9, <2>3 DEF Holds
    <3> QED BY <1>7, <2>1, <3>1, <3>2, <3>3, <3>4 DEF Holds
  <2> QED BY <2>2, <2>3
<1> DEFINE new == [page |-> p, at |-> top]
<1>10. new \in Strings /\ new.page = p /\ new.at = top
  <2>1. p \in 1..MaxPages
    BY <1>1, <1>2 DEF StringsIn
  <2> QED BY <1>1, <2>1 DEF Strings
<1>11. Holds(sq, new, t)
  <2>1. sq[p] = r /\ p \in 1..Len(sq) /\ top + Length[t] < r.top
    BY <1>1, <1>2, <1>4, <1>7
  <2>2. ASSUME NEW k \in 0..Length[t]
        PROVE  r.data[top + k] = IF k < Length[t] THEN [text |-> t, byte |-> k] ELSE Zero
    <3>1. top + k \in 0..StringBytes - 1 /\ (top + k) - top = k /\ k \in Int
      <4>1. top \in 0..StringBytes /\ StringBytes \in Nat /\ Length[t] \in Nat /\ k \in 0..Length[t]
        BY <1>1, <1>2
      <4> HIDE DEF top, t, byte
      <4> QED BY ONLY <1>3, <4>1
    <3>2. byte(top + k) = IF k < Length[t] THEN [text |-> t, byte |-> k] ELSE Zero
      <4>1. CASE k < Length[t]
        <5>1. top + k \in top..top + Length[t] - 1
          <6>1. top \in 0..StringBytes /\ StringBytes \in Nat /\ Length[t] \in Nat /\ k \in 0..Length[t]
            BY <1>1, <1>2
          <6> HIDE DEF top, t, byte
          <6> QED BY ONLY <4>1, <6>1
        <5> QED BY <3>1, <4>1, <5>1
      <4>2. CASE ~(k < Length[t])
        <5>1. top + k \notin top..top + Length[t] - 1 /\ top + k = top + Length[t]
          <6>1. top \in 0..StringBytes /\ StringBytes \in Nat /\ Length[t] \in Nat /\ k \in 0..Length[t]
            BY <1>1, <1>2
          <6> HIDE DEF top, t, byte
          <6> QED BY ONLY <4>2, <6>1
        <5> QED BY <4>2, <5>1
      <4> QED BY <4>1, <4>2
    <3> HIDE DEF byte
    <3> QED BY <1>4, <3>1, <3>2
  <2> HIDE DEF new
  <2> QED BY <1>1, <1>10, <2>1, <2>2 DEF Holds
<1> QED BY <1>8, <1>9, <1>10, <1>11 DEF Keeps

LEMMA StringPageAdded ==
    ASSUME NEW sp, StringsIn(sp), Len(sp) < MaxPages
    PROVE  StringsIn(Append(sp, EmptyStringPage)) /\ Keeps(sp, Append(sp, EmptyStringPage))
<1> DEFINE e == EmptyStringPage
           sq == Append(sp, e)
<1>1. e \in StringPage /\ e.available = StringBytes - e.top
  BY SpellingsAssumption DEF SpellingsAssumption, EmptyStringPage, StringPage, Bytes
<1>2. sp \in Seq(StringPage) /\ Len(sp) \in Nat /\ MaxPages \in Nat
  BY SpellingsAssumption DEF SpellingsAssumption, StringsIn
<1> HIDE DEF e
<1>3. /\ sq \in Seq(StringPage) /\ Len(sq) = Len(sp) + 1 /\ sq[Len(sp) + 1] = e
      /\ \A p \in 1..Len(sp) : sq[p] = sp[p]
  <2> DEFINE X == StringPage
  <2>1. sp \in Seq(X) /\ e \in X
    BY <1>1, <1>2
  <2> HIDE DEF X
  <2>2. /\ sq \in Seq(X) /\ Len(sq) = Len(sp) + 1 /\ sq[Len(sp) + 1] = e
        /\ \A p \in 1..Len(sp) : sq[p] = sp[p]
    BY <2>1
  <2> QED BY <2>2 DEF X
<1> HIDE DEF sq
<1>4. \A p \in 1..Len(sp) + 1 : p \in 1..Len(sp) \/ p = Len(sp) + 1
  BY <1>2
<1>5. StringsIn(sq)
  BY <1>1, <1>2, <1>3, <1>4 DEF StringsIn
<1>6. Keeps(sp, sq)
  <2> SUFFICES ASSUME NEW string \in Strings, NEW t \in Spellings, Holds(sp, string, t)
               PROVE  Holds(sq, string, t)
    BY DEF Keeps
  <2>1. string.page \in 1..Len(sq) /\ sq[string.page] = sp[string.page]
    BY <1>2, <1>3 DEF Holds
  <2> QED BY <2>1 DEF Holds
<1> QED BY <1>5, <1>6 DEF sq, e

LEMMA HashesKept ==
    ASSUME NEW sp, NEW sq, NEW hp, Keeps(sp, sq), HashesIn(sp, hp)
    PROVE  HashesIn(sq, hp)
<1>1. ASSUME NEW p \in 1..Len(hp), NEW k \in 1..Len(hp[p].entries)
      PROVE  Named(sq, hp[p].entries[k])
  <2>1. hp[p].entries[k].string \in Strings /\ Named(sp, hp[p].entries[k])
    BY PageFacts DEF HashesIn, Entry
  <2>2. \A t \in Spellings : Lower[t] \in Spellings
    BY SpellingsAssumption DEF SpellingsAssumption
  <2> QED BY <2>1, <2>2 DEF Named, Keeps
<1> QED BY <1>1 DEF HashesIn

LEMMA HashPageAdded ==
    ASSUME NEW sp, NEW hp, HashesIn(sp, hp), NEW hq, hq = Append(hp, EmptyHashPage)
    PROVE  HashesIn(sp, hq) /\ \A h : Interned(hq, h) <=> Interned(hp, h)
<1> DEFINE e == EmptyHashPage
<1>1. e \in HashPage /\ e.entries = <<>> /\ e.available = HashSlots
  BY SpellingsAssumption DEF SpellingsAssumption, EmptyHashPage, HashPage
<1>2. hp \in Seq(HashPage) /\ Len(hp) \in Nat
  BY DEF HashesIn
<1>3. /\ hq \in Seq(HashPage) /\ Len(hq) = Len(hp) + 1 /\ hq[Len(hp) + 1] = e
      /\ \A p \in 1..Len(hp) : hq[p] = hp[p]
  <2> DEFINE X == HashPage
  <2>1. hp \in Seq(X) /\ e \in X
    BY <1>1, <1>2
  <2> HIDE DEF X
  <2>2. /\ hq \in Seq(X) /\ Len(hq) = Len(hp) + 1 /\ hq[Len(hp) + 1] = e
        /\ \A p \in 1..Len(hp) : hq[p] = hp[p]
    BY <2>1
  <2> QED BY <2>2 DEF X
<1> HIDE DEF e
<1>4. \A p \in 1..Len(hq) : p \in 1..Len(hp) \/ p = Len(hp) + 1
  BY <1>2, <1>3
<1>5. \A h : ~Has(hq[Len(hp) + 1].entries, h)
  BY <1>1, <1>3 DEF Has
<1>6. \A p \in 1..Len(hp) : p \in 1..Len(hq)
  BY <1>2, <1>3
<1>7. \A p \in 1..Len(hq) : /\ Len(hq[p].entries) + hq[p].available = HashSlots
                            /\ InOrder(hq[p].entries)
                            /\ \A k \in 1..Len(hq[p].entries) : Named(sp, hq[p].entries[k])
  <2>1. /\ Len(e.entries) + e.available = HashSlots /\ InOrder(e.entries)
        /\ \A k \in 1..Len(e.entries) : Named(sp, e.entries[k])
    BY <1>1, SpellingsAssumption DEF SpellingsAssumption, InOrder
  <2>2. \A p \in 1..Len(hp) : /\ Len(hp[p].entries) + hp[p].available = HashSlots
                            /\ InOrder(hp[p].entries)
                            /\ \A k \in 1..Len(hp[p].entries) : Named(sp, hp[p].entries[k])
    BY DEF HashesIn
  <2> QED BY <1>3, <1>4, <2>1, <2>2
<1>8. \A p, q \in 1..Len(hq), h \in Nat : Has(hq[p].entries, h) /\ Has(hq[q].entries, h) => p = q
  BY <1>3, <1>4, <1>5 DEF HashesIn
<1>9. HashesIn(sp, hq)
  BY <1>3, <1>7, <1>8 DEF HashesIn
<1>10. \A h : Interned(hq, h) <=> Interned(hp, h)
  BY <1>3, <1>4, <1>5, <1>6 DEF Interned
<1> QED BY <1>9, <1>10

\* hq is hp with entry e on page p.
Joins(sp, hp, p, e, hq) ==
    /\ HashesIn(sp, hq)
    /\ \E k \in 1..Len(hq[p].entries) : p \in 1..Len(hq) /\ hq[p].entries[k] = e
    /\ \A q \in 1..Len(hp) : \A i \in 1..Len(hp[q].entries) :
           q \in 1..Len(hq) /\ \E k \in 1..Len(hq[q].entries) : hq[q].entries[k] = hp[q].entries[i]
    /\ \A h : Interned(hq, h) => Interned(hp, h) \/ h = e.hash

\* An entry with a new symbol is added to a page with a free slot: the symbol and its name are there,
\* and all others as before.
LEMMA EntryAdded ==
    ASSUME NEW sp, NEW hp, HashesIn(sp, hp), NEW p \in 1..Len(hp), hp[p].available > 0,
           NEW e \in Entry, Named(sp, e), ~Interned(hp, e.hash),
           NEW hq, hq = [hp EXCEPT ![p] = AddEntry(hp[p], e)]
    PROVE  Joins(sp, hp, p, e, hq)
<1> DEFINE es == hp[p].entries
           r == AddEntry(hp[p], e)
           rs == Sorted(Append(es, e))
<1>1. /\ es \in Seq(Entry) /\ InOrder(es) /\ Len(es) \in Nat /\ hp[p].available \in Nat
      /\ \A k \in 1..Len(es) : es[k] \in Entry
  BY PageFacts
<1>2. Inserted(rs, Entry, es, e)
  <2>1. ~Has(es, e.hash)
    BY DEF Interned
  <2>2. \A x \in Entry : x.hash \in Nat
    BY DEF Entry
  <2> HIDE DEF es, rs
  <2>3. Inserted(Sorted(Append(es, e)), Entry, es, e)
    BY <1>1, <2>1, <2>2, SortedInserts
  <2> QED BY <2>3 DEF rs
<1>3. r = [entries |-> rs, available |-> hp[p].available - 1]
  BY DEF AddEntry
<1> HIDE DEF rs, r
<1>4. /\ rs \in Seq(Entry) /\ Len(rs) = Len(es) + 1 /\ InOrder(rs)
      /\ \A k \in 1..Len(rs) : rs[k] = e \/ \E i \in 1..Len(es) : rs[k] = es[i]
      /\ \E k \in 1..Len(rs) : rs[k] = e
      /\ \A i \in 1..Len(es) : \E k \in 1..Len(rs) : rs[k] = es[i]
  BY <1>2 DEF Inserted
<1>5. r \in HashPage /\ r.entries = rs /\ r.available = hp[p].available - 1
  <2>1. hp[p].available - 1 \in Nat
    BY <1>1
  <2> QED BY <1>3, <1>4, <2>1 DEF HashPage
<1>6. hq \in Seq(HashPage) /\ Len(hq) = Len(hp) /\ \A q \in 1..Len(hp) : hq[q] = IF q = p THEN r ELSE hp[q]
  <2>1. hp \in Seq(HashPage) /\ hq = [hp EXCEPT ![p] = r]
    BY DEF HashesIn, r
  <2> DEFINE X == HashPage
  <2>2. hp \in Seq(X) /\ r \in X
    BY <1>5, <2>1
  <2> HIDE DEF X
  <2>3. hq \in Seq(X) /\ Len(hq) = Len(hp) /\ \A q \in 1..Len(hp) : hq[q] = IF q = p THEN r ELSE hp[q]
    BY <2>1, <2>2
  <2> QED BY <2>3 DEF X
<1>7. \A h : Has(rs, h) <=> Has(es, h) \/ h = e.hash
  <2> HIDE DEF es
  <2> QED BY <1>4 DEF Has
<1>8. \A q \in 1..Len(hp) : \A h : Has(hq[q].entries, h) <=> Has(hp[q].entries, h) \/ (q = p /\ h = e.hash)
  <2> SUFFICES ASSUME NEW q \in 1..Len(hp), NEW h
               PROVE  Has(hq[q].entries, h) <=> Has(hp[q].entries, h) \/ (q = p /\ h = e.hash)
    OBVIOUS
  <2>1. CASE q = p
    BY <1>5, <1>6, <1>7, <2>1
  <2>2. CASE q # p
    BY <1>6, <2>2
  <2> QED BY <2>1, <2>2
<1>9. ASSUME NEW q \in 1..Len(hq)
      PROVE  /\ Len(hq[q].entries) + hq[q].available = HashSlots
             /\ InOrder(hq[q].entries)
             /\ \A k \in 1..Len(hq[q].entries) : Named(sp, hq[q].entries[k])
  <2>1. CASE q = p
    <3>1. Len(es) + hp[p].available = HashSlots /\ \A k \in 1..Len(es) : Named(sp, es[k])
      BY DEF HashesIn
    <3>2. hq[q].entries = rs /\ hq[q].available = hp[p].available - 1
      BY <1>5, <1>6, <2>1
    <3> HIDE DEF es
    <3>3. Len(rs) + (hp[p].available - 1) = HashSlots
      <4>1. /\ Len(es) + hp[p].available = HashSlots /\ Len(es) \in Nat /\ hp[p].available \in Nat
            /\ Len(rs) = Len(es) + 1 /\ HashSlots \in Nat
        BY <1>1, <1>4, <3>1, SpellingsAssumption DEF SpellingsAssumption
      <4> DEFINE a == hp[p].available
                 l == Len(es)
                 m == Len(rs)
      <4>2. l + a = HashSlots /\ l \in Nat /\ a \in Nat /\ m = l + 1 /\ HashSlots \in Nat
        BY <4>1
      <4> SUFFICES m + (a - 1) = HashSlots
        OBVIOUS
      <4> HIDE DEF a, l, m
      <4> QED BY ONLY <4>2
    <3>4. \A k \in 1..Len(rs) : Named(sp, rs[k])
      BY <1>4, <3>1
    <3> QED BY <1>4, <3>2, <3>3, <3>4
  <2>2. CASE q # p
    BY <1>6, <2>2 DEF HashesIn
  <2> QED BY <2>1, <2>2
<1>10. ASSUME NEW q1 \in 1..Len(hq), NEW q2 \in 1..Len(hq), NEW h \in Nat,
              Has(hq[q1].entries, h), Has(hq[q2].entries, h)
       PROVE  q1 = q2
  <2>1. CASE h = e.hash
    <3>1. ~Has(hp[q1].entries, h) /\ ~Has(hp[q2].entries, h)
      BY <1>6, <2>1 DEF Interned
    <3> QED BY <1>6, <1>8, <1>10, <3>1
  <2>2. CASE h # e.hash
    <3>1. Has(hp[q1].entries, h) /\ Has(hp[q2].entries, h)
      BY <1>6, <1>8, <1>10, <2>2
    <3> QED BY <1>6, <3>1 DEF HashesIn
  <2> QED BY <2>1, <2>2
<1>11. HashesIn(sp, hq)
  BY <1>6, <1>9, <1>10 DEF HashesIn
<1>12. \E k \in 1..Len(hq[p].entries) : p \in 1..Len(hq) /\ hq[p].entries[k] = e
  BY <1>4, <1>5, <1>6
<1>13. ASSUME NEW q \in 1..Len(hp), NEW i \in 1..Len(hp[q].entries)
       PROVE  q \in 1..Len(hq) /\ \E k \in 1..Len(hq[q].entries) : hq[q].entries[k] = hp[q].entries[i]
  <2>1. CASE q = p
    <3>1. hq[q].entries = rs /\ i \in 1..Len(es) /\ hp[q].entries[i] = es[i]
      BY <1>5, <1>6, <2>1
    <3>2. PICK k \in 1..Len(rs) : rs[k] = es[i]
      BY <1>4, <3>1
    <3> HIDE DEF es
    <3> QED BY <1>6, <3>1, <3>2
  <2>2. CASE q # p
    BY <1>6, <2>2
  <2> QED BY <2>1, <2>2
<1>14. \A h : Interned(hq, h) => Interned(hp, h) \/ h = e.hash
  BY <1>6, <1>8 DEF Interned
<1> QED BY <1>11, <1>12, <1>13, <1>14 DEF Joins
-----------------------------------------------------------------------------
(***************************************************************************)
(* The invariant: strings and hashes are as above, a symbol that is being  *)
(* registered is not interned yet, and its text, once intern_string has    *)
(* returned, is where it says; a symbol that was returned is interned.     *)
(***************************************************************************)
InternStringOf(s) == [call |-> "intern_string", spelling |-> s]

InternHashOf(s, string) == [call |-> "intern_hash", spelling |-> s, string |-> string]

Pending(sp, hp, r) ==
    \/ r = Idle
    \/ \E s \in Spellings :
           /\ ~Interned(hp, Hash[s])
           /\ \/ r = InternStringOf(s)
              \/ \E string \in Strings : r = InternHashOf(s, string) /\ Holds(sp, string, Lower[s])

Hashes == {Hash[s] : s \in Spellings}

Returned(hp, hs) == hs \subseteq Hashes /\ \A h \in hs : Interned(hp, h)

IInv ==
    /\ StringsIn(stringPages)
    /\ HashesIn(stringPages, hashPages)
    /\ Pending(stringPages, hashPages, registering)
    /\ Returned(hashPages, symbols)

LEMMA SetMax ==
    ASSUME NEW n \in Nat, NEW S \in SUBSET (1..n), S # {}
    PROVE  Max(S) \in S
<1> DEFINE T == {n - x : x \in S}
<1>1. T \in SUBSET Nat /\ T # {}
  <2>1. \A x \in S : n - x \in Nat
    OBVIOUS
  <2>2. PICK x \in S : TRUE
    OBVIOUS
  <2>3. n - x \in T
    OBVIOUS
  <2> QED BY <2>1, <2>3
<1>2. PICK y \in T : \A z \in T : y <= z
  <2> HIDE DEF T
  <2> QED BY <1>1, SetMin
<1>3. PICK x \in S : y = n - x
  BY <1>2
<1>4. \A z \in S : x >= z
  <2> SUFFICES ASSUME NEW z \in S PROVE x >= z
    OBVIOUS
  <2>1. n - z \in T /\ z \in Int /\ x \in Int
    OBVIOUS
  <2>2. n - x <= n - z
    BY <1>2, <1>3, <2>1
  <2> QED BY <2>1, <2>2
<1> QED BY <1>4 DEF Max

LEMMA HashFacts ==
    /\ \A s \in Spellings : Hash[s] \in Nat /\ Hash[s] \in Hashes /\ Lower[s] \in Spellings
    /\ Hashes \subseteq Nat
    /\ \A h \in Hashes : \E s \in Spellings : h = Hash[s]
BY SpellingsAssumption DEF SpellingsAssumption, Hashes

LEMMA EmptyIn == StringsIn(<<>>) /\ HashesIn(<<>>, <<>>) /\ \A h : ~Interned(<<>>, h)
BY SpellingsAssumption DEF SpellingsAssumption, StringsIn, HashesIn, Interned

\* The calls are told apart by their names.
LEMMA Calls ==
    ASSUME NEW sp, NEW hp, NEW r, Pending(sp, hp, r)
    PROVE  /\ r.call = "intern_string" =>
                  \E s \in Spellings : r = InternStringOf(s) /\ r.spelling = s /\ ~Interned(hp, Hash[s])
           /\ r.call = "intern_hash" =>
                  \E s \in Spellings, string \in Strings :
                      /\ r = InternHashOf(s, string) /\ r.spelling = s /\ r.string = string
                      /\ ~Interned(hp, Hash[s]) /\ Holds(sp, string, Lower[s])
<1>1. Idle.call = "none" /\ \A s : InternStringOf(s).call = "intern_string" /\ InternStringOf(s).spelling = s
  BY DEF Idle, InternStringOf
<1>2. \A s, string : /\ InternHashOf(s, string).call = "intern_hash"
                     /\ InternHashOf(s, string).spelling = s /\ InternHashOf(s, string).string = string
  BY DEF InternHashOf
<1>3. ASSUME r.call = "intern_string"
      PROVE  \E s \in Spellings : r = InternStringOf(s) /\ r.spelling = s /\ ~Interned(hp, Hash[s])
  <2>1. r # Idle /\ \A s, string : r # InternHashOf(s, string)
    BY <1>1, <1>2, <1>3
  <2> QED BY <1>1, <2>1 DEF Pending
<1>4. ASSUME r.call = "intern_hash"
      PROVE  \E s \in Spellings, string \in Strings :
                 /\ r = InternHashOf(s, string) /\ r.spelling = s /\ r.string = string
                 /\ ~Interned(hp, Hash[s]) /\ Holds(sp, string, Lower[s])
  <2>1. r # Idle /\ \A s : r # InternStringOf(s)
    BY <1>1, <1>4
  <2>2. PICK s \in Spellings, string \in Strings :
            r = InternHashOf(s, string) /\ ~Interned(hp, Hash[s]) /\ Holds(sp, string, Lower[s])
    BY <2>1 DEF Pending
  <2>3. r.spelling = s /\ r.string = string
    BY <1>2, <2>2
  <2> QED BY <2>2, <2>3
<1> QED BY <1>3, <1>4
-----------------------------------------------------------------------------
(***************************************************************************)
(* The names of the symbols that are interned stay as they are.            *)
(***************************************************************************)
LEMMA NamesKept ==
    ASSUME NEW sp, NEW hp, HashesIn(sp, hp), NEW sq, NEW hq, HashesIn(sq, hq), Keeps(sp, sq),
           \A q \in 1..Len(hp) : \A i \in 1..Len(hp[q].entries) :
               q \in 1..Len(hq) /\ \E k \in 1..Len(hq[q].entries) : hq[q].entries[k] = hp[q].entries[i],
           NEW h \in Nat, Interned(hp, h)
    PROVE  NameIn(sp, hp, h) \in Spellings /\ NameIn(sq, hq, h) = NameIn(sp, hp, h)
<1>0. PICK p \in 1..Len(hp) : Has(hp[p].entries, h)
  BY DEF Interned
<1>1. PICK i \in 1..Len(hp[p].entries) : hp[p].entries[i].hash = h
  BY <1>0 DEF Has
<1> DEFINE e == hp[p].entries[i]
<1>2. e.string \in Strings /\ Named(sp, e)
  BY PageFacts DEF HashesIn, Entry
<1>3. PICK s \in Spellings : Holds(sp, e.string, Lower[s])
  BY <1>2 DEF Named
<1>4. Lower[s] \in Spellings
  BY HashFacts
<1>5. Holds(sq, e.string, Lower[s])
  BY <1>2, <1>3, <1>4 DEF Keeps
<1>6. PICK k \in 1..Len(hq[p].entries) : p \in 1..Len(hq) /\ hq[p].entries[k] = e
  OBVIOUS
<1>7. NameIn(sp, hp, h) = Lower[s]
  BY <1>1, <1>3, <1>4, NameOfEntry
<1>8. NameIn(sq, hq, h) = Lower[s]
  <2>1. hq[p].entries[k].hash = h /\ Holds(sq, hq[p].entries[k].string, Lower[s])
    BY <1>1, <1>5, <1>6
  <2>2. p \in 1..Len(hq)
    BY <1>6
  <2>3. NameIn(sq, hq, hq[p].entries[k].hash) = Lower[s]
    BY <1>4, <2>1, <2>2, NameOfEntry
  <2> QED BY <2>1, <2>3
<1> QED BY <1>4, <1>7, <1>8

\* What no step may do to the names: at most one symbol gets a name, which it had not.
NamesSame(sp, hp, sq, hq) == \A h \in Hashes : NameIn(sq, hq, h) = NameIn(sp, hp, h)

LEMMA PagesOnly ==
    ASSUME NEW sp, NEW hp, HashesIn(sp, hp), NEW sq, NEW hq, HashesIn(sq, hq), Keeps(sp, sq),
           \A q \in 1..Len(hp) : \A i \in 1..Len(hp[q].entries) :
               q \in 1..Len(hq) /\ \E k \in 1..Len(hq[q].entries) : hq[q].entries[k] = hp[q].entries[i],
           \A h : Interned(hq, h) => Interned(hp, h)
    PROVE  NamesSame(sp, hp, sq, hq)
<1> SUFFICES ASSUME NEW h \in Hashes PROVE NameIn(sq, hq, h) = NameIn(sp, hp, h)
  BY DEF NamesSame
<1>1. h \in Nat
  BY HashFacts
<1>2. CASE Interned(hp, h)
  BY <1>1, <1>2, NamesKept
<1>3. CASE ~Interned(hp, h)
  <2>1. ~Interned(hq, h)
    BY <1>3
  <2>2. NameIn(sp, hp, h) = NoName
    BY <1>1, <1>3, NameOfNone
  <2>3. NameIn(sq, hq, h) = NoName
    BY <1>1, <2>1, NameOfNone
  <2> QED BY <2>2, <2>3
<1> QED BY <1>2, <1>3
-----------------------------------------------------------------------------
(***************************************************************************)
(* The steps.                                                              *)
(***************************************************************************)
\* A step of the abstract map, or none.
NameStep(sp, hp, sq, hq) ==
    \/ NamesSame(sp, hp, sq, hq)
    \/ \E s \in Spellings :
           /\ NameIn(sp, hp, Hash[s]) = NoName /\ NameIn(sq, hq, Hash[s]) = Lower[s]
           /\ \A h \in Hashes : h # Hash[s] => NameIn(sq, hq, h) = NameIn(sp, hp, h)

Good(sp, hp, r, hs) == StringsIn(sp) /\ HashesIn(sp, hp) /\ Pending(sp, hp, r) /\ Returned(hp, hs)

LEMMA Registers ==
    ASSUME IInv, NEW s \in Spellings, Register(s)
    PROVE  IInv' /\ NameStep(stringPages, hashPages, stringPages', hashPages')
<1>1. stringPages' = stringPages /\ hashPages' = hashPages
  BY DEF Register
<1>2. NameStep(stringPages, hashPages, stringPages', hashPages')
  BY <1>1 DEF NameStep, NamesSame
<1>3. PagesWith(Hash[s]) = {p \in 1..Len(hashPages) : Has(hashPages[p].entries, Hash[s])}
  BY NamesAreNames, HashFacts, WithFacts DEF IInv
<1>4. PagesWith(Hash[s]) # {} <=> Interned(hashPages, Hash[s])
  BY <1>3 DEF Interned
<1>5. StringsIn(stringPages)' /\ HashesIn(stringPages, hashPages)'
  BY <1>1 DEF IInv
<1>6. CASE PagesWith(Hash[s]) # {}
  <2>1. symbols' = symbols \cup {Hash[s]} /\ registering' = registering
    BY <1>6 DEF Register
  <2>2. Returned(hashPages, symbols)'
    BY <1>1, <1>4, <1>6, <2>1, HashFacts DEF IInv, Returned
  <2>3. Pending(stringPages, hashPages, registering)'
    BY <1>1, <2>1 DEF IInv
  <2> QED BY <1>2, <1>5, <2>2, <2>3 DEF IInv
<1>7. CASE PagesWith(Hash[s]) = {}
  <2>1. registering' = InternStringOf(s) /\ symbols' = symbols
    BY <1>7 DEF Register, InternStringOf
  <2>2. Pending(stringPages, hashPages, registering)'
    BY <1>1, <1>4, <1>7, <2>1 DEF Pending
  <2>3. Returned(hashPages, symbols)'
    BY <1>1, <2>1 DEF IInv
  <2> QED BY <1>2, <1>5, <2>2, <2>3 DEF IInv
<1> QED BY <1>6, <1>7

LEMMA InternsString ==
    ASSUME IInv, InternString
    PROVE  IInv' /\ NameStep(stringPages, hashPages, stringPages', hashPages')
<1> DEFINE sp == stringPages
           sq == stringPages'
           hp == hashPages
<1>1. registering.call = "intern_string" /\ hashPages' = hp /\ symbols' = symbols
  BY DEF InternString
<1>2. StringsIn(sp) /\ HashesIn(sp, hp) /\ Pending(sp, hp, registering) /\ Returned(hp, symbols)
  BY DEF IInv
<1>3. PICK s \in Spellings : /\ registering = InternStringOf(s) /\ registering.spelling = s
                             /\ ~Interned(hp, Hash[s])
  BY <1>1, <1>2, Calls
<1> DEFINE roomy == {q \in DOMAIN sp : HasRoom(sp[q], s)}
           p == Max(roomy)
<1>4. \/ /\ roomy # {}
         /\ sq = [sp EXCEPT ![p] = WriteString(sp[p], s)]
         /\ registering' = InternHashOf(s, [page |-> p, at |-> sp[p].top])
      \/ Len(sp) < MaxPages /\ sq = Append(sp, EmptyStringPage) /\ registering' = registering
  BY <1>3 DEF InternString, InternHashOf, WithStringPage
<1>5. Len(sp) \in Nat /\ DOMAIN sp = 1..Len(sp)
  BY <1>2, StringPageFacts
<1>6. StringsIn(sq) /\ Keeps(sp, sq) /\ Pending(sq, hp, registering')
  <2>1. CASE /\ roomy # {}
             /\ sq = [sp EXCEPT ![p] = WriteString(sp[p], s)]
             /\ registering' = InternHashOf(s, [page |-> p, at |-> sp[p].top])
    <3>1. p \in roomy
      <4>1. roomy \in SUBSET (1..Len(sp))
        BY <1>5
      <4> HIDE DEF roomy, sp
      <4> QED BY <1>5, <2>1, <4>1, SetMax
    <3>2. p \in 1..Len(sp) /\ HasRoom(sp[p], s)
      BY <1>5, <3>1
    <3> HIDE DEF p
    <3> DEFINE string == [page |-> p, at |-> sp[p].top]
    <3>3. StringsIn(sq) /\ Keeps(sp, sq) /\ string \in Strings /\ Holds(sq, string, Lower[s])
      BY <1>2, <2>1, <3>2, Written
    <3>4. registering' = InternHashOf(s, string)
      BY <2>1
    <3> HIDE DEF string
    <3> QED BY <1>3, <3>3, <3>4 DEF Pending
  <2>2. CASE Len(sp) < MaxPages /\ sq = Append(sp, EmptyStringPage) /\ registering' = registering
    <3>1. StringsIn(sq) /\ Keeps(sp, sq)
      BY <1>2, <2>2, StringPageAdded
    <3> QED BY <1>3, <2>2, <3>1 DEF Pending
  <2> QED BY <1>4, <2>1, <2>2
<1>7. HashesIn(sq, hp)
  BY <1>2, <1>6, HashesKept
<1>8. IInv'
  BY <1>1, <1>2, <1>6, <1>7 DEF IInv
<1>9. NamesSame(sp, hp, sq, hp)
  <2>1. \A q \in 1..Len(hp) : \A i \in 1..Len(hp[q].entries) :
            q \in 1..Len(hp) /\ \E k \in 1..Len(hp[q].entries) : hp[q].entries[k] = hp[q].entries[i]
    OBVIOUS
  <2> QED BY <1>2, <1>6, <1>7, <2>1, PagesOnly
<1> QED BY <1>1, <1>8, <1>9 DEF NameStep

LEMMA InternsHash ==
    ASSUME IInv, InternHash
    PROVE  IInv' /\ NameStep(stringPages, hashPages, stringPages', hashPages')
<1> DEFINE sp == stringPages
           hp == hashPages
           hq == hashPages'
<1>1. registering.call = "intern_hash" /\ stringPages' = sp
  BY DEF InternHash
<1>2. StringsIn(sp) /\ HashesIn(sp, hp) /\ Pending(sp, hp, registering) /\ Returned(hp, symbols)
  BY DEF IInv
<1>3. PICK s \in Spellings, string \in Strings :
          /\ registering = InternHashOf(s, string) /\ registering.spelling = s /\ registering.string = string
          /\ ~Interned(hp, Hash[s]) /\ Holds(sp, string, Lower[s])
  BY <1>1, <1>2, Calls
<1> DEFINE free == {q \in DOMAIN hp : hp[q].available > 0}
           p == Max(free)
           e == [hash |-> Hash[s], string |-> string]
<1>4. \/ /\ free # {}
         /\ hq = [hp EXCEPT ![p] = AddEntry(hp[p], e)]
         /\ symbols' = symbols \cup {Hash[s]} /\ registering' = Idle
      \/ hq = Append(hp, EmptyHashPage) /\ symbols' = symbols /\ registering' = registering
  BY <1>3 DEF InternHash
<1>5. Len(hp) \in Nat /\ DOMAIN hp = 1..Len(hp)
  BY <1>2, PageFacts
<1>6. Keeps(sp, sp)
  BY DEF Keeps
<1>7. CASE /\ free # {}
           /\ hq = [hp EXCEPT ![p] = AddEntry(hp[p], e)]
           /\ symbols' = symbols \cup {Hash[s]} /\ registering' = Idle
  <2>1. p \in free
    <3>1. free \in SUBSET (1..Len(hp))
      BY <1>5
    <3> HIDE DEF free, hp
    <3> QED BY <1>5, <1>7, <3>1, SetMax
  <2>2. p \in 1..Len(hp) /\ hp[p].available > 0
    BY <1>5, <2>1
  <2>3. e \in Entry /\ e.hash = Hash[s] /\ e.string = string /\ Named(sp, e)
    BY <1>3, HashFacts DEF Entry, Named
  <2> HIDE DEF p, e
  <2>4. /\ HashesIn(sp, hq)
        /\ \E k \in 1..Len(hq[p].entries) : p \in 1..Len(hq) /\ hq[p].entries[k] = e
        /\ \A q \in 1..Len(hp) : \A i \in 1..Len(hp[q].entries) :
               q \in 1..Len(hq) /\ \E k \in 1..Len(hq[q].entries) : hq[q].entries[k] = hp[q].entries[i]
        /\ \A h : Interned(hq, h) => Interned(hp, h) \/ h = e.hash
    <3>1. ~Interned(hp, e.hash)
      BY <1>3, <2>3
    <3>2. hq = [hp EXCEPT ![p] = AddEntry(hp[p], e)]
      BY <1>7
    <3> HIDE DEF hp, hq, sp
    <3>3. Joins(sp, hp, p, e, hq)
      BY <1>2, <2>2, <2>3, <3>1, <3>2, EntryAdded
    <3> QED BY <3>3 DEF Joins
  <2>5. PICK k \in 1..Len(hq[p].entries) : p \in 1..Len(hq) /\ hq[p].entries[k] = e
    BY <2>4
  <2>6. Interned(hq, Hash[s])
    BY <2>3, <2>5 DEF Interned, Has
  <2>7. ASSUME NEW h, Interned(hp, h) PROVE Interned(hq, h)
    <3>1. PICK q \in 1..Len(hp) : Has(hp[q].entries, h)
      BY <2>7 DEF Interned
    <3>2. PICK i \in 1..Len(hp[q].entries) : hp[q].entries[i].hash = h
      BY <3>1 DEF Has
    <3>3. PICK j \in 1..Len(hq[q].entries) : hq[q].entries[j] = hp[q].entries[i]
      BY <2>4
    <3>4. q \in 1..Len(hq) /\ hq[q].entries[j].hash = h
      BY <2>4, <3>2, <3>3
    <3> QED BY <3>4 DEF Interned, Has
  <2>8. Returned(hq, symbols')
    BY <1>2, <1>7, <2>6, <2>7, HashFacts DEF Returned
  <2>9. IInv'
    BY <1>1, <1>2, <1>7, <2>4, <2>8 DEF IInv, Pending
  <2>10. NameIn(sp, hq, Hash[s]) = Lower[s]
    <3>1. hq[p].entries[k].hash = Hash[s] /\ Holds(sp, hq[p].entries[k].string, Lower[s])
      BY <1>3, <2>3, <2>5
    <3>2. p \in 1..Len(hq) /\ Lower[s] \in Spellings
      BY <2>5, HashFacts
    <3>3. NameIn(sp, hq, hq[p].entries[k].hash) = Lower[s]
      BY <2>4, <3>1, <3>2, NameOfEntry
    <3> QED BY <3>1, <3>3
  <2>11. NameIn(sp, hp, Hash[s]) = NoName
    BY <1>2, <1>3, HashFacts, NameOfNone
  <2>12. ASSUME NEW h \in Hashes, h # Hash[s] PROVE NameIn(sp, hq, h) = NameIn(sp, hp, h)
    <3>1. h \in Nat
      BY HashFacts
    <3>2. CASE Interned(hp, h)
      BY <1>2, <1>6, <2>4, <3>1, <3>2, NamesKept
    <3>3. CASE ~Interned(hp, h)
      <4>1. ~Interned(hq, h)
        BY <2>3, <2>4, <2>12, <3>3
      <4>2. NameIn(sp, hp, h) = NoName
        BY <1>2, <3>1, <3>3, NameOfNone
      <4>3. NameIn(sp, hq, h) = NoName
        BY <2>4, <3>1, <4>1, NameOfNone
      <4> QED BY <4>2, <4>3
    <3> QED BY <3>2, <3>3
  <2> QED BY <1>1, <2>9, <2>10, <2>11, <2>12 DEF NameStep
<1>8. CASE hq = Append(hp, EmptyHashPage) /\ symbols' = symbols /\ registering' = registering
  <2>1. HashesIn(sp, hq) /\ \A h : Interned(hq, h) <=> Interned(hp, h)
    BY <1>2, <1>8, HashPageAdded
  <2>2. \A q \in 1..Len(hp) : \A i \in 1..Len(hp[q].entries) :
            q \in 1..Len(hq) /\ \E k \in 1..Len(hq[q].entries) : hq[q].entries[k] = hp[q].entries[i]
    <3>1. hp \in Seq(HashPage)
      BY <1>2 DEF HashesIn
    <3> DEFINE X == HashPage
               page == EmptyHashPage
    <3>2. hp \in Seq(X) /\ hq = Append(hp, page)
      BY <1>8, <3>1
    <3> HIDE DEF X, page, hp
    <3>3. \A q \in 1..Len(hp) : q \in 1..Len(hq) /\ hq[q] = hp[q]
      BY <3>2
    <3> QED BY <3>3
  <2>3. NamesSame(sp, hp, sp, hq)
    BY <1>2, <1>6, <2>1, <2>2, PagesOnly
  <2>4. IInv'
    BY <1>1, <1>2, <1>8, <2>1 DEF IInv, Pending, Returned
  <2> QED BY <1>1, <2>3, <2>4 DEF NameStep
<1> QED BY <1>4, <1>7, <1>8

LEMMA Steps ==
    ASSUME IInv, [Next]_vars
    PROVE  IInv' /\ NameStep(stringPages, hashPages, stringPages', hashPages')
<1>1. CASE UNCHANGED vars
  BY <1>1 DEF vars, IInv, NameStep, NamesSame
<1> QED BY <1>1, Registers, InternsString, InternsHash DEF Next

LEMMA Starts == ASSUME Init PROVE IInv
BY EmptyIn DEF Init, IInv, Pending, Returned, Interned

\* The pages, the calls and the symbols are always as IInv says.
THEOREM Invariance == Spec => []IInv
<1>1. Init => IInv
  BY Starts
<1>2. IInv /\ [Next]_vars => IInv'
  BY Steps
<1> QED BY <1>1, <1>2, PTL DEF Spec

\* A page has as many entries and free slots as it has slots, and as many bytes used and free as it
\* has bytes, for any texts, pages of any size, and any order of registrations.
THEOREM TypeCorrect == Spec => []TypeOK
<1>1. IInv => TypeOK
  <2> SUFFICES ASSUME IInv PROVE TypeOK
    OBVIOUS
  <2>1. \A p \in DOMAIN stringPages : /\ stringPages[p].top \in 0..StringBytes
                                      /\ stringPages[p].available = StringBytes - stringPages[p].top
    BY StringPageFacts DEF IInv
  <2>2. \A p \in DOMAIN hashPages :
            /\ Len(hashPages[p].entries) + hashPages[p].available = HashSlots
            /\ \A k \in DOMAIN hashPages[p].entries : hashPages[p].entries[k].string \in Strings
    <3> SUFFICES ASSUME NEW p \in DOMAIN hashPages
                 PROVE  /\ Len(hashPages[p].entries) + hashPages[p].available = HashSlots
                        /\ \A k \in DOMAIN hashPages[p].entries : hashPages[p].entries[k].string \in Strings
      OBVIOUS
    <3>1. p \in 1..Len(hashPages)
      BY PageFacts DEF IInv
    <3>2. /\ hashPages[p].entries \in Seq(Entry)
          /\ \A k \in 1..Len(hashPages[p].entries) : hashPages[p].entries[k] \in Entry
      BY <3>1, PageFacts DEF IInv
    <3>3. DOMAIN hashPages[p].entries = 1..Len(hashPages[p].entries)
      BY <3>2
    <3>4. Len(hashPages[p].entries) + hashPages[p].available = HashSlots
      BY <3>1 DEF IInv, HashesIn
    <3> QED BY <3>2, <3>3, <3>4 DEF Entry
  <2>3. registering = Idle \/ registering.spelling \in Spellings
    BY DEF IInv, Pending, InternStringOf, InternHashOf
  <2>4. symbols \subseteq {Hash[s] : s \in Spellings}
    BY DEF IInv, Returned, Hashes
  <2> QED BY <2>1, <2>2, <2>3, <2>4 DEF TypeOK
<1> QED BY <1>1, Invariance, PTL

LEMMA InternedHasName ==
    ASSUME IInv, NEW h \in Nat, Interned(hashPages, h)
    PROVE  FindSymbolName(h) \in Spellings
<1>1. \A q \in 1..Len(hashPages) : \A i \in 1..Len(hashPages[q].entries) :
          /\ q \in 1..Len(hashPages)
          /\ \E k \in 1..Len(hashPages[q].entries) : hashPages[q].entries[k] = hashPages[q].entries[i]
  OBVIOUS
<1>2. Keeps(stringPages, stringPages)
  BY DEF Keeps
<1>3. NameIn(stringPages, hashPages, h) \in Spellings
  BY <1>1, <1>2, NamesKept DEF IInv
<1> QED BY <1>3, NamesAreNames

\* A symbol that was returned to the program has a name: symbol->string finds it, however many pages
\* were filled, sorted and added since.
THEOREM ReturnedSymbolsHaveNames == Spec => []SymbolsHaveNames
<1>1. IInv => SymbolsHaveNames
  <2> SUFFICES ASSUME IInv, NEW h \in symbols PROVE FindSymbolName(h) # NoName
    BY DEF SymbolsHaveNames
  <2>1. h \in Nat /\ Interned(hashPages, h)
    BY HashFacts DEF IInv, Returned
  <2>2. FindSymbolName(h) \in Spellings
    BY <2>1, InternedHasName
  <2> QED BY <2>2, SpellingsAssumption DEF SpellingsAssumption
<1> QED BY <1>1, Invariance, PTL

Map == [h \in {Hash[s] : s \in Spellings} |-> FindSymbolName(h)]

LEMMA NameSteps ==
    ASSUME NameStep(stringPages, hashPages, stringPages', hashPages')
    PROVE  [NamesOfSymbols!Next]_Map
<1>1. /\ Map = [h \in Hashes |-> NameIn(stringPages, hashPages, h)]
      /\ Map' = [h \in Hashes |-> NameIn(stringPages', hashPages', h)]
  BY NamesAreNames DEF Map, Hashes
<1> DEFINE m == [h \in Hashes |-> NameIn(stringPages, hashPages, h)]
           n == [h \in Hashes |-> NameIn(stringPages', hashPages', h)]
<1>2. CASE NamesSame(stringPages, hashPages, stringPages', hashPages')
  <2>1. m = n
    BY <1>2 DEF NamesSame
  <2> QED BY <1>1, <2>1
<1>3. ASSUME NEW s \in Spellings,
             NameIn(stringPages, hashPages, Hash[s]) = NoName,
             NameIn(stringPages', hashPages', Hash[s]) = Lower[s],
             \A h \in Hashes : h # Hash[s] =>
                 NameIn(stringPages', hashPages', h) = NameIn(stringPages, hashPages, h)
      PROVE  NamesOfSymbols!Register(s)
  <2>1. Hash[s] \in Hashes
    BY HashFacts
  <2>2. m[Hash[s]] = NoName
    BY <1>3, <2>1
  <2>3. n = [m EXCEPT ![Hash[s]] = Lower[s]]
    BY <1>3, <2>1
  <2>4. Map[Hash[s]] = NoName /\ Map' = [Map EXCEPT ![Hash[s]] = Lower[s]]
    BY <1>1, <2>2, <2>3
  <2> QED BY <2>4 DEF NamesOfSymbols!Register, Map
<1> QED BY <1>2, <1>3 DEF NameStep, NamesOfSymbols!Next

\* Internment implements the map of names: a symbol gets the name of the first spelling registered
\* with its hash, in lower case, and keeps it, whatever is done to the pages.
THEOREM InterningImplementsNames == Spec => ImplementsNames
<1>1. Init => NamesOfSymbols!Init
  <2> SUFFICES ASSUME Init PROVE NamesOfSymbols!Init
    OBVIOUS
  <2>1. \A h \in Hashes : FindSymbolName(h) = NoName
    <3> SUFFICES ASSUME NEW h \in Hashes PROVE FindSymbolName(h) = NoName
      OBVIOUS
    <3>1. h \in Nat
      BY HashFacts
    <3>2. NameIn(<<>>, <<>>, h) = NoName
      BY <3>1, EmptyIn, NameOfNone
    <3> QED BY <3>2, NamesAreNames DEF Init
  <2>2. Map = [h \in Hashes |-> NoName]
    BY <2>1 DEF Map, Hashes
  <2> QED BY <2>2 DEF NamesOfSymbols!Init, NamesOfSymbols!Symbols, Map, Hashes
<1>2. IInv /\ [Next]_vars => [NamesOfSymbols!Next]_Map
  BY Steps, NameSteps
<1>3. IInv /\ [Next]_vars => [NamesOfSymbols!Next]_[h \in {Hash[s] : s \in Spellings} |-> FindSymbolName(h)]
  BY <1>2 DEF Map
<1> QED BY <1>1, <1>3, Invariance, PTL DEF Spec, ImplementsNames, NamesOfSymbols!Spec
=============================================================================
