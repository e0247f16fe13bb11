------------------------ MODULE VmStackRefines_proofs ------------------------
(***************************************************************************)
(* Proof that the stack of vm.c implements CallStack, for the programs of  *)
(* VmStack_proofs: each step of VmStack is the step of CallStack of the    *)
(* same name (a computation, for an instruction that makes no call), or    *)
(* no step of it at all.                                                   *)
(*                                                                         *)
(* First, frames that a step does not write are the same after it; then    *)
(* the frames and temporaries of a run as sequences; then the steps.       *)
(***************************************************************************)
EXTENDS VmStack_proofs

-----------------------------------------------------------------------------
(* What a step leaves alone in memory, it leaves alone in the frames.      *)

LEMMA CallsPrime == Calls' = [i \in DOMAIN runs' |-> Frames(memory', runs'[i])]
BY DEF Calls

\* The memories are the same above low, up to u.
Agree(m, n, low, u) == \A x \in 0 .. u : x > low => n[x] = m[x]

LEMMA FrameSame ==
    ASSUME NEW m, NEW n, NEW p \in Procedures, NEW pc, NEW e, NEW a \in Nat, NEW low \in Int,
           NEW u \in Int, Agree(m, n, low, u),
           -1 <= low, low <= Floor(a, p), a + NumArgs[p] - 1 <= u
    PROVE  Frame(n, p, pc, e, a, low) = Frame(m, p, pc, e, a, low)
<1> DEFINE k == NumArgs[p]
           l == NumLocals[p]
           t == Floor(a, p) - low
<1>1. k \in Nat /\ l \in Nat /\ Floor(a, p) = a - 4 - l
  BY Stack DEF Floor, SlotCount
<1>2. a + k - 1 <= u /\ t = a - 4 - l - low /\ low <= a - 4 - l
  BY <1>1
<1> HIDE DEF k, l, t
<1>3. ASSUME NEW i \in 1 .. k PROVE n[a + i - 1] = m[a + i - 1]
  <2>1. a + i - 1 \in 0 .. u /\ a + i - 1 > low
    BY <1>1, <1>2
  <2> QED BY <2>1 DEF Agree
<1>4. ASSUME NEW i \in 1 .. l PROVE n[a + SlotIndex(i - 1)] = m[a + SlotIndex(i - 1)]
  <2>1. a + SlotIndex(i - 1) = a - i - 3
    BY <1>1 DEF SlotIndex, SlotCount
  <2>2. a - i - 3 \in 0 .. u /\ a - i - 3 > low
    BY <1>1, <1>2
  <2> QED BY <2>1, <2>2 DEF Agree
<1>5. ASSUME NEW i \in 1 .. t PROVE n[low + i] = m[low + i]
  <2>1. low + i \in 0 .. u /\ low + i > low
    BY <1>1, <1>2
  <2> QED BY <2>1 DEF Agree
<1> QED BY <1>3, <1>4, <1>5 DEF Frame, k, l, t

\* The same frame may have its chain at two places.
LEMMA PlaceSame ==
    ASSUME NEW m, NEW n, NEW x \in Places, NEW y \in Places,
           \A c \in 1 .. 3 : n[x[1] - c] = m[y[1] - c],
           HasCaller(n, x) <=> HasCaller(m, y),
           HasCaller(m, y) => /\ Callers(n)[CallerPlace(m, y)] = Callers(m)[CallerPlace(m, y)]
                              /\ CallerFrame(n, x) = CallerFrame(m, y)
    PROVE  Callers(n)[x] = Callers(m)[y]
<1>1. n[x[1] - PcChain] = m[y[1] - PcChain] /\ n[x[1] - AreaChain] = m[y[1] - AreaChain]
  <2>1. PcChain \in 1 .. 3 /\ AreaChain \in 1 .. 3
    BY DEF PcChain, AreaChain
  <2> QED BY <2>1
<1>2. CallerPlace(n, x) = CallerPlace(m, y)
  BY <1>1 DEF CallerPlace, CallerProc, CallerArea
<1>3. Callers(n)[x] = CallersBody(n, Callers(n), x) /\ Callers(m)[y] = CallersBody(m, Callers(m), y)
  <2> HIDE DEF CallersBody
  <2> QED BY CallersUnfold
<1> QED BY <1>2, <1>3, Zenon DEF CallersBody

\* What frames higher up the stack the frame at k returns to.
CallersOf(m, fs, k) == Callers(m)[<<fs[k].area, End(fs[k])>>]

LEMMA OuterSame ==
    ASSUME NEW m, NEW n, NEW fs, NEW old \in 0 .. StackTop, Links(m, fs, old),
           KeepsAbove(m, n, fs[1], old)
    PROVE  \A k \in 2 .. Len(fs) : CallersOf(n, fs, k) = CallersOf(m, fs, k)
<1> DEFINE l == Len(fs)
           S == {k \in 2 .. l : CallersOf(n, fs, k) = CallersOf(m, fs, k)}
           G == {i \in Nat : i < l - 1 => l - i \in S}
<1>1. l \in Nat /\ l \in 1 .. l /\ old \in Nat /\ old <= StackTop /\ StackTop \in Nat
  BY LinksFacts, Stack
<1>2. ASSUME NEW k \in 2 .. l
      PROVE  /\ k \in 1 .. l /\ fs[k].area \in Nat /\ End(fs[k]) \in Int /\ End(fs[k]) < old
             /\ fs[k].area - 1 <= End(fs[k]) /\ fs[k].proc \in Procedures
             /\ End(fs[1]) \in Int /\ -1 <= End(fs[1]) /\ End(fs[1]) < fs[k].area - 3
  <2>1. k \in 1 .. l /\ 1 \in 1 .. l /\ k # 1
    BY <1>1
  <2>2. /\ fs[k].area \in Nat /\ End(fs[k]) \in Int /\ End(fs[k]) < old /\ fs[k].proc \in Procedures
        /\ fs[k].area - 1 <= End(fs[k]) /\ FrameFloor(fs[k]) < fs[k].area - 3
        /\ FrameFloor(fs[k]) \in Int /\ End(fs[1]) <= FrameFloor(fs[k])
        /\ End(fs[1]) \in Int /\ fs[1].area \in Nat /\ fs[1].area - 1 <= End(fs[1])
    BY <2>1, LinksFacts
  <2> DEFINE e1 == End(fs[1])
             fl == FrameFloor(fs[k])
             ek == End(fs[k])
  <2> HIDE DEF e1, fl, ek, l
  <2>3. -1 <= e1 /\ e1 < fs[k].area - 3
    BY <2>2 DEF e1, fl
  <2> QED BY <2>1, <2>2, <2>3 DEF e1
<1>3. ASSUME NEW k \in 2 .. l, NEW x \in fs[k].area - 3 .. End(fs[k]) PROVE n[x] = m[x]
  <2>1. x \in End(fs[1]) + 1 .. old - 1
    <3> DEFINE e1 == End(fs[1])
               ek == End(fs[k])
               a == fs[k].area
    <3>1. a \in Nat /\ ek \in Int /\ ek < old /\ e1 \in Int /\ e1 < a - 3
      BY <1>2
    <3> HIDE DEF e1, ek, a
    <3>2. x \in a - 3 .. ek
      BY DEF a, ek
    <3>3. x \in e1 + 1 .. old - 1
      BY <1>1, <3>1, <3>2
    <3> QED BY <3>3 DEF e1
  <2> QED BY <2>1 DEF KeepsAbove
\* The place of a frame and its chain.
<1>4. ASSUME NEW k \in 2 .. l
      PROVE  /\ <<fs[k].area, End(fs[k])>> \in Places
             /\ \A c \in 1 .. 3 : n[fs[k].area - c] = m[fs[k].area - c]
  <2> DEFINE ek == End(fs[k])
             a == fs[k].area
  <2>1. a \in Nat /\ ek \in Int /\ a - 1 <= ek /\ ek < old
    BY <1>2
  <2>2. \A c \in 1 .. 3 : a - c \in a - 3 .. ek
    <3> HIDE DEF a, ek
    <3> QED BY <2>1
  <2>3. a \in 0 .. StackTop
    <3> HIDE DEF a, ek
    <3> QED BY <1>1, <2>1
  <2> QED BY <1>3, <2>1, <2>2, <2>3 DEF Places
<1>5. l > 1 => l \in S
  <2> SUFFICES ASSUME l > 1 PROVE l \in S
    OBVIOUS
  <2>1. l \in 2 .. l
    BY <1>1
  <2> DEFINE x == <<fs[l].area, End(fs[l])>>
  <2>2. x \in Places /\ x[1] = fs[l].area /\ \A c \in 1 .. 3 : n[x[1] - c] = m[x[1] - c]
    BY <1>4, <2>1
  <2>3. m[fs[l].area - PcChain] = ReturnAddress(Null, Null)
    BY DEF Links
  <2>4. ~ HasCaller(m, x) /\ ~ HasCaller(n, x)
    <3>1. m[x[1] - PcChain] = ReturnAddress(Null, Null) /\ n[x[1] - PcChain] = m[x[1] - PcChain]
      BY <2>2, <2>3 DEF PcChain
    <3>2. CallerProc(m, x) = Null /\ CallerProc(n, x) = Null
      BY <3>1 DEF CallerProc, ReturnAddress, Slot
    <3> QED BY <3>2, Stack DEF HasCaller
  <2> HIDE DEF x
  <2>5. Callers(n)[x] = Callers(m)[x]
    BY <2>2, <2>4, PlaceSame
  <2> QED BY <2>1, <2>5 DEF CallersOf, x
<1>6. 0 \in G
  <2>1. l - 0 = l
    BY <1>1
  <2> QED BY <1>1, <1>5, <2>1
<1>7. ASSUME NEW i \in G PROVE i + 1 \in G
  <2>0. i \in Nat
    BY <1>7
  <2> SUFFICES ASSUME i + 1 < l - 1 PROVE l - (i + 1) \in S
    BY <2>0
  <2> DEFINE k == l - i
             j == k - 1
  <2>1. k \in S /\ k \in 2 .. l /\ j \in 2 .. l /\ j = l - (i + 1)
    <3>1. i < l - 1 /\ l - i \in 2 .. l /\ l - i - 1 \in 2 .. l /\ l - i - 1 = l - (i + 1)
      BY <1>1, <2>0
    <3> QED BY <1>7, <3>1
  <2> HIDE DEF l, k, j
  <2> DEFINE x == <<fs[j].area, End(fs[j])>>
  <2>2. x \in Places /\ x[1] = fs[j].area /\ x[2] = End(fs[j])
        /\ \A c \in 1 .. 3 : n[x[1] - c] = m[x[1] - c]
    BY <1>4, <2>1
  <2> HIDE DEF x
  <2>3. /\ CallerProc(n, x) = CallerProc(m, x) /\ CallerArea(n, x) = CallerArea(m, x)
        /\ n[x[1] - PcChain] = m[x[1] - PcChain] /\ n[x[1] - EnvChain] = m[x[1] - EnvChain]
    <3>1. /\ n[x[1] - PcChain] = m[x[1] - PcChain] /\ n[x[1] - EnvChain] = m[x[1] - EnvChain]
          /\ n[x[1] - AreaChain] = m[x[1] - AreaChain]
      BY <2>2 DEF PcChain, EnvChain, AreaChain
    <3> QED BY <3>1 DEF CallerProc, CallerArea
  <2>4. Linked(m, fs[j], fs[k]) /\ End(fs[j]) <= FrameFloor(fs[k])
    <3>1. k - 1 = j /\ j \in 1 .. k - 1 /\ k \in 1 .. Len(fs)
      BY <1>1, <2>1 DEF j, l
    <3>2. k \in 2 .. Len(fs)
      BY <2>1 DEF l
    <3> QED BY <3>1, <3>2 DEF Links
  <2>5. CallerProc(m, x) = fs[k].proc /\ CallerArea(m, x) = fs[k].area
        /\ CallerPlace(m, x) = <<fs[k].area, End(fs[k])>>
    BY <2>2, <2>4 DEF Linked, CallerProc, CallerArea, CallerPlace, ReturnAddress, Area, Slot, End
  <2>6. CallerFrame(n, x) = CallerFrame(m, x)
    <3> DEFINE p == fs[k].proc
               a == fs[k].area
               u == End(fs[k])
               low == End(fs[j])
               pc == m[x[1] - PcChain].count
               e == m[x[1] - EnvChain].ref
    <3>1. /\ p \in Procedures /\ a \in Nat /\ u \in Int /\ u < old /\ low \in Int /\ -1 <= low
          /\ low <= Floor(a, p) /\ a + NumArgs[p] - 1 <= u /\ End(fs[1]) <= low /\ End(fs[1]) \in Int
      <4>1. /\ p \in Procedures /\ a \in Nat /\ u \in Int /\ u < old /\ low \in Int
            /\ End(fs[1]) \in Int /\ -1 <= End(fs[1]) /\ End(fs[1]) < fs[j].area - 3
            /\ fs[j].area - 1 <= low /\ fs[j].area \in Nat
        BY <1>2, <2>1
      <4>2. low <= Floor(a, p) /\ a + NumArgs[p] - 1 <= u
        <5>1. u = a + NumArgs[p] - 1 /\ FrameFloor(fs[k]) = Floor(a, p)
          BY DEF End, FrameFloor
        <5> HIDE DEF u
        <5> QED BY <2>4, <4>1, <5>1
      <4> DEFINE e1 == End(fs[1])
                 b == fs[j].area
      <4> HIDE DEF e1, b, low
      <4>3. -1 <= low /\ e1 <= low
        BY <4>1 DEF e1, b
      <4> QED BY <4>1, <4>2, <4>3 DEF e1
    <3>2. Agree(m, n, low, u)
      <4> SUFFICES ASSUME NEW y \in 0 .. u, y > low PROVE n[y] = m[y]
        BY DEF Agree
      <4> DEFINE e1 == End(fs[1])
      <4> HIDE DEF e1, u, low
      <4>1. y \in e1 + 1 .. old - 1
        BY <1>1, <3>1 DEF e1
      <4> QED BY <4>1 DEF KeepsAbove, e1
    <3> HIDE DEF p, a, u, low, pc, e
    <3>3. Frame(n, p, pc, e, a, low) = Frame(m, p, pc, e, a, low)
      BY <3>1, <3>2, FrameSame
    <3> QED BY <2>2, <2>3, <2>5, <3>3 DEF CallerFrame, p, pc, e, a, low
  <2>7. HasCaller(n, x) <=> HasCaller(m, x)
    BY <2>3 DEF HasCaller
  <2>8. Callers(n)[CallerPlace(m, x)] = Callers(m)[CallerPlace(m, x)]
    <3>1. CallersOf(n, fs, k) = CallersOf(m, fs, k)
      BY <2>1
    <3> QED BY <2>5, <3>1 DEF CallersOf
  <2>9. Callers(n)[x] = Callers(m)[x]
    BY <2>2, <2>6, <2>7, <2>8, PlaceSame
  <2> QED BY <2>1, <2>9 DEF CallersOf, x
<1>8. G = Nat
  <2> HIDE DEF G
  <2>1. G \in SUBSET Nat
    BY DEF G
  <2> QED BY <1>6, <1>7, <2>1, SetInduction
<1>9. ASSUME NEW k \in 2 .. l PROVE k \in S
  <2>1. l - k \in Nat /\ l - k < l - 1 /\ l - (l - k) = k
    BY <1>1
  <2>2. l - k \in G
    BY <1>8, <2>1
  <2> QED BY <2>1, <2>2
<1> QED BY <1>9

\* The frames around frame f, which its chain leads to from place a.
OuterAt(m, a, f) == Callers(m)[<<a, End(f)>>]

Outer(m, f) == OuterAt(m, f.area, f)

\* They are the same wherever its chain is moved to.
LEMMA OuterKept ==
    ASSUME NEW m, NEW n, NEW fs, NEW old \in 0 .. StackTop, Links(m, fs, old),
           KeepsAbove(m, n, fs[1], old), NEW g, g.area \in 0 .. StackTop, g.area - 1 <= End(fs[1]),
           SameChain(n, g, m, fs[1])
    PROVE  OuterAt(n, g.area, fs[1]) = Outer(m, fs[1])
<1> DEFINE l == Len(fs)
           f == fs[1]
           x == <<g.area, End(f)>>
           y == <<f.area, End(f)>>
<1>1. /\ l \in Nat /\ 1 \in 1 .. l /\ old \in Nat /\ old <= StackTop /\ StackTop \in Nat
      /\ f.area \in Nat /\ End(f) \in Int /\ End(f) < old /\ f.area - 1 <= End(f)
  BY LinksFacts, Stack
<1>2. f.area \in 0 .. StackTop
  BY <1>1
<1>3. /\ x \in Places /\ y \in Places /\ x[1] = g.area /\ y[1] = f.area
      /\ x[2] = End(f) /\ y[2] = End(f)
      /\ \A c \in 1 .. 3 : n[x[1] - c] = m[y[1] - c]
  BY <1>1, <1>2 DEF Places, SameChain
<1>4. /\ n[x[1] - PcChain] = m[y[1] - PcChain] /\ n[x[1] - EnvChain] = m[y[1] - EnvChain]
      /\ n[x[1] - AreaChain] = m[y[1] - AreaChain]
  <2>1. PcChain \in 1 .. 3 /\ EnvChain \in 1 .. 3 /\ AreaChain \in 1 .. 3
    BY DEF PcChain, EnvChain, AreaChain
  <2> QED BY <1>3, <2>1
<1>5. CallerProc(n, x) = CallerProc(m, y) /\ CallerArea(n, x) = CallerArea(m, y)
  BY <1>4 DEF CallerProc, CallerArea
<1>6. CASE l = 1
  <2>1. m[y[1] - PcChain] = ReturnAddress(Null, Null)
    BY <1>3, <1>6 DEF Links
  <2>2. CallerProc(m, y) = Null
    BY <2>1 DEF CallerProc, ReturnAddress, Slot
  <2>3. ~ HasCaller(m, y) /\ ~ HasCaller(n, x)
    BY <1>5, <2>2, Stack DEF HasCaller
  <2> HIDE DEF x, y
  <2>4. Callers(n)[x] = Callers(m)[y]
    BY <1>3, <2>3, PlaceSame
  <2> QED BY <2>4 DEF x, y, Outer, OuterAt
<1>7. CASE l # 1
  <2>1. 2 \in 2 .. l /\ 2 \in 1 .. l /\ 2 # 1
    <3> HIDE DEF l
    <3> QED BY <1>1, <1>7
  <2> DEFINE h == fs[2]
  <2>2. /\ h.area \in Nat /\ h.proc \in Procedures /\ End(h) \in Int /\ End(h) < old /\ h.area - 1 <= End(h)
        /\ FrameFloor(h) \in Int /\ FrameFloor(h) < h.area - 3 /\ End(f) <= FrameFloor(h)
    BY <2>1, LinksFacts
  <2>3. Linked(m, f, h)
    <3>1. Linked(m, fs[2 - 1], fs[2])
      BY <2>1 DEF Links
    <3> QED BY <3>1
  <2>4. CallerProc(m, y) = h.proc /\ CallerArea(m, y) = h.area
        /\ CallerPlace(m, y) = <<h.area, End(h)>>
    BY <1>3, <2>3 DEF Linked, CallerProc, CallerArea, CallerPlace, ReturnAddress, Area, Slot, End
  <2>5. h.area \in f.area + 1 .. StackTop /\ h.area \in g.area + 1 .. StackTop
    <3> DEFINE e1 == End(f)
               e2 == End(h)
               fl == FrameFloor(h)
               a == g.area
               b == f.area
               c == h.area
    <3>1. /\ b \in Nat /\ c \in Nat /\ e1 \in Int /\ b - 1 <= e1 /\ fl \in Int
          /\ fl < c - 3 /\ e1 <= fl /\ a - 1 <= e1 /\ a \in 0 .. StackTop
          /\ c - 1 <= e2 /\ e2 < old /\ e2 \in Int
      BY <1>1, <2>2
    <3> HIDE DEF e1, e2, fl, a, b, c
    <3>2. c \in b + 1 .. StackTop /\ c \in a + 1 .. StackTop
      BY <1>1, <3>1
    <3> QED BY <3>2 DEF a, b, c
  <2>6. HasCaller(n, x) /\ HasCaller(m, y)
    BY <1>3, <1>5, <2>2, <2>4, <2>5 DEF HasCaller
  <2>7. CallerFrame(n, x) = CallerFrame(m, y)
    <3> DEFINE p == h.proc
               a == h.area
               u == End(h)
               low == End(f)
               pc == m[y[1] - PcChain].count
               e == m[y[1] - EnvChain].ref
    <3>1. /\ p \in Procedures /\ a \in Nat /\ u \in Int /\ u < old /\ low \in Int /\ -1 <= low
          /\ low <= Floor(a, p) /\ a + NumArgs[p] - 1 <= u
      <4>1. low <= Floor(a, p)
        BY <2>2 DEF FrameFloor
      <4>2. u = a + NumArgs[p] - 1 /\ NumArgs[p] \in Nat
        BY <2>2, Stack DEF End
      <4> DEFINE k == NumArgs[p]
                 b == f.area
      <4>3. b \in Nat /\ low \in Int /\ b - 1 <= low
        BY <1>1
      <4> HIDE DEF u, k, b, low, a
      <4>4. -1 <= low /\ a + k - 1 <= u
        <5>1. a \in Nat
          BY <2>2 DEF a
        <5> QED BY <4>2, <4>3, <5>1 DEF k
      <4> QED BY <1>1, <2>2, <4>1, <4>4 DEF u, k, low, a
    <3>2. Agree(m, n, low, u)
      <4> SUFFICES ASSUME NEW z \in 0 .. u, z > low PROVE n[z] = m[z]
        BY DEF Agree
      <4> HIDE DEF u, low
      <4>1. z \in low + 1 .. old - 1
        BY <1>1, <3>1
      <4> QED BY <4>1 DEF KeepsAbove, low
    <3> HIDE DEF p, a, u, low, pc, e
    <3>3. Frame(n, p, pc, e, a, low) = Frame(m, p, pc, e, a, low)
      BY <3>1, <3>2, FrameSame
    <3> QED BY <1>3, <1>4, <1>5, <2>4, <3>3 DEF CallerFrame, p, pc, e, a, low
  <2>8. Callers(n)[CallerPlace(m, y)] = Callers(m)[CallerPlace(m, y)]
    <3>1. CallersOf(n, fs, 2) = CallersOf(m, fs, 2)
      BY <2>1, OuterSame
    <3> QED BY <2>4, <3>1 DEF CallersOf
  <2> HIDE DEF x, y, h
  <2>9. Callers(n)[x] = Callers(m)[y]
    BY <1>3, <2>6, <2>7, <2>8, PlaceSame
  <2> QED BY <2>9 DEF x, y, Outer, OuterAt
<1> QED BY <1>6, <1>7

\* What the frames of a run are, with its innermost frame f.
FramesForm(m, r, f) ==
    /\ r.at \in {"instruction", "string"} =>
          Frames(m, r) = <<Frame(m, f.proc, r.pc, EnvOf[f.proc], f.area, r.sp)>> \o Outer(m, f)
    /\ r.at = "special" =>
          Frames(m, r) = <<Special("special", EnvOf[f.proc], Passed(m, r), << >>),
                           Frame(m, f.proc, r.pc, EnvOf[f.proc], f.area, r.sp + r.passed)>>
                         \o Outer(m, f)
    /\ r.at = "specialTail" =>
          Frames(m, r) = <<Special("specialTail", EnvOf[f.proc], Passed(m, r), << >>)>> \o Outer(m, f)
    /\ r.at = "return" =>
          Frames(m, r) = <<Special("done", EnvOf[f.proc], Passed(m, r), <<m[r.sp + 1]>>)>> \o Outer(m, f)

\* f is the frame that the C variables of r are of.
IsTop(r, f) ==
    /\ r.proc = f.proc /\ r.env = EnvOf[f.proc]
    /\ r.at \in {"instruction", "string", "specialTail", "return"} => r.area = f.area
    /\ r.at = "special" => r.area = r.sp + 1 /\ r.oldArea = f.area
    /\ r.at \in {"specialTail", "return"} => r.passed = NumArgs[f.proc]

LEMMA AtTop == ASSUME NEW m, NEW r, NEW f, AtInv(m, r, f) PROVE IsTop(r, f)
BY DEF AtInv, IsTop

LEMMA FramesAre == ASSUME NEW m, NEW r, NEW f, IsTop(r, f) PROVE FramesForm(m, r, f)
<1>1. r.proc = f.proc /\ r.env = EnvOf[f.proc]
  BY DEF IsTop
<1>2. CASE r.at \in {"instruction", "string"}
  <2>1. r.area = f.area
    BY <1>2 DEF IsTop
  <2> QED BY <1>1, <1>2, <2>1 DEF FramesForm, Frames, Outer, OuterAt, End
<1>3. CASE r.at = "special"
  <2>1. r.oldArea = f.area
    BY <1>3 DEF IsTop
  <2> QED BY <1>1, <1>3, <2>1 DEF FramesForm, Frames, Outer, OuterAt, End
<1>4. CASE r.at \in {"specialTail", "return"}
  <2>1. r.area = f.area /\ r.passed = NumArgs[f.proc]
    BY <1>1, <1>4 DEF IsTop
  <2> QED BY <1>1, <1>4, <2>1 DEF FramesForm, Frames, Outer, OuterAt, End
<1>5. CASE r.at \notin {"instruction", "string", "special", "specialTail", "return"}
  BY <1>5 DEF FramesForm
<1> QED BY <1>2, <1>3, <1>4, <1>5

\* The frames of a run that waits for a special function.
LEMMA WaitingSame ==
    ASSUME NEW m, NEW n, NEW r \in Run, r.at \in {"special", "specialTail"},
           RunInv(m, r), KeepsUp(m, n, r.sp)
    PROVE  Frames(n, r) = Frames(m, r)
<1>1. PICK fs : Links(m, fs, r.old) /\ AtInv(m, r, fs[1])
  BY DEF RunInv
<1> DEFINE f == fs[1]
           A == f.area
           E == End(f)
           F == FrameFloor(f)
           old == r.old
           sp == r.sp
           k == r.passed
<1>2. /\ sp \in Int /\ -1 <= sp /\ k \in Nat /\ old \in 0 .. StackTop /\ old \in Nat /\ old <= StackTop
      /\ StackTop \in Nat /\ r.proc = f.proc /\ r.env = EnvOf[f.proc]
  BY <1>1, RunFacts, Stack DEF AtInv
<1>3. /\ f \in FrameType /\ F \in Int /\ E \in Int /\ A \in Nat /\ f.proc \in Procedures
      /\ F < A - 3 /\ A - 1 <= E /\ E < old /\ -1 <= F
  BY <1>1, <1>2, LinksFacts
\* The slots of its frame are above its stack pointer.
<1>4. sp < A - 3 /\ sp <= E
  <2>1. CASE r.at = "special"
    <3>1. sp + k <= F
      BY <1>1, <2>1 DEF AtInv
    <3> HIDE DEF sp, k, F, A, E
    <3> QED BY <1>2, <1>3, <3>1
  <2>2. CASE r.at = "specialTail"
    <3>1. sp = A - 3 - 1
      BY <1>1, <2>2 DEF AtInv, SlotCount
    <3> HIDE DEF sp, A, E
    <3> QED BY <1>2, <1>3, <3>1
  <2> QED BY <2>1, <2>2
<1>5. Agree(m, n, sp, StackTop)
  <2> SUFFICES ASSUME NEW x \in 0 .. StackTop, x > sp PROVE n[x] = m[x]
    BY DEF Agree
  <2> HIDE DEF sp
  <2>1. x \in sp + 1 .. StackTop
    BY <1>2
  <2> QED BY <2>1 DEF KeepsUp, sp
<1> HIDE DEF A, E, F, old, sp, k
<1>6. Outer(n, f) = Outer(m, f)
  <2>1. KeepsAbove(m, n, f, old)
    <3> SUFFICES ASSUME NEW x \in E + 1 .. old - 1 PROVE n[x] = m[x]
      BY DEF KeepsAbove, E
    <3>1. x \in 0 .. StackTop /\ x > sp
      BY <1>2, <1>3, <1>4
    <3> QED BY <1>5, <3>1 DEF Agree
  <2>2. SameChain(n, f, m, f)
    <3> SUFFICES ASSUME NEW c \in 1 .. 3 PROVE n[A - c] = m[A - c]
      BY DEF SameChain, A
    <3>1. A - c \in 0 .. StackTop /\ A - c > sp
      BY <1>2, <1>3, <1>4
    <3> QED BY <1>5, <3>1 DEF Agree
  <2>3. f.area \in 0 .. StackTop /\ f.area - 1 <= End(f)
    BY <1>2, <1>3 DEF A, E
  <2>4. /\ Links(m, fs, old) /\ KeepsAbove(m, n, fs[1], old) /\ SameChain(n, fs[1], m, fs[1])
        /\ fs[1].area \in 0 .. StackTop /\ fs[1].area - 1 <= End(fs[1])
    BY <1>1, <2>1, <2>2, <2>3 DEF old
  <2> HIDE DEF f
  <2>5. OuterAt(n, fs[1].area, fs[1]) = Outer(m, fs[1])
    BY <1>2, <2>4, OuterKept
  <2> QED BY <2>5 DEF Outer, f
\* Its arguments are too.
<1>7. Passed(n, r) = Passed(m, r)
  <2>1. ASSUME NEW i \in 1 .. k PROVE n[r.area + i - 1] = m[r.area + i - 1]
    <3>1. CASE r.at = "special"
      <4>1. r.area = sp + 1 /\ sp + k <= F /\ sp >= 0
        BY <1>1, <3>1 DEF AtInv, F, sp, k, f
      <4>2. r.area + i - 1 \in 0 .. StackTop /\ r.area + i - 1 > sp
        BY <1>2, <1>3, <4>1
      <4> QED BY <1>5, <4>2 DEF Agree
    <3>2. CASE r.at = "specialTail"
      <4>1. r.area = A /\ k = NumArgs[f.proc]
        BY <1>1, <3>2 DEF AtInv, A, k, f
      <4>2. E = A + k - 1
        BY <4>1 DEF E, End, A
      <4>3. A + i - 1 \in 0 .. StackTop /\ A + i - 1 > sp
        BY <1>2, <1>3, <1>4, <4>2
      <4> QED BY <1>5, <4>1, <4>3 DEF Agree
    <3> QED BY <3>1, <3>2
  <2> QED BY <2>1 DEF Passed, k
<1>8. CASE r.at = "special"
  <2> DEFINE p == f.proc
             low == sp + k
             pc == r.pc
             e == EnvOf[p]
  <2>1. sp + k <= F
    BY <1>1, <1>8 DEF AtInv, F, sp, k, f
  <2>2. F = Floor(A, p) /\ E = A + NumArgs[p] - 1
    BY DEF F, A, E, FrameFloor, End
  <2>3. Agree(m, n, low, StackTop)
    BY <1>2, <1>5 DEF Agree
  <2>4. /\ low \in Int /\ -1 <= low /\ low <= Floor(A, p) /\ A + NumArgs[p] - 1 <= StackTop
        /\ p \in Procedures
    <3>1. E <= StackTop
      BY <1>2, <1>3
    <3> QED BY <1>2, <1>3, <2>1, <2>2, <3>1
  <2> HIDE DEF low, p, pc, e
  <2>5. Frame(n, p, pc, e, A, low) = Frame(m, p, pc, e, A, low)
    BY <1>2, <1>3, <2>3, <2>4, FrameSame
  <2> HIDE DEF f
  <2>6. FramesForm(m, r, f) /\ FramesForm(n, r, f)
    BY <1>1, AtTop, FramesAre DEF f
  <2> QED BY <1>6, <1>7, <1>8, <2>5, <2>6 DEF FramesForm, p, pc, e, A, low, sp, k
<1>9. CASE r.at = "specialTail"
  <2>1. FramesForm(m, r, f) /\ FramesForm(n, r, f)
    BY <1>1, AtTop, FramesAre DEF f
  <2> HIDE DEF f
  <2> QED BY <1>6, <1>7, <1>9, <2>1 DEF FramesForm
<1> QED BY <1>8, <1>9

-----------------------------------------------------------------------------
(* The runs around the innermost one keep their frames.                    *)

LEMMA CallsFacts ==
    ASSUME StackInv
    PROVE  /\ Calls \in Seq(Seq(OwnFrame)) /\ Len(Calls) = Len(runs) /\ Len(runs) \in Nat
           /\ DOMAIN Calls = 1 .. Len(runs) /\ DOMAIN runs = 1 .. Len(runs)
           /\ \A i \in 1 .. Len(runs) : Calls[i] = Frames(memory, runs[i])
<1>1. runs \in Seq(Run) /\ Len(runs) \in Nat /\ DOMAIN runs = 1 .. Len(runs)
      /\ memory \in [0 .. StackTop -> Slots]
      /\ \A i \in 1 .. Len(runs) : runs[i] \in Run /\ RunInv(memory, runs[i])
  BY RunsFacts DEF StackInv, TypeOK
<1>2. Calls = [i \in 1 .. Len(runs) |-> Frames(memory, runs[i])]
  BY <1>1 DEF Calls
<1>3. ASSUME NEW i \in 1 .. Len(runs) PROVE Frames(memory, runs[i]) \in Seq(OwnFrame)
  BY <1>1, FramesFacts
<1> DEFINE l == Len(runs)
<1> HIDE DEF l
<1>4. Calls = [i \in 1 .. l |-> Calls[i]] /\ \A i \in 1 .. l : Calls[i] \in Seq(OwnFrame)
  BY <1>2, <1>3 DEF l
<1>5. Calls \in Seq(Seq(OwnFrame)) /\ Len(Calls) = l
  BY <1>1, <1>4 DEF l
<1> QED BY <1>1, <1>2, <1>5 DEF l

\* What the memory above the innermost run holds is all that the others see.
LEMMA OthersSame ==
    ASSUME StackInv, runs # << >>, KeepsUp(memory, memory', run.old)
    PROVE  \A i \in 2 .. Len(runs) : Frames(memory', runs[i]) = Frames(memory, runs[i])
<1> SUFFICES ASSUME NEW i \in 2 .. Len(runs) PROVE Frames(memory', runs[i]) = Frames(memory, runs[i])
  OBVIOUS
<1> DEFINE l == Len(runs)
<1>1. l \in Nat /\ 1 \in 1 .. l /\ run = runs[1]
  BY RunsFacts
<1>2. i \in 1 .. l /\ i \in 1 + 1 .. l
  <2> HIDE DEF l
  <2>1. i \in 2 .. l
    BY DEF l
  <2> QED BY <1>1, <2>1
<1>3. runs[1].old <= runs[i].sp /\ runs[i].at \in {"special", "specialTail"}
  BY <1>1, <1>2 DEF StackInv, NestInv
<1>4. runs[i] \in Run /\ RunInv(memory, runs[i]) /\ run \in Run
  BY <1>1, <1>2, RunsFacts
<1>5. run.old \in Nat /\ runs[i].sp \in Int
  BY <1>4, RunFacts
<1>6. KeepsUp(memory, memory', runs[i].sp)
  <2> DEFINE o == run.old
             s == runs[i].sp
  <2>1. o <= s
    BY <1>1, <1>3
  <2> HIDE DEF o, s
  <2>2. \A a \in s + 1 .. StackTop : a \in o + 1 .. StackTop
    BY <1>5, <2>1 DEF o, s
  <2> QED BY <2>2 DEF KeepsUp, o, s
<1> QED BY <1>3, <1>4, <1>6, WaitingSame

LEMMA TopCalls ==
    ASSUME StackInv, runs # << >>, NEW q, runs' = [runs EXCEPT ![1] = q],
           KeepsUp(memory, memory', run.old)
    PROVE  Calls' = [Calls EXCEPT ![1] = Frames(memory', q)]
<1> DEFINE l == Len(runs)
<1>1. /\ l \in Nat /\ 1 \in 1 .. l /\ DOMAIN runs = 1 .. l
      /\ Calls = [i \in 1 .. l |-> Frames(memory, runs[i])]
  BY CallsFacts, RunsFacts DEF Calls
<1>2. DOMAIN runs' = 1 .. l /\ runs'[1] = q /\ \A i \in 1 .. l : i # 1 => runs'[i] = runs[i]
  <2> HIDE DEF l
  <2> QED BY <1>1
<1>3. Calls' = [i \in 1 .. l |-> Frames(memory', runs'[i])]
  BY <1>2 DEF Calls
<1>4. ASSUME NEW i \in 1 .. l PROVE Frames(memory', runs'[i]) = IF i = 1 THEN Frames(memory', q) ELSE Calls[i]
  <2>1. CASE i = 1
    BY <1>2, <2>1
  <2>2. CASE i # 1
    <3>1. i \in 2 .. l
      <4> HIDE DEF l
      <4> QED BY <1>1, <2>2
    <3>2. Frames(memory', runs[i]) = Frames(memory, runs[i])
      BY <3>1, OthersSame
    <3>3. Calls[i] = Frames(memory, runs[i])
      BY <1>4, CallsFacts
    <3> QED BY <1>2, <2>2, <3>2, <3>3
  <2> QED BY <2>1, <2>2
<1> HIDE DEF l
<1>5. [Calls EXCEPT ![1] = Frames(memory', q)]
        = [i \in 1 .. l |-> IF i = 1 THEN Frames(memory', q) ELSE Calls[i]]
  BY <1>1
<1> QED BY <1>3, <1>4, <1>5

LEMMA AsFunction == ASSUME NEW S, NEW t \in Seq(S) PROVE t = [i \in 1 .. Len(t) |-> t[i]]
OBVIOUS

LEMMA PopCalls ==
    ASSUME StackInv, runs # << >>, runs' = Tail(runs), KeepsUp(memory, memory', run.old)
    PROVE  Calls' = Tail(Calls)
<1> DEFINE l == Len(runs)
<1>1. /\ l \in Nat /\ 1 \in 1 .. l /\ DOMAIN runs = 1 .. l /\ runs \in Seq(Run)
      /\ Calls \in Seq(Seq(OwnFrame)) /\ Len(Calls) = l
  BY CallsFacts, RunsFacts
<1>2. DOMAIN runs' = 1 .. l - 1 /\ \A i \in 1 .. l - 1 : runs'[i] = runs[i + 1] /\ i + 1 \in 2 .. l
  BY <1>1
<1>3. Calls' = [i \in 1 .. l - 1 |-> Frames(memory', runs'[i])]
  BY <1>2 DEF Calls
<1>4. ASSUME NEW i \in 1 .. l - 1 PROVE Frames(memory', runs'[i]) = Calls[i + 1]
  <2>1. Frames(memory', runs[i + 1]) = Frames(memory, runs[i + 1])
    BY <1>2, OthersSame
  <2>2. i + 1 \in 1 .. l
    <3> HIDE DEF l
    <3> QED BY <1>1, <1>2
  <2> QED BY <1>2, <2>1, <2>2, CallsFacts
<1> HIDE DEF l
<1>5. /\ Tail(Calls) \in Seq(Seq(OwnFrame)) /\ Len(Tail(Calls)) = l - 1
      /\ \A i \in 1 .. l - 1 : Tail(Calls)[i] = Calls[i + 1]
  BY <1>1
<1> DEFINE t == Tail(Calls)
<1> HIDE DEF t
<1>6. t = [i \in 1 .. l - 1 |-> t[i]]
  BY <1>1, <1>5, AsFunction DEF t
<1>7. Calls' = t
  BY <1>3, <1>4, <1>5, <1>6 DEF t
<1> QED BY <1>7 DEF t

LEMMA PushCalls ==
    ASSUME StackInv, NEW q, runs' = <<q>> \o runs, KeepsUp(memory, memory', stackPtr),
           runs = << >> \/ run.at \in {"special", "specialTail"}
    PROVE  Calls' = <<Frames(memory', q)>> \o Calls
<1> DEFINE l == Len(runs)
<1>1. /\ l \in Nat /\ DOMAIN runs = 1 .. l /\ runs \in Seq(Run)
      /\ Calls \in Seq(Seq(OwnFrame)) /\ Len(Calls) = l
  BY CallsFacts, RunsFacts
<1>2. ASSUME NEW i \in 1 .. l PROVE Frames(memory', runs[i]) = Calls[i]
  <2>1. runs # << >>
    BY <1>1, <1>2
  <2>2. /\ 1 \in 1 .. l /\ run = runs[1] /\ run.at \in {"special", "specialTail"}
        /\ stackPtr = run.sp /\ run \in Run /\ RunInv(memory, run)
        /\ runs[i] \in Run /\ RunInv(memory, runs[i])
    BY <2>1, RunsFacts DEF StackInv, NestInv
  <2>3. Calls[i] = Frames(memory, runs[i])
    BY CallsFacts
  <2>4. CASE i = 1
    BY <2>2, <2>3, <2>4, WaitingSame
  <2>5. CASE i # 1
    <3>1. run.sp < run.old
      BY <2>2, WaitsBelow
    <3>2. KeepsUp(memory, memory', run.old)
      <4> DEFINE s == run.sp
                 o == run.old
      <4>1. s \in Int /\ o \in Nat
        BY <2>2, RunFacts
      <4> HIDE DEF s, o
      <4>2. \A a \in o + 1 .. StackTop : a \in s + 1 .. StackTop
        BY <3>1, <4>1 DEF s, o
      <4> QED BY <2>2, <4>2 DEF KeepsUp, s, o
    <3>3. i \in 2 .. l
      <4> HIDE DEF l
      <4> QED BY <1>1, <2>5
    <3> QED BY <2>1, <2>3, <3>2, <3>3, OthersSame
  <2> QED BY <2>4, <2>5
<1> DEFINE x == Frames(memory', q)
<1>3. DOMAIN runs' = 1 .. l + 1 /\ runs'[1] = q /\ \A i \in 2 .. l + 1 : runs'[i] = runs[i - 1]
  <2> HIDE DEF l
  <2>1. \A i \in 1 .. l + 1 : i = 1 \/ i - 1 \in 1 .. l
    BY <1>1
  <2> QED BY <1>1, <2>1 DEF l
<1>4. Calls' = [i \in 1 .. l + 1 |-> Frames(memory', runs'[i])]
  BY <1>3 DEF Calls
<1>5. ASSUME NEW i \in 1 .. l + 1 PROVE Frames(memory', runs'[i]) = IF i = 1 THEN x ELSE Calls[i - 1]
  <2>1. i # 1 => i \in 2 .. l + 1 /\ i - 1 \in 1 .. l
    <3> HIDE DEF l
    <3> QED BY <1>1
  <2> QED BY <1>2, <1>3, <2>1
<1> HIDE DEF x, l
<1>6. <<x>> \o Calls = [i \in 1 .. l + 1 |-> IF i = 1 THEN x ELSE Calls[i - 1]]
  BY <1>1
<1>7. Calls' = <<x>> \o Calls
  BY <1>4, <1>5, <1>6
<1> QED BY <1>7 DEF x

-----------------------------------------------------------------------------
(* Slots of the stack as sequences.                                        *)

\* What m holds above low, up to high, from the lowest up.
Above(m, low, high) == [i \in 1 .. high - low |-> m[low + i]]

\* s is as long as that and has its elements.
Lists(s, m, low, high) ==
    /\ s \in Seq(Slots) /\ Len(s) = high - low /\ high - low \in Nat
    /\ \A i \in 1 .. high - low : s[i] = m[low + i]

LEMMA AboveFacts ==
    ASSUME NEW m \in [0 .. StackTop -> Slots], NEW low \in Int, NEW high \in Int,
           -1 <= low, low <= high, high <= StackTop
    PROVE  Lists(Above(m, low, high), m, low, high)
<1> DEFINE n == high - low
           s == Above(m, low, high)
<1>1. n \in Nat /\ StackTop \in Nat
  BY Stack
<1>2. \A i \in 1 .. n : low + i \in 0 .. StackTop
  BY <1>1
<1>3. s = [i \in 1 .. n |-> m[low + i]]
  BY DEF Above
<1>4. \A i \in 1 .. n : m[low + i] \in Slots
  BY <1>2
<1> HIDE DEF n, s
<1>5. s \in Seq(Slots) /\ Len(s) = n /\ \A i \in 1 .. n : s[i] = m[low + i]
  BY <1>1, <1>3, <1>4
<1> QED BY <1>1, <1>5 DEF n, s, Lists

\* Sequences are the same when their elements are.
LEMMA SameSeq ==
    ASSUME NEW S, NEW s \in Seq(S), NEW T, NEW t \in Seq(T), Len(s) = Len(t),
           \A i \in 1 .. Len(s) : s[i] = t[i]
    PROVE  s = t
OBVIOUS

LEMMA AboveDrop ==
    ASSUME NEW m \in [0 .. StackTop -> Slots], NEW low \in Int, NEW high \in Int,
           -1 <= low, high <= StackTop, NEW k \in Nat, low + k <= high
    PROVE  Abstract!Suffix(Above(m, low, high), k) = Above(m, low + k, high)
<1> DEFINE s == Above(m, low, high)
           l == low + k
           t == Above(m, l, high)
           u == Abstract!Suffix(s, k)
<1>1. l \in Int /\ -1 <= l /\ l <= high /\ low <= high
  OBVIOUS
<1>2. Lists(s, m, low, high) /\ Lists(t, m, l, high)
  <2> HIDE DEF l
  <2> QED BY <1>1, AboveFacts
<1> HIDE DEF s, t
<1>3. /\ s \in Seq(Slots) /\ Len(s) = high - low /\ \A i \in 1 .. high - low : s[i] = m[low + i]
      /\ t \in Seq(Slots) /\ Len(t) = high - l /\ \A i \in 1 .. high - l : t[i] = m[l + i]
  BY <1>2 DEF Lists
<1>4. /\ u \in Seq(Slots) /\ Len(u) = Len(s) - k
      /\ \A i \in 1 .. Len(s) - k : u[i] = s[k + i]
  <2>1. k <= Len(s)
    BY <1>3
  <2> QED BY <1>3, <2>1, SMTT(30) DEF Abstract!Suffix
<1> HIDE DEF u
<1>5. ASSUME NEW i \in 1 .. Len(u) PROVE u[i] = t[i]
  <2>1. k + i \in 1 .. high - low /\ low + (k + i) = l + i /\ i \in 1 .. high - l /\ i \in 1 .. Len(s) - k
    BY <1>3, <1>4
  <2> QED BY <1>3, <1>4, <2>1
<1>6. Len(u) = Len(t)
  BY <1>3, <1>4
<1>7. u = t
  BY <1>3, <1>4, <1>5, <1>6, SameSeq
<1> QED BY <1>7 DEF s, t, u

LEMMA ConsTail ==
    ASSUME NEW S, NEW s \in Seq(S), s # << >>
    PROVE  /\ s = <<s[1]>> \o Tail(s) /\ s[1] \in S /\ Tail(s) = SubSeq(s, 2, Len(s))
           /\ Tail(s) = Abstract!Suffix(s, 1)
<1>1. Len(s) \in Nat /\ Len(s) >= 1 /\ s[1] \in S
  OBVIOUS
<1>2. Tail(s) = SubSeq(s, 2, Len(s))
  OBVIOUS
<1>3. /\ Tail(s) \in Seq(S) /\ Len(Tail(s)) = Len(s) - 1
      /\ \A i \in 1 .. Len(s) - 1 : Tail(s)[i] = s[i + 1]
  BY <1>1
<1> DEFINE t == Tail(s)
           u == <<s[1]>> \o t
<1> HIDE DEF t
<1>4. /\ u \in Seq(S) /\ Len(u) = 1 + Len(t) /\ u[1] = s[1]
      /\ \A i \in 1 .. Len(t) : u[1 + i] = t[i]
  <2>1. <<s[1]>> \in Seq(S) /\ Len(<<s[1]>>) = 1 /\ <<s[1]>>[1] = s[1] /\ t \in Seq(S)
    BY <1>1, <1>3 DEF t
  <2> DEFINE h == <<s[1]>>
  <2> HIDE DEF h
  <2>2. h \in Seq(S) /\ Len(h) = 1 /\ h[1] = s[1]
    BY <2>1 DEF h
  <2>3. /\ h \o t \in Seq(S) /\ Len(h \o t) = 1 + Len(t) /\ (h \o t)[1] = s[1]
        /\ \A i \in 1 .. Len(t) : (h \o t)[1 + i] = t[i]
    BY <2>1, <2>2, ConcatFacts
  <2> QED BY <2>3 DEF h
<1> HIDE DEF u
<1>5. ASSUME NEW i \in 1 .. Len(s) PROVE u[i] = s[i]
  <2>1. i = 1 \/ (i - 1 \in 1 .. Len(s) - 1 /\ 1 + (i - 1) = i /\ i - 1 + 1 = i)
    BY <1>1
  <2> QED BY <1>3, <1>4, <2>1 DEF t
<1>6. u = s
  BY <1>1, <1>3, <1>4, <1>5, SameSeq DEF t
<1> QED BY <1>1, <1>2, <1>6 DEF u, t, Abstract!Suffix

LEMMA AboveCons ==
    ASSUME NEW m \in [0 .. StackTop -> Slots], NEW low \in Int, NEW high \in Int,
           -1 <= low, high <= StackTop, low < high
    PROVE  /\ Above(m, low, high) = <<m[low + 1]>> \o Above(m, low + 1, high)
           /\ Above(m, low, high) # << >> /\ Above(m, low, high)[1] = m[low + 1]
           /\ Tail(Above(m, low, high)) = Above(m, low + 1, high)
<1> DEFINE s == Above(m, low, high)
<1>1. Lists(s, m, low, high)
  BY AboveFacts
<1>2. Abstract!Suffix(s, 1) = Above(m, low + 1, high)
  BY AboveDrop
<1> HIDE DEF s
<1>3. s \in Seq(Slots) /\ s # << >> /\ s[1] = m[low + 1]
  <2>1. s \in Seq(Slots) /\ Len(s) = high - low /\ \A i \in 1 .. high - low : s[i] = m[low + i]
    BY <1>1 DEF Lists
  <2>2. 1 \in 1 .. high - low /\ high - low > 0
    OBVIOUS
  <2> QED BY <2>1, <2>2
<1>4. s = <<s[1]>> \o Tail(s) /\ Tail(s) = Abstract!Suffix(s, 1)
  BY <1>3, ConsTail
<1> QED BY <1>2, <1>3, <1>4 DEF s

LEMMA FrameParts ==
    ASSUME NEW m, NEW p, NEW pc, NEW e, NEW a, NEW low
    PROVE  /\ Frame(m, p, pc, e, a, low).temps = Above(m, low, Floor(a, p))
           /\ Frame(m, p, pc, e, a, low).args = [i \in 1 .. NumArgs[p] |-> m[a + i - 1]]
           /\ Frame(m, p, pc, e, a, low).locals = [i \in 1 .. NumLocals[p] |-> m[a + SlotIndex(i - 1)]]
           /\ Frame(m, p, pc, e, a, low).kind = "procedure"
           /\ Frame(m, p, pc, e, a, low).env = e
BY DEF Frame, Above

WithTemps(f, t) == [f EXCEPT !.temps = t]

\* A step that writes below a frame's locals changes its temporaries only.
LEMMA TempsOnly ==
    ASSUME NEW m, NEW n, NEW p \in Procedures, NEW pc, NEW e, NEW a \in Nat, NEW u \in Int,
           -1 <= Floor(a, p), a + NumArgs[p] - 1 <= u, Agree(m, n, Floor(a, p), u),
           NEW low \in Int, NEW lower \in Int
    PROVE  Frame(n, p, pc, e, a, lower)
              = WithTemps(Frame(m, p, pc, e, a, low), Above(n, lower, Floor(a, p)))
<1> DEFINE f == Floor(a, p)
           A == [i \in 1 .. NumArgs[p] |-> m[a + i - 1]]
           L == [i \in 1 .. NumLocals[p] |-> m[a + SlotIndex(i - 1)]]
           B == [i \in 1 .. NumArgs[p] |-> n[a + i - 1]]
           K == [i \in 1 .. NumLocals[p] |-> n[a + SlotIndex(i - 1)]]
           T == [i \in 1 .. f - low |-> m[low + i]]
           U == [i \in 1 .. f - lower |-> n[lower + i]]
<1>1. f \in Int
  BY Stack DEF Floor, SlotCount
<1>2. Frame(n, p, pc, e, a, f) = Frame(m, p, pc, e, a, f)
  <2>1. f <= Floor(a, p) /\ -1 <= f /\ Agree(m, n, f, u)
    BY <1>1
  <2> HIDE DEF f
  <2> QED BY <1>1, <2>1, FrameSame
<1>3. /\ Frame(n, p, pc, e, a, f).args = B /\ Frame(n, p, pc, e, a, f).locals = K
      /\ Frame(m, p, pc, e, a, f).args = A /\ Frame(m, p, pc, e, a, f).locals = L
  BY DEF Frame
<1>4. /\ Frame(n, p, pc, e, a, lower)
           = [kind |-> "procedure", proc |-> p, pc |-> pc, env |-> e, args |-> B, locals |-> K, temps |-> U]
      /\ Frame(m, p, pc, e, a, low)
           = [kind |-> "procedure", proc |-> p, pc |-> pc, env |-> e, args |-> A, locals |-> L, temps |-> T]
      /\ Above(n, lower, f) = U
  BY DEF Frame, Above
<1>5. A = B /\ K = L
  <2> HIDE DEF A, B, K, L
  <2> QED BY <1>2, <1>3
<1> DEFINE V == Above(n, lower, f)
<1> HIDE DEF A, B, K, L, T, U, V
<1>6. [kind |-> "procedure", proc |-> p, pc |-> pc, env |-> e, args |-> A, locals |-> L, temps |-> V]
        = [[kind |-> "procedure", proc |-> p, pc |-> pc, env |-> e, args |-> A, locals |-> L, temps |-> T]
              EXCEPT !.temps = V]
  OBVIOUS
<1>7. Frame(n, p, pc, e, a, lower) = [Frame(m, p, pc, e, a, low) EXCEPT !.temps = V]
  <2>1. Frame(n, p, pc, e, a, lower)
          = [kind |-> "procedure", proc |-> p, pc |-> pc, env |-> e, args |-> A, locals |-> L, temps |-> V]
    BY <1>4, <1>5 DEF V
  <2> QED BY <1>4, <1>6, <2>1
<1> QED BY <1>7 DEF V, f, WithTemps

-----------------------------------------------------------------------------
(* Instructions that make no call.                                         *)

\* The frame of the procedure that executes, when its temporaries are above low.
TopFrame(m, low) == Frame(m, run.proc, run.pc, EnvOf[run.proc], run.area, low)

\* The frames around it.
Around == Outer(memory, Top)

LEMMA TopLinks ==
    ASSUME StackInv, runs # << >>
    PROVE  \E fs : Links(memory, fs, run.old) /\ AtInv(memory, run, fs[1])
                   /\ IsTop(run, fs[1]) /\ FramesForm(memory, run, fs[1])
                   /\ Outer(memory, fs[1]) \in Seq(OwnFrame)
<1>1. run \in Run /\ RunInv(memory, run) /\ memory \in [0 .. StackTop -> Slots]
  BY RunsFacts DEF StackInv, TypeOK
<1>2. PICK fs : Links(memory, fs, run.old) /\ AtInv(memory, run, fs[1])
  BY <1>1 DEF RunInv
<1>3. IsTop(run, fs[1]) /\ FramesForm(memory, run, fs[1])
  BY <1>2, AtTop, FramesAre
<1>4. Outer(memory, fs[1]) \in Seq(OwnFrame)
  <2>1. 1 \in 1 .. Len(fs) /\ run.old \in 0 .. StackTop
    BY <1>1, <1>2, RunFacts, LinksFacts
  <2>2. CallersInv(memory, fs, run.old, 1)
    BY <1>1, <1>2, <2>1, CallersFacts
  <2> QED BY <2>2 DEF CallersInv, Outer, OuterAt
<1> QED BY <1>2, <1>3, <1>4

\* The calls of a run whose top frame is f, with c around it.
CallsForm(f, c) ==
    /\ Calls \in Seq(Seq(OwnFrame)) /\ Calls # << >> /\ 1 \in 1 .. Len(Calls)
    /\ Calls[1] = <<f>> \o c /\ c \in Seq(OwnFrame) /\ f \in OwnFrame /\ Abstract!Top = f

\* What <<x>> \o c is.
Conses(s, x, c, S) ==
    /\ s \in Seq(S) /\ Len(s) = 1 + Len(c) /\ Len(c) \in Nat /\ s[1] = x
    /\ \A i \in 1 .. Len(c) : s[1 + i] = c[i]

LEMMA ConsFacts ==
    ASSUME NEW S, NEW x \in S, NEW c \in Seq(S)
    PROVE  Conses(<<x>> \o c, x, c, S)
<1> DEFINE s == <<x>> \o c
<1>1. /\ s \in Seq(S) /\ Len(s) = 1 + Len(c) /\ s[1] = x
      /\ \A i \in 1 .. Len(c) : s[1 + i] = c[i]
  BY ConcatFacts
<1> HIDE DEF s
<1> QED BY <1>1 DEF Conses, s

LEMMA CallsFormed ==
    ASSUME StackInv, runs # << >>, NEW f, NEW c \in Seq(OwnFrame), Frames(memory, run) = <<f>> \o c
    PROVE  CallsForm(f, c)
<1>1. /\ Calls \in Seq(Seq(OwnFrame)) /\ Len(Calls) = Len(runs) /\ 1 \in 1 .. Len(runs)
      /\ run = runs[1] /\ Calls[1] = Frames(memory, runs[1])
  BY RunsFacts, CallsFacts
<1>2. Calls[1] = <<f>> \o c /\ Calls[1] \in Seq(OwnFrame) /\ Calls # << >>
  BY <1>1
<1>3. Calls[1][1] = f /\ Calls[1][1] \in OwnFrame
  <2> DEFINE S == OwnFrame \cup {f}
  <2>1. f \in S /\ c \in Seq(S)
    BY DEF S
  <2> HIDE DEF S
  <2>2. Conses(<<f>> \o c, f, c, S)
    BY <2>1, ConsFacts
  <2>3. (<<f>> \o c)[1] = f /\ Len(<<f>> \o c) = 1 + Len(c)
    BY <2>2 DEF Conses
  <2>4. Calls[1][1] = f /\ Len(Calls[1]) = 1 + Len(c)
    BY <1>2, <2>3, Zenon
  <2>5. Calls[1][1] \in OwnFrame
    <3> DEFINE d == Calls[1]
    <3> HIDE DEF d
    <3>1. d \in Seq(OwnFrame) /\ Len(d) = 1 + Len(c) /\ Len(c) \in Nat
      BY <1>2, <2>4 DEF d
    <3>2. d[1] \in OwnFrame
      BY <3>1
    <3> QED BY <3>2 DEF d
  <2> QED BY <2>4, <2>5
<1> QED BY <1>1, <1>2, <1>3 DEF CallsForm, Abstract!Top

LEMMA RunningForm ==
    ASSUME StackInv, runs # << >>, run.at \in {"instruction", "string"}
    PROVE  CallsForm(TopFrame(memory, run.sp), Around) /\ Abstract!Running
<1>1. PICK fs : /\ Links(memory, fs, run.old) /\ AtInv(memory, run, fs[1])
                /\ IsTop(run, fs[1]) /\ FramesForm(memory, run, fs[1])
                /\ Outer(memory, fs[1]) \in Seq(OwnFrame)
  BY TopLinks
<1>2. fs[1] = Top
  <2>1. fs[1].area = run.area /\ fs[1].proc = run.proc
    BY <1>1 DEF IsTop
  <2>2. fs[1] \in FrameType
    <3>1. run.old \in 0 .. StackTop
      BY RunsFacts, RunFacts
    <3> QED BY <1>1, <3>1, LinksFacts
  <2> QED BY <2>1, <2>2 DEF Top, FrameType
<1>3. Frames(memory, run) = <<TopFrame(memory, run.sp)>> \o Around /\ Around \in Seq(OwnFrame)
  BY <1>1, <1>2 DEF FramesForm, TopFrame, Around, Top
<1>4. CallsForm(TopFrame(memory, run.sp), Around)
  BY <1>3, CallsFormed
<1>5. TopFrame(memory, run.sp).kind = "procedure"
  BY DEF TopFrame, Frame
<1> QED BY <1>4, <1>5 DEF CallsForm, Abstract!Running

\* A frame changed is a step on the top one.
LEMMA HeadChanged ==
    ASSUME NEW f, NEW c, CallsForm(f, c), NEW g
    PROVE  [Calls EXCEPT ![1] = <<g>> \o c] = [Calls EXCEPT ![1][1] = g]
<1> DEFINE S == OwnFrame \cup {g}
           h == <<g>>
           k == <<f>>
<1>1. g \in S /\ f \in S /\ c \in Seq(S)
  BY DEF CallsForm, S
<1> HIDE DEF S
<1>2. Conses(h \o c, g, c, S) /\ Conses(k \o c, f, c, S)
  BY <1>1, ConsFacts
<1> HIDE DEF h, k
<1> DEFINE s == h \o c
           t == k \o c
           u == [t EXCEPT ![1] = g]
<1> HIDE DEF s, t
<1>3. /\ s \in Seq(S) /\ Len(s) = 1 + Len(c) /\ s[1] = g /\ Len(c) \in Nat
      /\ t \in Seq(S) /\ Len(t) = 1 + Len(c)
      /\ \A i \in 1 .. Len(c) : s[1 + i] = c[i] /\ t[1 + i] = c[i]
  BY <1>2 DEF Conses, s, t
<1>4. u \in Seq(S) /\ Len(u) = 1 + Len(c) /\ u[1] = g /\ \A i \in 1 .. 1 + Len(c) : i # 1 => u[i] = t[i]
  BY <1>1, <1>3
<1> HIDE DEF u
<1>5. ASSUME NEW i \in 1 .. Len(s) PROVE s[i] = u[i]
  <2>1. i = 1 \/ (i - 1 \in 1 .. Len(c) /\ 1 + (i - 1) = i)
    BY <1>3
  <2> QED BY <1>3, <1>4, <2>1
<1>6. s = u
  BY <1>3, <1>4, <1>5, SameSeq
<1>7. s = [Calls[1] EXCEPT ![1] = g]
  BY <1>6 DEF CallsForm, u, t, k
<1> QED BY <1>7 DEF s, h

LEMMA InstructionCalls ==
    ASSUME StackInv, runs # << >>, run.at \in {"instruction", "string"}, NEW sp,
           Instruction(memory', sp), Keeps(memory, memory', Top, StackTop)
    PROVE  Calls' = [Calls EXCEPT ![1][1] = TopFrame(memory', sp)] /\ result' = result
<1> DEFINE q == [run EXCEPT !.sp = sp, !.at = "instruction"]
<1>1. /\ runs \in Seq(Run) /\ run \in Run /\ run = runs[1] /\ 1 \in 1 .. Len(runs)
  BY RunsFacts
<1>2. runs' = [runs EXCEPT ![1].sp = sp, ![1].at = "instruction"] /\ result' = result
  BY DEF Instruction
<1>3. runs' = [runs EXCEPT ![1] = q]
  BY <1>1, <1>2
<1>4. /\ q.sp = sp /\ q.at = "instruction" /\ q.area = run.area /\ q.proc = run.proc
      /\ q.env = run.env /\ q.pc = run.pc
  BY <1>1 DEF Run
<1> HIDE DEF q
<1>5. /\ run.area \in Nat /\ End(Top) \in Int /\ run.area - 1 <= End(Top)
      /\ End(Top) < run.old /\ run.old \in Nat /\ run.old <= StackTop /\ StackTop \in Nat
      /\ Top.area = run.area /\ Top.proc = run.proc /\ run.env = EnvOf[run.proc]
      /\ -1 <= FrameFloor(Top) /\ FrameFloor(Top) \in Int /\ FrameFloor(Top) < run.area - 3
  <2>1. run.sp \in Int /\ -1 <= run.sp /\ run.sp <= FrameFloor(Top) /\ FrameFloor(Top) \in Int
    BY TopFacts
  <2>2. -1 <= FrameFloor(Top)
    BY <2>1
  <2> QED BY <2>2, TopFacts, Stack DEF Top
<1>6. KeepsUp(memory, memory', run.old) /\ KeepsAbove(memory, memory', Top, run.old)
      /\ SameChain(memory', Top, memory, Top)
  <2> DEFINE A == Top.area
             E == End(Top)
             old == run.old
             F == FrameFloor(Top)
  <2>1. A \in Nat /\ E \in Int /\ A - 1 <= E /\ E < old /\ old \in Nat /\ old <= StackTop
        /\ -1 <= F /\ F \in Int /\ F < A - 3
    BY <1>5
  <2>2. \A x \in A - 3 .. StackTop : memory'[x] = memory[x] \/ x \in A .. E
    BY DEF Keeps
  <2> HIDE DEF A, E, old, F
  <2>3. ASSUME NEW x \in old + 1 .. StackTop PROVE memory'[x] = memory[x]
    <3>1. x \in A - 3 .. StackTop /\ x \notin A .. E
      BY <1>5, <2>1
    <3> QED BY <2>2, <3>1
  <2>4. ASSUME NEW x \in E + 1 .. old - 1 PROVE memory'[x] = memory[x]
    <3>1. x \in A - 3 .. StackTop /\ x \notin A .. E
      BY <1>5, <2>1
    <3> QED BY <2>2, <3>1
  <2>5. ASSUME NEW x \in 1 .. 3 PROVE memory'[A - x] = memory[A - x]
    <3>1. A - x \in A - 3 .. StackTop /\ A - x \notin A .. E
      BY <1>5, <2>1
    <3> QED BY <2>2, <3>1
  <2> QED BY <2>3, <2>4, <2>5 DEF KeepsUp, KeepsAbove, SameChain, A, E, old
<1>7. Outer(memory', Top) = Around
  <2>1. PICK fs : Links(memory, fs, run.old) /\ fs[1] = Top
    BY TopFacts
  <2> DEFINE g == Top
  <2>2. g.area \in 0 .. StackTop /\ g.area - 1 <= End(fs[1]) /\ run.old \in 0 .. StackTop
    <3>1. Top.area \in 0 .. StackTop
      <4> DEFINE A == Top.area
                 E == End(Top)
                 old == run.old
      <4>1. A \in Nat /\ E \in Int /\ A - 1 <= E /\ E < old /\ old \in Nat /\ old <= StackTop
        BY <1>5
      <4> HIDE DEF A, E, old
      <4>2. A \in 0 .. StackTop
        BY <1>5, <4>1
      <4> QED BY <4>2 DEF A
    <3> QED BY <1>5, <2>1, <3>1
  <2>3. /\ KeepsAbove(memory, memory', fs[1], run.old) /\ SameChain(memory', g, memory, fs[1])
    BY <1>6, <2>1
  <2> HIDE DEF g
  <2>4. OuterAt(memory', g.area, fs[1]) = Outer(memory, fs[1])
    BY <2>1, <2>2, <2>3, OuterKept
  <2> QED BY <2>1, <2>4 DEF g, Around, Outer
<1>8. Frames(memory', q) = <<TopFrame(memory', sp)>> \o Around
  <2>1. IsTop(q, Top)
    BY <1>4, <1>5 DEF IsTop
  <2>2. FramesForm(memory', q, Top)
    BY <2>1, FramesAre
  <2> QED BY <1>4, <1>5, <1>7, <2>2 DEF FramesForm, TopFrame
<1>9. Calls' = [Calls EXCEPT ![1] = Frames(memory', q)]
  BY <1>3, <1>6, TopCalls
<1>10. CallsForm(TopFrame(memory, run.sp), Around)
  BY RunningForm
<1>11. [Calls EXCEPT ![1] = <<TopFrame(memory', sp)>> \o Around] = [Calls EXCEPT ![1][1] = TopFrame(memory', sp)]
  BY <1>10, HeadChanged
<1> QED BY <1>2, <1>8, <1>9, <1>11

LEMMA AboveSame ==
    ASSUME NEW m, NEW n, NEW low \in Int, NEW high \in Int, -1 <= low, Agree(m, n, low, high)
    PROVE  Above(n, low, high) = Above(m, low, high)
<1>1. \A i \in 1 .. high - low : low + i \in 0 .. high /\ low + i > low
  OBVIOUS
<1>2. \A i \in 1 .. high - low : n[low + i] = m[low + i]
  BY <1>1 DEF Agree
<1> QED BY <1>2 DEF Above

\* What an instruction may do to the top frame f: g is f afterwards.
Computed(f, g) ==
    \/ \E v \in Datums, n \in 0 .. Len(f.temps) :
          g = [f EXCEPT !.temps = <<v>> \o Abstract!Suffix(f.temps, n)]
    \/ f.temps # << >> /\ g = [f EXCEPT !.temps = Tail(f.temps)]
    \/ /\ f.temps # << >>
       /\ \E i \in DOMAIN f.args :
             g = [f EXCEPT !.args = [f.args EXCEPT ![i] = f.temps[1]], !.temps = Tail(f.temps)]
    \/ /\ f.temps # << >>
       /\ \E i \in DOMAIN f.locals :
             g = [f EXCEPT !.locals = [f.locals EXCEPT ![i] = f.temps[1]], !.temps = Tail(f.temps)]

LEMMA ComputedStep ==
    ASSUME NEW f, NEW c, CallsForm(f, c), Abstract!Running, NEW g, Computed(f, g),
           Calls' = [Calls EXCEPT ![1][1] = g], result' = result
    PROVE  Abstract!Compute
<1>1. Calls[1][1] = f /\ Abstract!Top = f
  BY DEF CallsForm, Abstract!Top
<1>2. CASE \E v \in Datums, n \in 0 .. Len(f.temps) :
              g = [f EXCEPT !.temps = <<v>> \o Abstract!Suffix(f.temps, n)]
  <2>1. PICK v \in Datums, n \in 0 .. Len(f.temps) :
              g = [f EXCEPT !.temps = <<v>> \o Abstract!Suffix(f.temps, n)]
    BY <1>2
  <2>2. Calls' = [Calls EXCEPT ![1][1].temps = <<v>> \o Abstract!Suffix(@, n)]
    BY <1>1, <2>1
  <2>3. v \in {Datum(w) : w \in Values} \cup Abstract!Range(Abstract!Top.args)
               \cup Abstract!Range(Abstract!Top.locals)
    BY DEF Datums
  <2>4. n \in 0 .. Len(Abstract!Top.temps)
    BY <1>1
  <2> QED BY <2>2, <2>3, <2>4, Zenon DEF Abstract!Compute
<1>3. CASE f.temps # << >> /\ g = [f EXCEPT !.temps = Tail(f.temps)]
  <2>1. Calls' = [Calls EXCEPT ![1][1].temps = Tail(@)]
    BY <1>1, <1>3
  <2> QED BY <1>1, <1>3, <2>1 DEF Abstract!Compute
<1>4. CASE /\ f.temps # << >>
           /\ \E i \in DOMAIN f.args :
                 g = [f EXCEPT !.args = [f.args EXCEPT ![i] = f.temps[1]], !.temps = Tail(f.temps)]
  <2>1. PICK i \in DOMAIN f.args :
              g = [f EXCEPT !.args = [f.args EXCEPT ![i] = f.temps[1]], !.temps = Tail(f.temps)]
    BY <1>4
  <2>2. Calls' = [Calls EXCEPT ![1][1].args[i] = Abstract!Top.temps[1], ![1][1].temps = Tail(@)]
    BY <1>1, <2>1 DEF CallsForm
  <2>3. Abstract!Top.temps # << >> /\ i \in DOMAIN Abstract!Top.args
    BY <1>1, <1>4
  <2> QED BY <2>2, <2>3, Zenon DEF Abstract!Compute
<1>5. CASE /\ f.temps # << >>
           /\ \E i \in DOMAIN f.locals :
                 g = [f EXCEPT !.locals = [f.locals EXCEPT ![i] = f.temps[1]], !.temps = Tail(f.temps)]
  <2>1. PICK i \in DOMAIN f.locals :
              g = [f EXCEPT !.locals = [f.locals EXCEPT ![i] = f.temps[1]], !.temps = Tail(f.temps)]
    BY <1>5
  <2>2. Calls' = [Calls EXCEPT ![1][1].locals[i] = Abstract!Top.temps[1], ![1][1].temps = Tail(@)]
    BY <1>1, <2>1 DEF CallsForm
  <2>3. Abstract!Top.temps # << >> /\ i \in DOMAIN Abstract!Top.locals
    BY <1>1, <1>5
  <2> QED BY <2>2, <2>3, Zenon DEF Abstract!Compute
<1> QED BY <1>2, <1>3, <1>4, <1>5 DEF Computed

\* The temporaries of the procedure that executes.
LEMMA TopTemps ==
    ASSUME StackInv, runs # << >>, run.at \in {"instruction", "string"}
    PROVE  /\ TopFrame(memory, run.sp).temps = Above(memory, run.sp, FrameFloor(Top))
           /\ Len(Above(memory, run.sp, FrameFloor(Top))) = FrameFloor(Top) - run.sp
           /\ Above(memory, run.sp, FrameFloor(Top)) \in Seq(Slots)
           /\ FrameFloor(Top) <= StackTop /\ memory \in [0 .. StackTop -> Slots]
<1>1. /\ run.sp \in Int /\ -1 <= run.sp /\ run.sp <= FrameFloor(Top)
      /\ FrameFloor(Top) \in Int /\ FrameFloor(Top) < run.area - 3 /\ End(Top) \in Int
      /\ run.area \in Nat /\ run.area - 1 <= End(Top) /\ End(Top) < run.old /\ run.old \in Nat
      /\ run.old <= StackTop /\ FrameFloor(Top) = Floor(run.area, run.proc)
  BY TopFacts
<1>2. FrameFloor(Top) <= StackTop
  <2> DEFINE F == FrameFloor(Top)
             A == run.area
             E == End(Top)
             old == run.old
  <2>1. /\ F \in Int /\ A \in Nat /\ E \in Int /\ old \in Nat /\ F < A - 3 /\ A - 1 <= E
        /\ E < old /\ old <= StackTop /\ StackTop \in Nat
    BY <1>1, Stack
  <2> HIDE DEF F, A, E, old
  <2>2. F <= StackTop
    BY <2>1
  <2> QED BY <2>2 DEF F
<1>3. memory \in [0 .. StackTop -> Slots]
  BY DEF StackInv, TypeOK
<1>4. Lists(Above(memory, run.sp, FrameFloor(Top)), memory, run.sp, FrameFloor(Top))
  BY <1>1, <1>2, <1>3, AboveFacts
<1>5. TopFrame(memory, run.sp).temps = Above(memory, run.sp, Floor(run.area, run.proc))
  BY DEF TopFrame, Frame, Above
<1> QED BY <1>1, <1>2, <1>3, <1>4, <1>5 DEF Lists

\* k temporaries go and d comes.
LEMMA Pushes ==
    ASSUME StackInv, runs # << >>, run.at \in {"instruction", "string"}, NEW k \in Nat,
           NEW x \in Nat, x = run.sp + k, x <= FrameFloor(Top), NEW d \in Datums,
           memory' = [memory EXCEPT ![x] = d], Instruction(memory', x - 1)
    PROVE  Abstract!Compute
<1> DEFINE s == run.sp
           F == FrameFloor(Top)
           A == run.area
           E == End(Top)
           p == run.proc
           T == Above(memory, s, F)
<1>1. /\ s \in Int /\ -1 <= s /\ s <= F /\ F \in Int /\ F < A - 3 /\ A \in Nat
      /\ E \in Int /\ A - 1 <= E /\ F <= StackTop /\ StackTop \in Nat /\ p \in Procedures
      /\ F = Floor(A, p) /\ E = A + NumArgs[p] - 1 /\ memory \in [0 .. StackTop -> Slots]
  <2>1. /\ s \in Int /\ -1 <= s /\ s <= F /\ F \in Int /\ F < A - 3 /\ A \in Nat
        /\ E \in Int /\ A - 1 <= E /\ p \in Procedures
        /\ F = Floor(A, p) /\ E = A + NumArgs[p] - 1
    BY TopFacts
  <2>2. F <= StackTop /\ memory \in [0 .. StackTop -> Slots]
    BY TopTemps
  <2>3. StackTop \in Nat
    BY Stack
  <2> HIDE DEF s, F, A, E, p
  <2> QED BY <2>1, <2>2, <2>3
<1>2. x = s + k /\ x >= 0 /\ x <= F
  OBVIOUS
<1>3. TopFrame(memory, s).temps = T /\ Len(T) = F - s
  BY TopTemps
<1> HIDE DEF s, F, E, T
<1>4. x \in 0 .. StackTop /\ x < A - 3
  BY <1>1, <1>2, SMTT(30)
<1>5. /\ memory' \in [0 .. StackTop -> Slots] /\ Keeps(memory, memory', Top, StackTop)
      /\ memory'[x] = d /\ \A a \in 0 .. StackTop : a # x => memory'[a] = memory[a]
  BY <1>4, WriteTop
<1>6. Calls' = [Calls EXCEPT ![1][1] = TopFrame(memory', x - 1)] /\ result' = result
  BY <1>5, InstructionCalls
<1>7. TopFrame(memory', x - 1) = [TopFrame(memory, s) EXCEPT !.temps = Above(memory', x - 1, F)]
  <2> DEFINE pc == run.pc
             e == EnvOf[p]
             y == x - 1
             n == memory'
  <2>1. Agree(memory, n, F, E)
    <3> SUFFICES ASSUME NEW z \in 0 .. E, z > F PROVE n[z] = memory[z]
      BY DEF Agree
    <3>1. z # x /\ z \in 0 .. StackTop
      <4>1. E <= StackTop
        <5> DEFINE old == run.old
        <5>1. E < old /\ old \in Nat /\ old <= StackTop
          BY TopFacts DEF E
        <5> HIDE DEF old
        <5> QED BY <1>1, <5>1
      <4> QED BY <1>1, <1>2, <4>1
    <3> QED BY <1>5, <3>1
  <2>2. y \in Int /\ -1 <= Floor(A, p) /\ A + NumArgs[p] - 1 <= E
    BY <1>1, <1>2, SMTT(30)
  <2>3. Agree(memory, n, Floor(A, p), E)
    BY <1>1, <2>1
  <2>f. -1 <= Floor(A, p) /\ A \in Nat /\ E \in Int /\ p \in Procedures /\ s \in Int
    BY <1>1
  <2> HIDE DEF A, p, pc, e, y, n
  <2>4. Frame(n, p, pc, e, A, y) = WithTemps(Frame(memory, p, pc, e, A, s), Above(n, y, Floor(A, p)))
    BY <2>2, <2>3, <2>f, TempsOnly
  <2> QED BY <1>1, <2>4 DEF A, p, pc, e, y, n, TopFrame, WithTemps
<1>8. Above(memory', x - 1, F) = <<d>> \o Abstract!Suffix(T, k)
  <2>1. Above(memory', x - 1, F) = <<memory'[x]>> \o Above(memory', x, F)
    <3> DEFINE y == x - 1
               n == memory'
    <3>1. y \in Int /\ -1 <= y /\ y < F /\ y + 1 = x /\ n \in [0 .. StackTop -> Slots]
      BY <1>1, <1>2, <1>5, SMTT(30)
    <3> HIDE DEF y, n
    <3>2. Above(n, y, F) = <<n[y + 1]>> \o Above(n, y + 1, F)
      <4>1. F \in Int /\ F <= StackTop
        BY <1>1
      <4> QED BY ONLY <3>1, <4>1, AboveCons
    <3> QED BY <3>1, <3>2 DEF y, n
  <2>2. Above(memory', x, F) = Above(memory, x, F)
    <3> DEFINE n == memory'
    <3>1. Agree(memory, n, x, F)
      <4> SUFFICES ASSUME NEW z \in 0 .. F, z > x PROVE n[z] = memory[z]
        BY DEF Agree
      <4>1. z # x /\ z \in 0 .. StackTop
        BY <1>1, <1>2
      <4> QED BY <1>5, <4>1
    <3>2. x \in Int /\ -1 <= x
      BY <1>1, <1>2
    <3> HIDE DEF n
    <3>3. Above(n, x, F) = Above(memory, x, F)
      BY <1>1, <3>1, <3>2, AboveSame
    <3> QED BY <3>3 DEF n
  <2>3. Above(memory, x, F) = Abstract!Suffix(T, k)
    <3>1. /\ memory \in [0 .. StackTop -> Slots] /\ s \in Int /\ F \in Int /\ -1 <= s
          /\ F <= StackTop /\ s + k <= F /\ k \in Nat
      BY <1>1, <1>2
    <3>2. Abstract!Suffix(Above(memory, s, F), k) = Above(memory, s + k, F)
      BY ONLY <3>1, AboveDrop
    <3> QED BY <1>2, <3>2 DEF T
  <2> QED BY <1>5, <2>1, <2>2, <2>3
<1>9. k \in 0 .. Len(T)
  BY <1>1, <1>2, <1>3
<1> DEFINE f == TopFrame(memory, s)
           g == TopFrame(memory', x - 1)
<1>10. Computed(f, g)
  <2>1. f.temps = T /\ g = [f EXCEPT !.temps = <<d>> \o Abstract!Suffix(f.temps, k)]
    BY <1>3, <1>7, <1>8
  <2> HIDE DEF f, g
  <2> QED BY <1>9, <2>1 DEF Computed
<1>11. CallsForm(f, Around) /\ Abstract!Running
  BY RunningForm DEF s
<1> HIDE DEF f, g
<1> QED BY <1>6, <1>10, <1>11, ComputedStep DEF g

LEMMA PushRefines ==
    ASSUME StackInv, runs # << >>, run.at \in {"instruction", "string"}, run.sp > 0,
           NEW d \in Datums, Push(d)
    PROVE  Abstract!Compute
<1>1. run.sp \in Int /\ run.sp <= FrameFloor(Top) /\ run.sp > 0
  BY TopFacts
<1>2. run.sp \in Nat /\ run.sp = run.sp + 0 /\ 0 \in Nat
  BY <1>1
<1>3. memory' = [memory EXCEPT ![run.sp] = d] /\ Instruction(memory', run.sp - 1)
  BY DEF Push, Instruction
<1> QED BY <1>1, <1>2, <1>3, Pushes

LEMMA BinopRefines == ASSUME StackInv, Binop PROVE Abstract!Compute
<1>1. runs # << >> /\ run.at = "instruction" /\ Temps >= 2
  BY DEF Binop, Executing
<1>2. PICK v \in Values : Instruction([memory EXCEPT ![run.sp + 2] = Datum(v)], run.sp + 1)
  BY DEF Binop
<1> DEFINE x == run.sp + 2
<1>3. run.sp \in Int /\ -1 <= run.sp /\ run.sp + 2 <= FrameFloor(Top)
  BY <1>1, TopFacts, TempsFacts
<1>4. run.sp + 1 = x - 1 /\ x \in Nat /\ x = run.sp + 2 /\ x <= FrameFloor(Top)
  BY <1>3
<1>5. memory' = [memory EXCEPT ![x] = Datum(v)] /\ Instruction(memory', run.sp + 1)
  BY <1>2 DEF Instruction
<1>6. Datum(v) \in Datums /\ 2 \in Nat
  BY DEF Datums
<1> HIDE DEF x
<1>7. Instruction(memory', x - 1)
  BY <1>4, <1>5
<1> QED BY <1>1, <1>4, <1>5, <1>6, <1>7, Pushes

\* n is m but for d at x.
Writes(m, n, x, d) == n[x] = d /\ \A y \in 0 .. StackTop : y # x => n[y] = m[y]

\* f with an argument or a local written.
WithArg(f, j, d, t) == [f EXCEPT !.args = [f.args EXCEPT ![j] = d], !.temps = t]

WithLocal(f, j, d, t) == [f EXCEPT !.locals = [f.locals EXCEPT ![j] = d], !.temps = t]

\* g is the frame f of p with d at the operand i, and temporaries t.
SlotIs(f, g, p, i, d, t) ==
    /\ i \in 0 .. NumArgs[p] - 1 => g = WithArg(f, i + 1, d, t)
    /\ \A k \in 0 .. NumLocals[p] - 1 : i = SlotIndex(k) => g = WithLocal(f, k + 1, d, t)

LEMMA SlotWritten ==
    ASSUME NEW m, NEW n, NEW x \in 0 .. StackTop, NEW d, Writes(m, n, x, d),
           NEW p \in Procedures, NEW pc, NEW e, NEW a \in Nat, a + NumArgs[p] - 1 <= StackTop,
           -1 <= Floor(a, p), NEW low \in Int, -1 <= low, NEW lower, NEW i \in Int, x = a + i,
           Floor(a, p) < x
    PROVE  SlotIs(Frame(m, p, pc, e, a, lower), Frame(n, p, pc, e, a, low), p, i, d,
                  Above(m, low, Floor(a, p)))
<1> DEFINE F == Floor(a, p)
           N == NumArgs[p]
           L == NumLocals[p]
           A == [j \in 1 .. N |-> m[a + j - 1]]
           V == [j \in 1 .. L |-> m[a + SlotIndex(j - 1)]]
           B == [j \in 1 .. N |-> n[a + j - 1]]
           W == [j \in 1 .. L |-> n[a + SlotIndex(j - 1)]]
           T == Above(m, low, F)
           R == Above(m, lower, F)
           U == Above(n, low, F)
<1>1. /\ N \in Nat /\ L \in Nat /\ F = a - 4 - L /\ F \in Int /\ StackTop \in Nat
      /\ a + N - 1 <= StackTop /\ -1 <= F /\ F < x /\ \A j \in Int : a + SlotIndex(j - 1) = a - 3 - j
  BY Stack DEF Floor, SlotCount, SlotIndex
<1>2. /\ Frame(n, p, pc, e, a, low)
           = [kind |-> "procedure", proc |-> p, pc |-> pc, env |-> e, args |-> B, locals |-> W, temps |-> U]
      /\ Frame(m, p, pc, e, a, lower)
           = [kind |-> "procedure", proc |-> p, pc |-> pc, env |-> e, args |-> A, locals |-> V, temps |-> R]
  BY DEF Frame, Above
<1> HIDE DEF F, N, L
<1>3. U = T
  <2>1. Agree(m, n, low, F)
    <3> SUFFICES ASSUME NEW z \in 0 .. F, z > low PROVE n[z] = m[z]
      BY DEF Agree
    <3>1. z # x /\ z \in 0 .. StackTop
      BY <1>1
    <3> QED BY <3>1 DEF Writes
  <2> QED BY <1>1, <2>1, AboveSame
<1>4. ASSUME NEW j \in 1 .. N PROVE a + j - 1 \in 0 .. StackTop /\ (a + j - 1 = x <=> j = i + 1)
  BY <1>1
<1>5. ASSUME NEW j \in 1 .. L
      PROVE  a - 3 - j \in 0 .. StackTop \/ N = 0
  BY <1>1
<1>6. ASSUME NEW j \in 1 .. L PROVE a - 3 - j \in 0 .. StackTop
  BY <1>1
<1>7. CASE i \in 0 .. N - 1
  <2>1. B = [A EXCEPT ![i + 1] = d]
    <3>1. \A j \in 1 .. N : n[a + j - 1] = IF j = i + 1 THEN d ELSE m[a + j - 1]
      BY <1>4 DEF Writes
    <3> QED BY <3>1
  <2>2. W = V
    <3>1. ASSUME NEW j \in 1 .. L PROVE n[a + SlotIndex(j - 1)] = m[a + SlotIndex(j - 1)]
      <4>1. a - 3 - j # x /\ a + SlotIndex(j - 1) = a - 3 - j
        BY <1>1, <1>7
      <4> QED BY <1>6, <4>1 DEF Writes
    <3> QED BY <3>1
  <2>3. ASSUME NEW k \in 0 .. L - 1 PROVE i # SlotIndex(k)
    BY <1>1, <1>7 DEF SlotIndex, SlotCount
  <2> HIDE DEF A, B, V, W, T, R, U
  <2> DEFINE X == [A EXCEPT ![i + 1] = d]
             f == [kind |-> "procedure", proc |-> p, pc |-> pc, env |-> e, args |-> A, locals |-> V, temps |-> R]
  <2>4. f.args = A
    OBVIOUS
  <2>5. [f EXCEPT !.args = X, !.temps = T]
          = [kind |-> "procedure", proc |-> p, pc |-> pc, env |-> e, args |-> X, locals |-> V, temps |-> T]
    <3> HIDE DEF X
    <3> DEFINE h == [kind |-> "procedure", proc |-> p, pc |-> pc, env |-> e, args |-> X, locals |-> V, temps |-> R]
    <3>1. [f EXCEPT !.args = X] = h
      OBVIOUS
    <3>2. [h EXCEPT !.temps = T]
             = [kind |-> "procedure", proc |-> p, pc |-> pc, env |-> e, args |-> X, locals |-> V, temps |-> T]
      OBVIOUS
    <3>3. [[f EXCEPT !.args = X] EXCEPT !.temps = T] = [f EXCEPT !.args = X, !.temps = T]
      <4> HIDE DEF f
      <4> QED OBVIOUS
    <3> HIDE DEF f, h
    <3>4. [f EXCEPT !.args = X, !.temps = T] = [h EXCEPT !.temps = T]
      BY <3>1, <3>3
    <3> QED BY <3>2, <3>4
  <2>6. Frame(n, p, pc, e, a, low) = [f EXCEPT !.args = X, !.temps = T]
    <3>1. Frame(n, p, pc, e, a, low)
            = [kind |-> "procedure", proc |-> p, pc |-> pc, env |-> e, args |-> X, locals |-> V, temps |-> T]
      BY <1>2, <1>3, <2>1, <2>2
    <3> HIDE DEF X
    <3> QED BY <2>5, <3>1
  <2>7. Frame(n, p, pc, e, a, low) = WithArg(Frame(m, p, pc, e, a, lower), i + 1, d, T)
    <3> HIDE DEF f
    <3>1. Frame(m, p, pc, e, a, lower) = f
      BY <1>2 DEF f
    <3> QED BY <2>4, <2>6, <3>1 DEF WithArg
  <2> QED BY <2>3, <2>7 DEF SlotIs, L, T, F
<1>8. ASSUME NEW k \in 0 .. L - 1, i = SlotIndex(k)
      PROVE  /\ i \notin 0 .. N - 1
             /\ Frame(n, p, pc, e, a, low) = WithLocal(Frame(m, p, pc, e, a, lower), k + 1, d, T)
  <2>0. i = -(k + 4)
    BY <1>8 DEF SlotIndex, SlotCount
  <2>1. W = [V EXCEPT ![k + 1] = d]
    <3>1. ASSUME NEW j \in 1 .. L
          PROVE  n[a + SlotIndex(j - 1)] = IF j = k + 1 THEN d ELSE m[a + SlotIndex(j - 1)]
      <4>1. a - 3 - j = x <=> j = k + 1
        BY <1>1, <2>0
      <4>2. a + SlotIndex(j - 1) = a - 3 - j /\ a - 3 - j \in 0 .. StackTop
        BY <1>1, <1>6
      <4> QED BY <4>1, <4>2 DEF Writes
    <3> QED BY <3>1
  <2>2. B = A
    <3>1. ASSUME NEW j \in 1 .. N PROVE n[a + j - 1] = m[a + j - 1]
      <4>1. a + j - 1 # x
        BY <1>1, <2>0
      <4> QED BY <1>4, <4>1 DEF Writes
    <3> QED BY <3>1
  <2>3. i \notin 0 .. N - 1
    BY <1>1, <2>0
  <2> HIDE DEF A, B, V, W, T, R, U
  <2> DEFINE X == [V EXCEPT ![k + 1] = d]
             f == [kind |-> "procedure", proc |-> p, pc |-> pc, env |-> e, args |-> A, locals |-> V, temps |-> R]
  <2>4. f.locals = V
    OBVIOUS
  <2>5. [f EXCEPT !.locals = X, !.temps = T]
          = [kind |-> "procedure", proc |-> p, pc |-> pc, env |-> e, args |-> A, locals |-> X, temps |-> T]
    <3> HIDE DEF X
    <3> DEFINE h == [kind |-> "procedure", proc |-> p, pc |-> pc, env |-> e, args |-> A, locals |-> X, temps |-> R]
    <3>1. [f EXCEPT !.locals = X] = h
      OBVIOUS
    <3>2. [h EXCEPT !.temps = T]
             = [kind |-> "procedure", proc |-> p, pc |-> pc, env |-> e, args |-> A, locals |-> X, temps |-> T]
      OBVIOUS
    <3>3. [[f EXCEPT !.locals = X] EXCEPT !.temps = T] = [f EXCEPT !.locals = X, !.temps = T]
      <4> HIDE DEF f
      <4> QED OBVIOUS
    <3> HIDE DEF f, h
    <3>4. [f EXCEPT !.locals = X, !.temps = T] = [h EXCEPT !.temps = T]
      BY <3>1, <3>3
    <3> QED BY <3>2, <3>4
  <2>6. Frame(n, p, pc, e, a, low) = [f EXCEPT !.locals = X, !.temps = T]
    <3>1. Frame(n, p, pc, e, a, low)
            = [kind |-> "procedure", proc |-> p, pc |-> pc, env |-> e, args |-> A, locals |-> X, temps |-> T]
      BY <1>2, <1>3, <2>1, <2>2
    <3> HIDE DEF X
    <3> QED BY <2>5, <3>1
  <2>7. Frame(n, p, pc, e, a, low) = WithLocal(Frame(m, p, pc, e, a, lower), k + 1, d, T)
    <3> HIDE DEF f
    <3>1. Frame(m, p, pc, e, a, lower) = f
      BY <1>2 DEF f
    <3> QED BY <2>4, <2>6, <3>1 DEF WithLocal
  <2> QED BY <2>3, <2>7
<1> QED BY <1>7, <1>8 DEF SlotIs, N, L, T, F

LEMMA PopRefines == ASSUME StackInv, Pop PROVE Abstract!Compute
<1>1. runs # << >> /\ run.at = "instruction" /\ Temps >= 1 /\ Instruction(memory, run.sp + 1)
  BY DEF Pop, Executing
<1> DEFINE s == run.sp
           F == FrameFloor(Top)
           A == run.area
           E == End(Top)
           p == run.proc
           T == Above(memory, s, F)
<1>2. /\ s \in Int /\ -1 <= s /\ s + 1 <= F /\ F \in Int /\ A \in Nat /\ E \in Int
      /\ F <= StackTop /\ p \in Procedures /\ F = Floor(A, p) /\ E = A + NumArgs[p] - 1
      /\ memory \in [0 .. StackTop -> Slots] /\ TopFrame(memory, s).temps = T
  <2>1. run.sp + 1 <= FrameFloor(Top)
    BY <1>1, TempsFacts
  <2> QED BY <1>1, <2>1, TopFacts, TopTemps
<1>3. memory' = memory /\ Instruction(memory', s + 1)
  BY <1>1 DEF Instruction
<1> HIDE DEF s, F, E, T
<1>4. Calls' = [Calls EXCEPT ![1][1] = TopFrame(memory', s + 1)] /\ result' = result
  <2>1. Keeps(memory, memory', Top, StackTop)
    BY <1>3 DEF Keeps
  <2> QED BY <1>1, <1>3, <2>1, InstructionCalls
<1>5. TopFrame(memory', s + 1) = WithTemps(TopFrame(memory, s), Above(memory, s + 1, F))
  <2> DEFINE pc == run.pc
             e == EnvOf[p]
             y == s + 1
  <2>1. /\ Agree(memory, memory, Floor(A, p), E) /\ y \in Int /\ -1 <= Floor(A, p)
        /\ A + NumArgs[p] - 1 <= E
    BY <1>2 DEF Agree
  <2>f. p \in Procedures /\ A \in Nat /\ E \in Int /\ s \in Int
    BY <1>2
  <2> HIDE DEF A, p, pc, e, y
  <2>2. Frame(memory, p, pc, e, A, y) = WithTemps(Frame(memory, p, pc, e, A, s), Above(memory, y, Floor(A, p)))
    BY <2>1, <2>f, TempsOnly
  <2> QED BY <1>2, <1>3, <2>2 DEF TopFrame, A, p, pc, e, y
<1>6. T # << >> /\ Tail(T) = Above(memory, s + 1, F)
  <2>1. -1 <= s /\ F <= StackTop /\ s < F
    BY <1>2
  <2>2. memory \in [0 .. StackTop -> Slots] /\ s \in Int /\ F \in Int
    BY <1>2
  <2>3. Above(memory, s, F) # << >> /\ Tail(Above(memory, s, F)) = Above(memory, s + 1, F)
    BY ONLY <2>1, <2>2, AboveCons
  <2> QED BY <2>3 DEF T
<1> DEFINE f == TopFrame(memory, s)
           g == TopFrame(memory', s + 1)
<1>7. CallsForm(f, Around) /\ Abstract!Running
  BY <1>1, RunningForm DEF s
<1>8. f.temps = T /\ g = WithTemps(f, Tail(T))
  BY <1>2, <1>5, <1>6
<1> HIDE DEF f, g
<1>9. Computed(f, g)
  BY <1>6, <1>8 DEF Computed, WithTemps
<1> QED BY <1>4, <1>7, <1>9, ComputedStep DEF g

LEMMA StoreSlotRefines == ASSUME StackInv, StoreSlot PROVE Abstract!Compute
<1>1. runs # << >> /\ run.at = "instruction" /\ Temps >= 1
  BY DEF StoreSlot, Executing
<1>2. PICK i \in SlotOperands :
        Instruction([memory EXCEPT ![run.area + i] = memory[run.sp + 1]], run.sp + 1)
  BY DEF StoreSlot
<1> DEFINE s == run.sp
           F == FrameFloor(Top)
           A == run.area
           E == End(Top)
           p == run.proc
           T == Above(memory, s, F)
           x == run.area + i
           d == memory[s + 1]
           y == s + 1
<1>3. /\ s \in Int /\ -1 <= s /\ y <= F /\ F \in Int /\ A \in Nat /\ E \in Int /\ E <= StackTop
      /\ F <= StackTop /\ p \in Procedures /\ F = Floor(A, p) /\ E = A + NumArgs[p] - 1
      /\ memory \in [0 .. StackTop -> Slots] /\ TopFrame(memory, s).temps = T
  <2>1. run.sp + 1 <= FrameFloor(Top)
    BY <1>1, TempsFacts
  <2>2. E <= StackTop
    <3> DEFINE old == run.old
    <3>1. E \in Int /\ E < old /\ old \in Nat /\ old <= StackTop /\ StackTop \in Nat
      BY <1>1, TopFacts, Stack
    <3> HIDE DEF E, old
    <3> QED BY <3>1
  <2> QED BY <1>1, <2>1, <2>2, TopFacts, TopTemps
<1>4. /\ x \in 0 .. StackTop /\ x > F
      /\ x < A - 3 \/ (A <= x /\ x <= E)
  BY <1>1, OperandFacts
<1>5. memory' = [memory EXCEPT ![x] = d] /\ Instruction(memory', s + 1)
  BY <1>2 DEF Instruction
<1>6. TempsHold(memory, s)
  BY <1>1, TopFacts
<1>7. i \in Int /\ (i \in 0 .. NumArgs[p] - 1 \/ \E k \in 0 .. NumLocals[p] - 1 : i = SlotIndex(k))
  <2>1. NumArgs[p] \in Nat /\ NumLocals[p] \in Nat
    BY <1>1, TopFacts
  <2>2. i \in 0 .. NumArgs[p] - 1 \/ \E k \in 0 .. NumLocals[p] - 1 : i = SlotIndex(k)
    BY DEF SlotOperands
  <2> HIDE DEF p
  <2> QED BY <2>1, <2>2 DEF SlotIndex, SlotCount
<1>8. x = A + i
  OBVIOUS
<1> HIDE DEF s, F, E, T, x, d
<1>9. d \in Datums
  <2>1. y \in s + 1 .. F
    BY <1>3
  <2> QED BY <1>6, <2>1 DEF TempsHold, d, F
<1>10. /\ Writes(memory, memory', x, d) /\ Keeps(memory, memory', Top, StackTop)
  <2>1. /\ Keeps(memory, memory', Top, StackTop)
        /\ memory'[x] = d /\ \A a \in 0 .. StackTop : a # x => memory'[a] = memory[a]
    BY <1>1, <1>4, <1>5, <1>9, WriteTop DEF E, A
  <2> QED BY <2>1 DEF Writes
<1>11. Calls' = [Calls EXCEPT ![1][1] = TopFrame(memory', s + 1)] /\ result' = result
  BY <1>1, <1>5, <1>10, InstructionCalls
<1>12. T # << >> /\ Tail(T) = Above(memory, y, F) /\ T[1] = d
  <2>1. -1 <= s /\ F <= StackTop /\ s < F
    BY <1>3
  <2>2. memory \in [0 .. StackTop -> Slots] /\ s \in Int /\ F \in Int /\ y = s + 1
    BY <1>3
  <2>3. /\ Above(memory, s, F) # << >> /\ Tail(Above(memory, s, F)) = Above(memory, s + 1, F)
        /\ Above(memory, s, F)[1] = memory[s + 1]
    BY ONLY <2>1, <2>2, AboveCons
  <2> QED BY <2>2, <2>3 DEF T, d
<1> DEFINE f == TopFrame(memory, s)
           g == TopFrame(memory', s + 1)
<1>13. CallsForm(f, Around) /\ Abstract!Running
  BY <1>1, RunningForm DEF s
<1>14. SlotIs(f, g, p, i, d, Above(memory, y, F))
  <2> DEFINE pc == run.pc
             e == EnvOf[p]
             n == memory'
  <2>1. /\ p \in Procedures /\ A \in Nat /\ A + NumArgs[p] - 1 <= StackTop
        /\ -1 <= Floor(A, p) /\ y \in Int /\ -1 <= y /\ x = A + i /\ Floor(A, p) < x
        /\ x \in 0 .. StackTop /\ i \in Int
    BY <1>3, <1>4, <1>7, <1>8
  <2>2. Writes(memory, n, x, d)
    BY <1>10
  <2> HIDE DEF p, pc, e, n, A, y
  <2>3. SlotIs(Frame(memory, p, pc, e, A, s), Frame(n, p, pc, e, A, y), p, i, d,
               Above(memory, y, Floor(A, p)))
    BY <2>1, <2>2, <1>3, SlotWritten
  <2>4. /\ f = Frame(memory, p, pc, e, A, s) /\ g = Frame(n, p, pc, e, A, y) /\ F = Floor(A, p)
    BY <1>3 DEF TopFrame, p, pc, e, n, A, y
  <2> HIDE DEF f, g
  <2> QED BY <2>3, <2>4
<1>15. /\ f.temps = T /\ f.args = [j \in 1 .. NumArgs[p] |-> memory[A + j - 1]]
       /\ f.locals = [j \in 1 .. NumLocals[p] |-> memory[A + SlotIndex(j - 1)]]
       /\ NumArgs[p] \in Nat /\ NumLocals[p] \in Nat
  <2>1. /\ f.args = [j \in 1 .. NumArgs[p] |-> memory[A + j - 1]]
        /\ f.locals = [j \in 1 .. NumLocals[p] |-> memory[A + SlotIndex(j - 1)]]
    BY DEF TopFrame, Frame
  <2> QED BY <1>3, <2>1, Stack
<1> HIDE DEF f, g, A, p, y
<1>16. CASE i \in 0 .. NumArgs[p] - 1
  <2>1. i + 1 \in DOMAIN f.args
    <3>1. DOMAIN f.args = 1 .. NumArgs[p]
      BY <1>15
    <3> QED BY <1>15, <1>16, <3>1
  <2>2. g = [f EXCEPT !.args = [f.args EXCEPT ![i + 1] = f.temps[1]], !.temps = Tail(f.temps)]
    BY <1>12, <1>14, <1>15, <1>16 DEF SlotIs, WithArg
  <2> DEFINE j == i + 1
  <2> HIDE DEF j
  <2>3. j \in DOMAIN f.args /\ g = [f EXCEPT !.args = [f.args EXCEPT ![j] = f.temps[1]], !.temps = Tail(f.temps)]
    BY <2>1, <2>2 DEF j
  <2>4. f.temps # << >>
    BY <1>12, <1>15
  <2>5. Computed(f, g)
    BY <2>3, <2>4, Zenon DEF Computed
  <2> QED BY <1>11, <1>13, <2>5, ComputedStep DEF g
<1>17. CASE \E k \in 0 .. NumLocals[p] - 1 : i = SlotIndex(k)
  <2>0. PICK k \in 0 .. NumLocals[p] - 1 : i = SlotIndex(k)
    BY <1>17
  <2>1. k + 1 \in DOMAIN f.locals
    <3>1. DOMAIN f.locals = 1 .. NumLocals[p]
      BY <1>15
    <3> QED BY <1>15, <3>1
  <2>2. g = [f EXCEPT !.locals = [f.locals EXCEPT ![k + 1] = f.temps[1]], !.temps = Tail(f.temps)]
    BY <1>12, <1>14, <1>15, <2>0 DEF SlotIs, WithLocal
  <2> DEFINE j == k + 1
  <2> HIDE DEF j
  <2>3. j \in DOMAIN f.locals /\ g = [f EXCEPT !.locals = [f.locals EXCEPT ![j] = f.temps[1]], !.temps = Tail(f.temps)]
    BY <2>1, <2>2 DEF j
  <2>4. f.temps # << >>
    BY <1>12, <1>15
  <2>5. Computed(f, g)
    BY <2>3, <2>4, Zenon DEF Computed
  <2> QED BY <1>11, <1>13, <2>5, ComputedStep DEF g
<1> QED BY <1>7, <1>16, <1>17

LEMMA PushValueRefines == ASSUME StackInv, PushValue PROVE Abstract!Compute
<1>1. runs # << >> /\ run.at = "instruction" /\ run.sp > 0
  BY DEF PushValue, Executing, CanPush
<1>2. PICK v \in Values : Push(Datum(v))
  BY DEF PushValue
<1>3. Datum(v) \in Datums
  BY DEF Datums
<1> QED BY <1>1, <1>2, <1>3, PushRefines

LEMMA LoadSlotRefines == ASSUME StackInv, LoadSlot PROVE Abstract!Compute
<1>1. runs # << >> /\ run.at = "instruction" /\ run.sp > 0
  BY DEF LoadSlot, Executing, CanPush
<1>2. PICK i \in SlotOperands : memory[run.area + i].tag = "value" /\ Push(memory[run.area + i])
  BY DEF LoadSlot
<1>3. memory[run.area + i] \in Slots
  BY <1>1, OperandFacts DEF StackInv, TypeOK
<1>4. memory[run.area + i] \in Datums
  BY <1>2, <1>3, ValueSlots
<1> QED BY <1>1, <1>2, <1>4, PushRefines

LEMMA PushStringRefines == ASSUME StackInv, PushString PROVE Abstract!Compute
<1>1. runs # << >> /\ run.at = "string"
  BY DEF PushString
<1>2. PICK v \in Values : Push(Datum(v))
  BY DEF PushString
<1>3. Datum(v) \in Datums
  BY DEF Datums
<1>4. run.sp > 0
  <2>1. AtInv(memory, run, Top) /\ run.sp \in Int
    BY <1>1, TopFacts
  <2> QED BY <1>1, <2>1 DEF AtInv
<1> QED BY <1>1, <1>2, <1>3, <1>4, PushRefines

\* LDSTR's allocation is not seen.
LEMMA LoadStringRefines == ASSUME StackInv, LoadString PROVE Calls' = Calls /\ result' = result
<1> DEFINE q == [run EXCEPT !.at = "string"]
<1>1. /\ runs # << >> /\ run.at = "instruction" /\ runs' = [runs EXCEPT ![1].at = "string"]
      /\ memory' = memory /\ result' = result
  BY DEF LoadString, Executing
<1>2. /\ runs \in Seq(Run) /\ run \in Run /\ run = runs[1] /\ 1 \in 1 .. Len(runs)
      /\ Calls \in Seq(Seq(OwnFrame)) /\ DOMAIN Calls = 1 .. Len(runs)
      /\ Calls[1] = Frames(memory, run)
  BY <1>1, RunsFacts, CallsFacts
<1>3. runs' = [runs EXCEPT ![1] = q]
  BY <1>1, <1>2
<1>4. /\ q.sp = run.sp /\ q.at = "string" /\ q.area = run.area /\ q.proc = run.proc
      /\ q.env = run.env /\ q.pc = run.pc
  BY <1>2 DEF Run
<1> HIDE DEF q
<1>5. Frames(memory', q) = Frames(memory, run)
  BY <1>1, <1>4 DEF Frames
<1>6. KeepsUp(memory, memory', run.old)
  BY <1>1 DEF KeepsUp
<1>7. Calls' = [Calls EXCEPT ![1] = Calls[1]]
  <2>1. Calls' = [Calls EXCEPT ![1] = Frames(memory', q)]
    BY <1>1, <1>3, <1>6, TopCalls
  <2> QED BY <1>2, <1>5, <2>1
<1>8. [Calls EXCEPT ![1] = Calls[1]] = Calls
  BY <1>2
<1> QED BY <1>1, <1>7, <1>8

-----------------------------------------------------------------------------
(* Calls.                                                                  *)

LEMMA ReplaceFirst ==
    ASSUME StackInv, runs # << >>, NEW x
    PROVE  [Calls EXCEPT ![1] = x] = <<x>> \o Tail(Calls)
<1> DEFINE S == Seq(OwnFrame) \cup {x}
           s == [Calls EXCEPT ![1] = x]
           c == Tail(Calls)
           t == <<x>> \o c
<1>1. Calls \in Seq(S) /\ Len(Calls) \in Nat /\ 1 \in 1 .. Len(Calls) /\ x \in S
  <2>1. Calls \in Seq(Seq(OwnFrame)) /\ Len(Calls) \in Nat /\ 1 \in 1 .. Len(Calls)
    BY RunsFacts, CallsFacts
  <2> DEFINE R == Seq(OwnFrame)
  <2> HIDE DEF R
  <2>2. Calls \in Seq(R)
    BY <2>1 DEF R
  <2>3. Calls \in Seq(R \cup {x})
    BY <2>2
  <2> QED BY <2>1, <2>3 DEF R
<1> HIDE DEF S
<1>2. s \in Seq(S) /\ Len(s) = Len(Calls) /\ s[1] = x /\ \A i \in 1 .. Len(Calls) : i # 1 => s[i] = Calls[i]
  BY <1>1
<1>3. c \in Seq(S) /\ Len(c) = Len(Calls) - 1 /\ \A i \in 1 .. Len(Calls) - 1 : c[i] = Calls[i + 1]
  BY <1>1
<1> HIDE DEF c, s
<1>4. Conses(t, x, c, S)
  BY <1>1, <1>3, ConsFacts
<1> HIDE DEF t
<1>5. t \in Seq(S) /\ Len(t) = 1 + Len(c) /\ t[1] = x /\ \A i \in 1 .. Len(c) : t[1 + i] = c[i]
  BY <1>4 DEF Conses
<1>6. ASSUME NEW i \in 1 .. Len(s) PROVE s[i] = t[i]
  <2>1. i = 1 \/ (i - 1 \in 1 .. Len(c) /\ 1 + (i - 1) = i /\ i - 1 + 1 = i /\ i - 1 \in 1 .. Len(Calls) - 1)
    BY <1>1, <1>2, <1>3
  <2> QED BY <1>2, <1>3, <1>5, <2>1
<1>7. s = t
  BY <1>1, <1>2, <1>3, <1>5, <1>6, SameSeq
<1> QED BY <1>7 DEF s, t, c

LEMMA TwoConses ==
    ASSUME NEW S, NEW x \in S, NEW y \in S, NEW c \in Seq(S)
    PROVE  <<x, y>> \o c = <<x>> \o (<<y>> \o c)
<1> DEFINE h == <<x, y>>
           d == <<y>> \o c
           s == h \o c
           t == <<x>> \o d
<1>1. h \in Seq(S) /\ Len(h) = 2 /\ h[1] = x /\ h[2] = y
  OBVIOUS
<1>2. Conses(d, y, c, S)
  BY ConsFacts
<1> HIDE DEF h, d
<1>3. d \in Seq(S) /\ Len(d) = 1 + Len(c) /\ d[1] = y /\ Len(c) \in Nat
      /\ \A i \in 1 .. Len(c) : d[1 + i] = c[i]
  BY <1>2 DEF Conses
<1>4. Conses(t, x, d, S)
  BY <1>3, ConsFacts
<1>5. /\ s \in Seq(S) /\ Len(s) = Len(h) + Len(c) /\ \A i \in 1 .. Len(h) : s[i] = h[i]
      /\ \A i \in 1 .. Len(c) : s[Len(h) + i] = c[i]
  <2>1. h \in Seq(S) /\ c \in Seq(S)
    BY <1>1
  <2>2. /\ h \o c \in Seq(S) /\ Len(h \o c) = Len(h) + Len(c)
        /\ \A i \in 1 .. Len(h) : (h \o c)[i] = h[i]
        /\ \A i \in 1 .. Len(c) : (h \o c)[Len(h) + i] = c[i]
    <3> HIDE DEF s, t
    <3> QED BY ONLY <2>1, ConcatFacts
  <2> QED BY <2>2
<1> HIDE DEF s, t
<1>6. t \in Seq(S) /\ Len(t) = 1 + Len(d) /\ t[1] = x /\ \A i \in 1 .. Len(d) : t[1 + i] = d[i]
  BY <1>4 DEF Conses
<1>7. ASSUME NEW i \in 1 .. Len(s) PROVE s[i] = t[i]
  <2>1. CASE i = 1
    <3>1. 1 \in 1 .. Len(h)
      BY <1>1
    <3> QED BY <1>1, <1>5, <1>6, <2>1, <3>1
  <2>2. CASE i = 2
    <3>1. 2 \in 1 .. Len(h) /\ 1 \in 1 .. Len(d) /\ 1 + 1 = 2
      BY <1>1, <1>3
    <3> QED BY <1>1, <1>3, <1>5, <1>6, <2>2, <3>1
  <2>3. CASE i # 1 /\ i # 2
    <3> DEFINE j == i - 2
               k == i - 1
    <3>1. j \in 1 .. Len(c) /\ k \in 1 .. Len(d) /\ 1 + j = k /\ 1 + k = i /\ Len(h) + j = i
      BY <1>1, <1>3, <1>5, <2>3
    <3> HIDE DEF j, k
    <3>2. s[Len(h) + j] = c[j] /\ t[1 + k] = d[k] /\ d[1 + j] = c[j]
      BY <1>3, <1>5, <1>6, <3>1
    <3> QED BY <3>1, <3>2
  <2> QED BY <2>1, <2>2, <2>3
<1>8. s = t
  <2>1. Len(s) = Len(t)
    BY <1>1, <1>3, <1>5, <1>6
  <2> QED BY <1>5, <1>6, <1>7, <2>1, SameSeq
<1> QED BY <1>8 DEF s, t, h, d

LEMMA TwoAhead ==
    ASSUME NEW S, NEW x, NEW y, NEW c \in Seq(S), <<x, y>> \o c \in Seq(S)
    PROVE  x \in S /\ y \in S /\ <<y>> \o c \in Seq(S) /\ <<x, y>> \o c = <<x>> \o (<<y>> \o c)
<1> DEFINE R == S \cup {x, y}
           h == <<x, y>>
           s == h \o c
<1>1. /\ c \in Seq(R) /\ Len(c) \in Nat /\ x \in R /\ y \in R
      /\ h \in Seq(R) /\ Len(h) = 2 /\ h[1] = x /\ h[2] = y
  OBVIOUS
<1> HIDE DEF R, h
<1>2. /\ s \in Seq(R) /\ Len(s) = 2 + Len(c) /\ s[1] = x /\ s[2] = y
  <2>1. /\ s \in Seq(R) /\ Len(s) = Len(h) + Len(c) /\ \A i \in 1 .. Len(h) : s[i] = h[i]
    BY <1>1, ConcatFacts
  <2>2. 1 \in 1 .. 2 /\ 2 \in 1 .. 2
    OBVIOUS
  <2> HIDE DEF s
  <2> QED BY <1>1, <2>1, <2>2
<1>3. s \in Seq(S)
  BY DEF h
<1> HIDE DEF s
<1>4. x \in S /\ y \in S
  <2>1. 1 \in 1 .. Len(s) /\ 2 \in 1 .. Len(s)
    BY <1>1, <1>2
  <2>2. s[1] \in S /\ s[2] \in S
    BY <1>3, <2>1
  <2> QED BY <1>2, <2>2
<1>5. <<x, y>> \o c = <<x>> \o (<<y>> \o c)
  BY <1>4, TwoConses
<1>6. <<y>> \o c \in Seq(S)
  BY <1>4
<1> QED BY <1>4, <1>5, <1>6

\* The frames of a run that a special function has been called from.
LEMMA WaitingForm ==
    ASSUME StackInv, runs # << >>, NEW fs, Links(memory, fs, run.old), AtInv(memory, run, fs[1])
    PROVE  LET p == fs[1].proc
               outer == Outer(memory, fs[1])
               caller == Frame(memory, p, run.pc, EnvOf[p], fs[1].area, run.sp + run.passed)
           IN  /\ outer \in Seq(OwnFrame)
               /\ run.at = "special" =>
                     /\ CallsForm(Special("special", EnvOf[p], Passed(memory, run), << >>),
                                  <<caller>> \o outer)
                     /\ caller \in OwnFrame
               /\ run.at = "specialTail" =>
                     CallsForm(Special("specialTail", EnvOf[p], Passed(memory, run), << >>), outer)
               /\ run.at = "return" =>
                     CallsForm(Special("done", EnvOf[p], Passed(memory, run), <<memory[run.sp + 1]>>), outer)
<1> DEFINE p == fs[1].proc
           outer == Outer(memory, fs[1])
           caller == Frame(memory, p, run.pc, EnvOf[p], fs[1].area, run.sp + run.passed)
           passed == Passed(memory, run)
<1>1. run \in Run /\ RunInv(memory, run) /\ memory \in [0 .. StackTop -> Slots]
  BY RunsFacts DEF StackInv, TypeOK
<1>2. FramesForm(memory, run, fs[1])
  BY AtTop, FramesAre
<1>3. outer \in Seq(OwnFrame)
  <2>1. 1 \in 1 .. Len(fs) /\ run.old \in 0 .. StackTop
    BY <1>1, RunFacts, LinksFacts
  <2>2. CallersInv(memory, fs, run.old, 1)
    BY <1>1, <2>1, CallersFacts
  <2> QED BY <2>2 DEF CallersInv, Outer, OuterAt
<1>4. Frames(memory, run) \in Seq(OwnFrame)
  BY <1>1, FramesFacts
<1>5. CASE run.at = "special"
  <2> DEFINE x == Special("special", EnvOf[p], passed, << >>)
  <2>1. Frames(memory, run) = <<x, caller>> \o outer
    BY <1>2, <1>5 DEF FramesForm
  <2> HIDE DEF x, caller, outer
  <2>2. /\ <<caller>> \o outer \in Seq(OwnFrame) /\ caller \in OwnFrame
        /\ <<x, caller>> \o outer = <<x>> \o (<<caller>> \o outer)
    BY <1>3, <1>4, <2>1, TwoAhead
  <2> DEFINE c == <<caller>> \o outer
  <2>3. c \in Seq(OwnFrame) /\ Frames(memory, run) = <<x>> \o c
    BY <2>1, <2>2
  <2> HIDE DEF c
  <2>4. CallsForm(x, c)
    BY <2>3, CallsFormed
  <2> QED BY <1>3, <1>5, <2>2, <2>4 DEF x, caller, outer, c
<1>6. CASE run.at = "specialTail"
  <2> DEFINE x == Special("specialTail", EnvOf[p], passed, << >>)
  <2>1. Frames(memory, run) = <<x>> \o outer
    BY <1>2, <1>6 DEF FramesForm
  <2> HIDE DEF x, outer
  <2>2. CallsForm(x, outer)
    BY <1>3, <2>1, CallsFormed
  <2> QED BY <1>3, <1>6, <2>2 DEF x, outer
<1>7. CASE run.at = "return"
  <2> DEFINE x == Special("done", EnvOf[p], passed, <<memory[run.sp + 1]>>)
  <2>1. Frames(memory, run) = <<x>> \o outer
    BY <1>2, <1>7 DEF FramesForm
  <2> HIDE DEF x, outer
  <2>2. CallsForm(x, outer)
    BY <1>3, <2>1, CallsFormed
  <2> QED BY <1>3, <1>7, <2>2 DEF x, outer
<1> QED BY <1>3, <1>5, <1>6, <1>7

LEMMA SpecialIs ==
    ASSUME NEW kind, NEW e, NEW args, NEW temps
    PROVE  /\ Special(kind, e, args, temps).kind = kind /\ Special(kind, e, args, temps).temps = temps
           /\ Special(kind, e, args, << >>) = Abstract!Special(kind, args, e)
           /\ Special(kind, e, args, temps).env = e /\ Special(kind, e, args, temps).args = args
BY DEF Special, Abstract!Special, Null

LEMMA FreshFrame ==
    ASSUME NEW m, NEW p \in Procedures, NEW a \in Int, NEW args,
           args = Frame(m, p, 0, EnvOf[p], a, Floor(a, p)).args
    PROVE  Abstract!Fresh(Frame(m, p, 0, EnvOf[p], a, Floor(a, p)), p, args)
<1> DEFINE f == Frame(m, p, 0, EnvOf[p], a, Floor(a, p))
           A == [i \in 1 .. NumArgs[p] |-> m[a + i - 1]]
           L == [i \in 1 .. NumLocals[p] |-> m[a + SlotIndex(i - 1)]]
           T == [i \in 1 .. Floor(a, p) - Floor(a, p) |-> m[Floor(a, p) + i]]
           g == [kind |-> "procedure", proc |-> p, pc |-> 0, env |-> EnvOf[p],
                 args |-> A, locals |-> L, temps |-> T]
<1>1. f = g
  BY DEF Frame
<1>2. T = << >>
  <2>1. Floor(a, p) \in Int
    BY Stack DEF Floor, SlotCount
  <2> DEFINE F == Floor(a, p)
  <2> HIDE DEF F
  <2>2. 1 .. F - F = {}
    BY <2>1 DEF F
  <2> QED BY <2>2 DEF F
<1>3. Len(L) = NumLocals[p]
  BY Stack
<1> HIDE DEF f, A, L, T
<1>4. /\ g.kind = "procedure" /\ g.proc = p /\ g.pc = 0 /\ g.env = EnvOf[p] /\ g.args = A
      /\ g.temps = T /\ g.locals = L
  OBVIOUS
<1>5. /\ [g EXCEPT !.kind = "procedure"] = g /\ [g EXCEPT !.proc = p] = g /\ [g EXCEPT !.pc = 0] = g
      /\ [g EXCEPT !.env = EnvOf[p]] = g /\ [g EXCEPT !.args = A] = g /\ [g EXCEPT !.temps = T] = g
  OBVIOUS
<1> HIDE DEF g
<1>6. g = [g EXCEPT !.kind = "procedure", !.proc = p, !.pc = 0, !.env = EnvOf[p], !.args = A, !.temps = T]
  <2>1. [g EXCEPT !.kind = "procedure", !.proc = p, !.pc = 0, !.env = EnvOf[p], !.args = A, !.temps = T]
          = [[[[[[g EXCEPT !.kind = "procedure"] EXCEPT !.proc = p] EXCEPT !.pc = 0]
                EXCEPT !.env = EnvOf[p]] EXCEPT !.args = A] EXCEPT !.temps = T]
    OBVIOUS
  <2> QED BY <1>5, <2>1, Zenon
<1>7. args = A
  BY <1>1, <1>4 DEF f
<1> QED BY <1>1, <1>2, <1>3, <1>4, <1>6, <1>7 DEF Abstract!Fresh, f

\* vm_run begins with an empty chain.
LEMMA NoCaller ==
    ASSUME NEW m, NEW a \in 0 .. StackTop, NEW f, End(f) \in Int,
           m[a - PcChain] = ReturnAddress(Null, Null)
    PROVE  OuterAt(m, a, f) = << >>
<1> DEFINE x == <<a, End(f)>>
<1>1. x \in Places /\ x[1] = a
  BY DEF Places
<1> HIDE DEF x
<1>2. CallerProc(m, x) = Null
  BY <1>1 DEF CallerProc, ReturnAddress, Slot
<1>3. Callers(m)[x] = << >>
  BY <1>1, <1>2, CallersUnfold, Stack DEF CallersBody, HasCaller
<1> QED BY <1>3 DEF x, OuterAt

LEMMA AloneFrame == ASSUME NEW x PROVE <<x>> \o << >> = <<x>>
<1>1. {x} # {} /\ x \in {x} /\ << >> \in Seq({x}) /\ Len(<< >>) = 0
  OBVIOUS
<1> DEFINE S == {x}
           c == << >>
           t == <<x>>
<1>2. x \in S /\ c \in Seq(S) /\ Len(c) = 0 /\ t \in Seq(S) /\ Len(t) = 1 /\ t[1] = x
  BY <1>1
<1> HIDE DEF S, c
<1>3. Conses(<<x>> \o c, x, c, S)
  BY <1>2, ConsFacts
<1> DEFINE s == <<x>> \o c
<1> HIDE DEF s, t
<1>4. s \in Seq(S) /\ Len(s) = 1 /\ s[1] = x
  BY <1>2, <1>3 DEF Conses, s
<1>5. \A i \in 1 .. 1 : i = 1
  OBVIOUS
<1>6. s = t
  BY <1>2, <1>4, <1>5, SameSeq
<1> QED BY <1>6 DEF s, t, c

\* The top of the calls, when no procedure executes.
LEMMA WaitingTop ==
    ASSUME StackInv, runs # << >>, run.at \in {"special", "specialTail"}
    PROVE  Calls # << >> /\ Abstract!Top.kind \in {"special", "specialTail"}
<1>1. PICK fs : Links(memory, fs, run.old) /\ AtInv(memory, run, fs[1])
  BY TopLinks
<1>2. CASE run.at = "special"
  <2>1. PICK c : CallsForm(Special("special", EnvOf[fs[1].proc], Passed(memory, run), << >>), c)
    BY <1>1, <1>2, WaitingForm
  <2> QED BY <2>1, SpecialIs DEF CallsForm
<1>3. CASE run.at = "specialTail"
  <2>1. PICK c : CallsForm(Special("specialTail", EnvOf[fs[1].proc], Passed(memory, run), << >>), c)
    BY <1>1, <1>3, WaitingForm
  <2> QED BY <2>1, SpecialIs DEF CallsForm
<1> QED BY <1>2, <1>3

LEMMA VmRunRefines ==
    ASSUME StackInv, NEW p \in Procedures, NEW args \in Arguments(p), VmRun(p, args, EnvOf[p]),
           Len(runs) < MaxRuns, runs = << >> \/ run.at \in {"special", "specialTail"}
    PROVE  Abstract!Enter
<1> DEFINE area == stackPtr - NumArgs[p]
           low == Floor(area, p)
           f == [area |-> area, proc |-> p]
           q == [sp |-> low, area |-> area, proc |-> p, pc |-> 0, env |-> EnvOf[p],
                 old |-> stackPtr, at |-> "instruction", passed |-> 0, oldArea |-> Null]
<1>1. /\ KeepsUp(memory, memory', stackPtr) /\ area \in 0 .. StackTop
      /\ memory'[area - PcChain] = ReturnAddress(Null, Null)
  BY VmRunStep
<1>2. runs' = <<q>> \o runs /\ result' = result
  BY DEF VmRun
<1>3. /\ q.sp = low /\ q.area = area /\ q.proc = p /\ q.pc = 0 /\ q.env = EnvOf[p]
      /\ q.at = "instruction" /\ f.area = area /\ f.proc = p
  OBVIOUS
<1> HIDE DEF area, low, f, q
<1>4. Calls' = <<Frames(memory', q)>> \o Calls
  BY <1>1, <1>2, PushCalls
<1>5. Outer(memory', f) = << >>
  <2>1. End(f) \in Int
    <3>1. End(f) = area + NumArgs[p] - 1 /\ NumArgs[p] \in Nat
      BY <1>3, Stack DEF End
    <3> QED BY <1>1, <3>1
  <2> QED BY <1>1, <1>3, <2>1, NoCaller DEF Outer
<1> DEFINE F == Frame(memory', p, 0, EnvOf[p], area, low)
           x == Frames(memory', q)
<1>6. x = <<F>>
  <2>1. IsTop(q, f)
    BY <1>3 DEF IsTop
  <2>2. FramesForm(memory', q, f)
    BY <2>1, FramesAre
  <2>3. x = <<F>> \o << >>
    BY <1>3, <1>5, <2>2 DEF FramesForm
  <2> HIDE DEF F
  <2> QED BY <2>3, AloneFrame
<1>7. /\ Abstract!Fresh(F, p, F.args) /\ Len(F.args) = NumArgs[p]
  <2>1. Abstract!Fresh(F, p, F.args)
    <3>1. area \in Int
      BY <1>1
    <3> QED BY <3>1, FreshFrame DEF low
  <2>2. F.args = [i \in 1 .. NumArgs[p] |-> memory'[area + i - 1]]
    BY DEF Frame
  <2> QED BY <2>1, <2>2, Stack
<1> HIDE DEF F, x
\* What the sequence of runs is.
<1>8. /\ Len(Calls') = Len(Calls) + 1 /\ Tail(Calls') = Calls /\ Calls'[1] = x
  <2> DEFINE S == Seq(OwnFrame) \cup {x}
             R == Seq(OwnFrame)
  <2>1. Calls \in Seq(R)
    BY CallsFacts
  <2> HIDE DEF R
  <2>2. Calls \in Seq(R \cup {x}) /\ x \in R \cup {x}
    BY <2>1
  <2>3. Calls \in Seq(S) /\ x \in S
    BY <2>2 DEF R
  <2> HIDE DEF S
  <2>4. /\ Len(<<x>> \o Calls) = Len(Calls) + 1 /\ Tail(<<x>> \o Calls) = Calls
        /\ (<<x>> \o Calls)[1] = x
    BY <2>3
  <2> QED BY <1>4, <2>4 DEF x
<1>9. Calls = << >> \/ Abstract!Top.kind \in {"special", "specialTail"}
  <2>1. CASE runs = << >>
    <3>1. Len(Calls) = 0 /\ Calls \in Seq(Seq(OwnFrame))
      BY <2>1, CallsFacts
    <3> QED BY <3>1
  <2>2. CASE runs # << >>
    BY <2>2, WaitingTop
  <2> QED BY <2>1, <2>2
<1>10. Len(Calls'[1]) = 1 /\ Calls'[1][1] = F
  BY <1>6, <1>8
<1> QED BY <1>2, <1>7, <1>8, <1>9, <1>10, Zenon DEF Abstract!Enter

LEMMA EnterRunRefines == ASSUME StackInv, EnterRun PROVE Abstract!Enter
<1>1. runs = << >>
  BY DEF EnterRun
<1>2. PICK p \in Procedures : EnvOf[p] = 0 /\ \E args \in Arguments(p) : VmRun(p, args, 0)
  BY DEF EnterRun
<1>3. PICK args \in Arguments(p) : VmRun(p, args, EnvOf[p])
  BY <1>2
<1>4. Len(runs) < MaxRuns
  BY <1>1, Stack
<1> QED BY <1>1, <1>3, <1>4, VmRunRefines

LEMMA ApplyProcedureRefines ==
    ASSUME StackInv, "applyClosure" \notin Operations, ApplyProcedure PROVE Abstract!Enter
<1>1. runs # << >> /\ run.at \in {"special", "specialTail"} /\ Len(runs) < MaxRuns
  BY DEF ApplyProcedure
<1>2. PICK p \in Procedures : /\ EnvOf[p] = run.env
                              /\ \E args \in Arguments(p) : VmRun(p, args, run.env)
  BY DEF ApplyProcedure
<1>3. PICK args \in Arguments(p) : VmRun(p, args, EnvOf[p])
  BY <1>2
<1> QED BY <1>1, <1>3, VmRunRefines

\* The arguments of a call, below the function.
ArgsAbove(m, low, high, k) ==
    SubSeq(Above(m, low, high), 2, k + 1) = [i \in 1 .. k |-> m[low + 1 + i]]

LEMMA AboveArgs ==
    ASSUME NEW m \in [0 .. StackTop -> Slots], NEW low \in Int, NEW high \in Int, NEW k \in Nat,
           -1 <= low, high <= StackTop, low + (k + 1) <= high
    PROVE  ArgsAbove(m, low, high, k)
<1> DEFINE s == Above(m, low, high)
           t == [i \in 1 .. k |-> m[low + 1 + i]]
           u == SubSeq(s, 2, k + 1)
<1>1. Lists(s, m, low, high)
  <2>1. low <= high
    OBVIOUS
  <2> QED BY <2>1, AboveFacts
<1> HIDE DEF s
<1>2. s \in Seq(Slots) /\ Len(s) = high - low /\ \A i \in 1 .. high - low : s[i] = m[low + i]
  BY <1>1 DEF Lists
<1>3. u \in Seq(Slots) /\ Len(u) = k /\ \A i \in 1 .. k : u[i] = s[i + 1]
  BY <1>2
<1>4. ASSUME NEW i \in 1 .. k PROVE u[i] = m[low + 1 + i] /\ m[low + 1 + i] \in Slots
  <2> DEFINE j == i + 1
  <2>1. j \in 1 .. high - low /\ low + j = low + 1 + i /\ low + j \in 0 .. StackTop
    BY Stack
  <2> HIDE DEF j
  <2>2. s[j] = m[low + j]
    BY <1>2, <2>1
  <2> QED BY <1>3, <2>1, <2>2 DEF j
<1> HIDE DEF u
<1>5. t \in Seq(Slots) /\ Len(t) = k /\ \A i \in 1 .. k : t[i] = u[i]
  <2>1. t = [i \in 1 .. k |-> t[i]] /\ \A i \in 1 .. k : t[i] = m[low + 1 + i]
    OBVIOUS
  <2> HIDE DEF t
  <2>2. \A i \in 1 .. k : t[i] = u[i] /\ t[i] \in Slots
    BY <1>4, <2>1
  <2> QED BY <2>1, <2>2, SlotSeq
<1> HIDE DEF t
<1>6. u = t
  BY <1>3, <1>5, SameSeq
<1> QED BY <1>6 DEF u, t, s, ArgsAbove

WithPc(f, pc) == [f EXCEPT !.pc = pc]

\* Frame f when a call of n arguments has been made from it.
CallerOf(f, n, pc) == WithPc(WithTemps(f, Abstract!Suffix(f.temps, n + 1)), pc)

LEMMA PcOnly ==
    ASSUME NEW m, NEW p, NEW pc, NEW x, NEW e, NEW a, NEW low
    PROVE  Frame(m, p, x, e, a, low) = WithPc(Frame(m, p, pc, e, a, low), x)
<1> DEFINE A == [i \in 1 .. NumArgs[p] |-> m[a + i - 1]]
           L == [i \in 1 .. NumLocals[p] |-> m[a + SlotIndex(i - 1)]]
           T == [i \in 1 .. Floor(a, p) - low |-> m[low + i]]
<1>1. \A y : Frame(m, p, y, e, a, low)
          = [kind |-> "procedure", proc |-> p, pc |-> y, env |-> e, args |-> A, locals |-> L, temps |-> T]
  BY DEF Frame
<1> HIDE DEF A, L, T
<1>2. [[kind |-> "procedure", proc |-> p, pc |-> pc, env |-> e, args |-> A, locals |-> L, temps |-> T]
          EXCEPT !.pc = x]
        = [kind |-> "procedure", proc |-> p, pc |-> x, env |-> e, args |-> A, locals |-> L, temps |-> T]
  OBVIOUS
<1> QED BY <1>1, <1>2 DEF WithPc

\* The frame of a caller, when the step writes below its temporaries.
LEMMA CallerFrameIs ==
    ASSUME StackInv, runs # << >>, run.at = "instruction", NEW k \in Nat,
           NEW low \in Int, low = run.sp + (k + 1), low <= FrameFloor(Top), NEW pc,
           NEW n, Agree(memory, n, low, End(Top))
    PROVE  Frame(n, run.proc, pc, EnvOf[run.proc], run.area, low)
              = CallerOf(TopFrame(memory, run.sp), k, pc)
<1> DEFINE s == run.sp
           F == FrameFloor(Top)
           E == End(Top)
           A == run.area
           p == run.proc
           e == EnvOf[p]
           x == run.pc
<1>1. /\ s \in Int /\ -1 <= s /\ F \in Int /\ A \in Nat /\ E \in Int /\ F <= StackTop
      /\ p \in Procedures /\ F = Floor(A, p) /\ E = A + NumArgs[p] - 1
      /\ memory \in [0 .. StackTop -> Slots]
      /\ TopFrame(memory, s).temps = Above(memory, s, F)
  BY TopFacts, TopTemps
<1>2. TopFrame(memory, s) = Frame(memory, p, x, e, A, s)
  BY DEF TopFrame
<1>3. Abstract!Suffix(Above(memory, s, F), k + 1) = Above(memory, low, F)
  <2> DEFINE j == k + 1
  <2>1. j \in Nat /\ s + j <= F /\ s + j = low
    BY DEF s, F
  <2> HIDE DEF j, s, F
  <2>2. Abstract!Suffix(Above(memory, s, F), j) = Above(memory, s + j, F)
    BY <1>1, <2>1, AboveDrop
  <2> QED BY <2>1, <2>2 DEF j
<1> HIDE DEF s, A, p, e, x
<1>4. -1 <= low /\ low <= Floor(A, p) /\ A + NumArgs[p] - 1 <= E /\ -1 <= Floor(A, p)
  <2>1. low = s + (k + 1) /\ low <= F
    BY DEF s
  <2> HIDE DEF F, E
  <2> QED BY <1>1, <2>1
<1>5. Frame(n, p, pc, e, A, low) = Frame(memory, p, pc, e, A, low)
  BY <1>1, <1>4, FrameSame
<1>6. Frame(memory, p, pc, e, A, low) = WithPc(Frame(memory, p, x, e, A, low), pc)
  BY PcOnly
<1>7. Frame(memory, p, x, e, A, low) = WithTemps(Frame(memory, p, x, e, A, s), Above(memory, low, Floor(A, p)))
  <2>1. Agree(memory, memory, Floor(A, p), E)
    BY DEF Agree
  <2> HIDE DEF E
  <2> QED BY <1>1, <1>4, <2>1, TempsOnly
<1>8. Frame(n, p, pc, e, A, low) = CallerOf(TopFrame(memory, s), k, pc)
  BY <1>1, <1>2, <1>3, <1>5, <1>6, <1>7 DEF CallerOf
<1> QED BY <1>8 DEF p, e, A, s

LEMMA HeadIs ==
    ASSUME NEW f, NEW c, CallsForm(f, c), NEW g
    PROVE  [Calls[1] EXCEPT ![1] = g] = <<g>> \o c
<1> DEFINE h == <<g>> \o c
           x == [Calls EXCEPT ![1] = h]
           y == [Calls EXCEPT ![1][1] = g]
<1>1. x = y
  BY HeadChanged
<1>2. Calls \in Seq(Seq(OwnFrame)) /\ 1 \in 1 .. Len(Calls)
  BY DEF CallsForm
<1> HIDE DEF h
<1>3. x[1] = h /\ y[1] = [Calls[1] EXCEPT ![1] = g]
  <2> DEFINE R == Seq(OwnFrame)
  <2> HIDE DEF R
  <2>1. Calls \in Seq(R) /\ 1 \in 1 .. Len(Calls)
    BY <1>2 DEF R
  <2>2. 1 \in DOMAIN Calls
    BY <2>1
  <2> QED BY <2>2
<1> QED BY <1>1, <1>3 DEF h

\* What the frames below a call are in the abstract machine.
LEMMA AfterCallIs ==
    ASSUME StackInv, runs # << >>, run.at = "instruction", NEW k \in Nat, NEW pc,
           run.sp + (k + 1) <= FrameFloor(Top)
    PROVE  LET f == TopFrame(memory, run.sp) IN
           /\ Abstract!AfterCall(k, pc) = <<CallerOf(f, k, pc)>> \o Around
           /\ Len(f.temps) > k /\ Abstract!Top = f /\ Abstract!Running
           /\ Abstract!ArgsOf(k) = [i \in 1 .. k |-> memory[run.sp + 1 + i]]
           /\ f.env = EnvOf[run.proc] /\ Around \in Seq(OwnFrame)
<1> DEFINE f == TopFrame(memory, run.sp)
           c == Around
           t == Abstract!Suffix(f.temps, k + 1)
           g == WithTemps(f, t)
<1>1. CallsForm(f, c) /\ Abstract!Running
  BY RunningForm
<1>2. Calls[1] = <<f>> \o c /\ Abstract!Top = f /\ Calls[1][1] = f /\ c \in Seq(OwnFrame)
  BY <1>1 DEF CallsForm, Abstract!Top
<1>3. /\ f.temps = Above(memory, run.sp, FrameFloor(Top)) /\ Len(f.temps) = FrameFloor(Top) - run.sp
      /\ FrameFloor(Top) <= StackTop /\ memory \in [0 .. StackTop -> Slots]
      /\ run.sp \in Int /\ -1 <= run.sp /\ FrameFloor(Top) \in Int
  BY TopTemps, TopFacts
<1>4. Len(f.temps) > k
  <2> DEFINE F == FrameFloor(Top)
             s == run.sp
  <2>1. F \in Int /\ s \in Int /\ Len(f.temps) = F - s /\ s + (k + 1) <= F
    BY <1>3
  <2> HIDE DEF F, s, f
  <2> QED BY <2>1
<1>5. Abstract!ArgsOf(k) = [i \in 1 .. k |-> memory[run.sp + 1 + i]]
  <2>1. SubSeq(Above(memory, run.sp, FrameFloor(Top)), 2, k + 1) = [i \in 1 .. k |-> memory[run.sp + 1 + i]]
    <3> DEFINE low == run.sp
               high == FrameFloor(Top)
    <3>1. /\ memory \in [0 .. StackTop -> Slots] /\ low \in Int /\ high \in Int /\ k \in Nat
          /\ -1 <= low /\ high <= StackTop /\ low + (k + 1) <= high
      BY <1>3
    <3> HIDE DEF low, high
    <3>2. ArgsAbove(memory, low, high, k)
      BY ONLY <3>1, AboveArgs
    <3> QED BY <3>2, Zenon DEF low, high, ArgsAbove
  <2> HIDE DEF f
  <2> QED BY <1>2, <1>3, <2>1 DEF Abstract!ArgsOf
<1>6. f.env = EnvOf[run.proc]
  BY DEF TopFrame, Frame
<1> HIDE DEF f, c
<1>7. Abstract!AfterCall(k, pc) = [Calls[1] EXCEPT ![1] = WithPc(g, pc)]
  <2> DEFINE d == Calls[1]
  <2>1. d \in Seq(OwnFrame) /\ d[1] = f /\ 1 \in 1 .. Len(d)
    <3>1. Calls \in Seq(Seq(OwnFrame)) /\ 1 \in 1 .. Len(Calls)
      BY <1>1 DEF CallsForm
    <3>2. d \in Seq(OwnFrame)
      <4> DEFINE R == Seq(OwnFrame)
      <4> HIDE DEF R
      <4>1. Calls \in Seq(R)
        BY <3>1 DEF R
      <4>2. Calls[1] \in R
        BY <3>1, <4>1
      <4> QED BY <4>2 DEF R
    <3>3. Conses(d, f, c, OwnFrame)
      BY <1>1, <1>2, ConsFacts DEF CallsForm
    <3>4. Len(d) = 1 + Len(c) /\ Len(c) \in Nat
      BY <3>3 DEF Conses
    <3> HIDE DEF d
    <3> QED BY <1>2, <3>2, <3>4 DEF d
  <2>2. Abstract!AfterCall(k, pc) = [d EXCEPT ![1].temps = Abstract!Suffix(@, k + 1), ![1].pc = pc]
    BY DEF Abstract!AfterCall
  <2> HIDE DEF d, t
  <2>3. [d EXCEPT ![1].temps = Abstract!Suffix(@, k + 1), ![1].pc = pc]
          = [[d EXCEPT ![1].temps = Abstract!Suffix(@, k + 1)] EXCEPT ![1].pc = pc]
    OBVIOUS
  <2>4. [d EXCEPT ![1].temps = Abstract!Suffix(@, k + 1)] = [d EXCEPT ![1] = g]
    BY <2>1 DEF WithTemps, t
  <2> HIDE DEF g
  <2>5. [[d EXCEPT ![1] = g] EXCEPT ![1].pc = pc] = [d EXCEPT ![1] = WithPc(g, pc)]
    <3>1. 1 \in DOMAIN d
      BY <2>1
    <3> QED BY <3>1 DEF WithPc
  <2> QED BY <2>2, <2>3, <2>4, <2>5 DEF d
<1>8. WithPc(g, pc) = CallerOf(f, k, pc)
  BY DEF CallerOf
<1> HIDE DEF g
<1>9. [Calls[1] EXCEPT ![1] = WithPc(g, pc)] = <<WithPc(g, pc)>> \o c
  BY <1>1, HeadIs
<1> QED BY <1>1, <1>2, <1>4, <1>5, <1>6, <1>7, <1>8, <1>9 DEF f, c

LEMMA CallSpecialRefines == ASSUME StackInv, CallSpecial PROVE Abstract!CallSpecial
<1>1. runs # << >> /\ run.at = "instruction"
  BY DEF CallSpecial, Executing
<1>2. PICK k \in SpecialArgs, offset \in Offsets :
        LET sp == run.sp + 1 IN
        /\ Temps >= k + 1
        /\ stackPtr' = sp
        /\ runs' = [runs EXCEPT ![1].sp = sp, ![1].area = sp + 1, ![1].pc = offset,
                                ![1].at = "special", ![1].passed = k, ![1].oldArea = run.area]
  BY Zenon DEF CallSpecial
<1>b. memory' = memory /\ result' = result
  BY DEF CallSpecial
<1> DEFINE low == run.sp + 1
           area == run.sp + 1 + 1
           q == [run EXCEPT !.sp = low, !.area = area, !.pc = offset, !.at = "special",
                            !.passed = k, !.oldArea = run.area]
<1>3. run \in Run /\ run = runs[1] /\ 1 \in 1 .. Len(runs) /\ runs \in Seq(Run)
  BY <1>1, RunsFacts
<1>c. k \in Nat
  BY FramesAssumption
<1>4. runs' = [runs EXCEPT ![1] = q]
  <2>1. runs' = [runs EXCEPT ![1].sp = low, ![1].area = area, ![1].pc = offset,
                             ![1].at = "special", ![1].passed = k, ![1].oldArea = run.area]
    BY <1>2, Zenon
  <2> HIDE DEF low, area
  <2> QED BY <1>3, <2>1
<1>5. /\ q.sp = low /\ q.area = area /\ q.proc = run.proc /\ q.env = run.env
      /\ q.at = "special" /\ q.passed = k /\ q.oldArea = run.area /\ q.pc = offset
  <2> HIDE DEF low, area
  <2> QED BY <1>3 DEF Run
<1>6. run.sp + (k + 1) <= FrameFloor(Top)
  <2>1. Temps >= k + 1
    BY <1>2, Zenon
  <2>2. k + 1 \in Nat
    BY <1>c
  <2> QED BY <1>1, <2>1, <2>2, TempsFacts
<1> HIDE DEF q
<1>7. KeepsUp(memory, memory', run.old)
  BY <1>b DEF KeepsUp
<1>8. Calls' = [Calls EXCEPT ![1] = Frames(memory', q)]
  BY <1>1, <1>4, <1>7, TopCalls
<1> DEFINE f == TopFrame(memory, run.sp)
           x == Special("special", EnvOf[run.proc], Passed(memory, q), << >>)
           y == Frame(memory, run.proc, offset, EnvOf[run.proc], run.area, low + k)
<1>9. Frames(memory', q) = <<x, y>> \o Around
  <2>1. run.env = EnvOf[run.proc] /\ Top.area = run.area /\ Top.proc = run.proc
    BY <1>1, TopFacts DEF Top
  <2>2. IsTop(q, Top)
    BY <1>5, <2>1 DEF IsTop
  <2>3. FramesForm(memory, q, Top)
    BY <2>2, FramesAre
  <2> QED BY <1>b, <1>5, <2>1, <2>3 DEF FramesForm, Around
<1>10. /\ Abstract!AfterCall(k, offset) = <<CallerOf(f, k, offset)>> \o Around
       /\ Len(f.temps) > k /\ Abstract!Top = f /\ Abstract!Running
       /\ Abstract!ArgsOf(k) = [i \in 1 .. k |-> memory[run.sp + 1 + i]]
       /\ f.env = EnvOf[run.proc] /\ Around \in Seq(OwnFrame)
  BY <1>1, <1>c, <1>6, AfterCallIs
<1>11. y = CallerOf(f, k, offset)
  <2> DEFINE b == low + k
  <2>1. b \in Int /\ b = run.sp + (k + 1)
    <3> DEFINE s == run.sp
    <3>1. s \in Int
      BY <1>1, TopFacts
    <3> HIDE DEF s
    <3>2. s + 1 + k \in Int /\ s + 1 + k = s + (k + 1)
      BY <1>c, <3>1
    <3> QED BY <3>2 DEF s
  <2>2. Agree(memory, memory, b, End(Top))
    BY DEF Agree
  <2> HIDE DEF b
  <2>3. b <= FrameFloor(Top)
    BY <1>6, <2>1
  <2>4. Frame(memory, run.proc, offset, EnvOf[run.proc], run.area, b) = CallerOf(TopFrame(memory, run.sp), k, offset)
    BY <1>1, <1>c, <2>1, <2>2, <2>3, CallerFrameIs
  <2> QED BY <2>4 DEF b
<1>12. x = Abstract!Special("special", Abstract!ArgsOf(k), Abstract!Top.env)
  <2>1. Passed(memory, q) = [i \in 1 .. k |-> memory[run.sp + 1 + i]]
    <3>1. Passed(memory, q) = [i \in 1 .. k |-> memory[area + i - 1]]
      BY <1>5 DEF Passed
    <3>2. \A i \in 1 .. k : area + i - 1 = run.sp + 1 + i
      <4> DEFINE s == run.sp
      <4>1. s \in Int
        BY <1>1, TopFacts
      <4> HIDE DEF s
      <4>2. \A i \in 1 .. k : s + 1 + 1 + i - 1 = s + 1 + i
        BY <1>c, <4>1
      <4> QED BY <4>2 DEF s
    <3> HIDE DEF area
    <3> QED BY <3>1, <3>2
  <2>2. x = Abstract!Special("special", Passed(memory, q), EnvOf[run.proc])
    BY SpecialIs
  <2> HIDE DEF f, x
  <2> QED BY <1>10, <2>1, <2>2
<1> HIDE DEF f, x, y
<1>13. <<x, y>> \o Around = <<x>> \o (<<y>> \o Around)
  <2> DEFINE S == OwnFrame \cup {x, y}
             c == Around
  <2>1. c \in Seq(OwnFrame)
    BY <1>10
  <2> HIDE DEF c
  <2>2. c \in Seq(S) /\ x \in S /\ y \in S
    BY <2>1
  <2> HIDE DEF S
  <2>3. <<x, y>> \o c = <<x>> \o (<<y>> \o c)
    BY <2>2, TwoConses
  <2> QED BY <2>3 DEF c
<1>14. Calls' = <<(<<x>> \o Abstract!AfterCall(k, offset))>> \o Tail(Calls)
  <2> DEFINE z == <<x>> \o Abstract!AfterCall(k, offset)
  <2>1. Frames(memory', q) = z
    BY <1>9, <1>10, <1>11, <1>13
  <2> HIDE DEF z
  <2>2. [Calls EXCEPT ![1] = z] = <<z>> \o Tail(Calls)
    BY <1>1, ReplaceFirst
  <2> QED BY <1>8, <2>1, <2>2 DEF z
<1> QED BY <1>b, <1>10, <1>12, <1>14, Zenon DEF Abstract!CallSpecial

\* The calls when the frames of the innermost run become <<x>> \o d.
LEMMA FirstReplaced ==
    ASSUME StackInv, runs # << >>, NEW x, NEW d, NEW S, d \in Seq(S),
           Calls' = [Calls EXCEPT ![1] = <<x>> \o d]
    PROVE  /\ Len(Calls') = Len(Calls) /\ Calls'[1] = <<x>> \o d /\ Calls'[1][1] = x
           /\ Len(Calls'[1]) = 1 + Len(d) /\ Calls' = <<(<<x>> \o d)>> \o Tail(Calls)
<1> DEFINE z == <<x>> \o d
           R == S \cup {x}
<1>1. x \in R /\ d \in Seq(R)
  OBVIOUS
<1> HIDE DEF R
<1>2. Conses(z, x, d, R)
  BY <1>1, ConsFacts
<1> HIDE DEF z
<1>3. z[1] = x /\ Len(z) = 1 + Len(d)
  BY <1>2 DEF Conses
<1>4. Calls \in Seq(Seq(OwnFrame)) /\ 1 \in 1 .. Len(Calls)
  BY RunsFacts, CallsFacts
<1>5. Len([Calls EXCEPT ![1] = z]) = Len(Calls) /\ [Calls EXCEPT ![1] = z][1] = z
  <2> DEFINE T == Seq(OwnFrame)
  <2> HIDE DEF T
  <2>1. Calls \in Seq(T)
    BY <1>4 DEF T
  <2> QED BY <1>4, <2>1
<1>6. Calls' = [Calls EXCEPT ![1] = z]
  BY DEF z
<1>7. [Calls EXCEPT ![1] = z] = <<z>> \o Tail(Calls)
  BY ReplaceFirst
<1> QED BY <1>3, <1>5, <1>6, <1>7 DEF z

\* The frames around the callee of CALL are that of its caller and those around it.
LEMMA CallAround ==
    ASSUME StackInv, runs # << >>, run.at = "instruction", NEW p \in Procedures,
           NEW offset \in Offsets, NEW area \in 3 .. StackTop, area = run.sp + 2,
           CallWrites(area, offset), NEW g, g = [area |-> area, proc |-> p],
           NEW k \in Nat, k = NumArgs[p], run.sp + (k + 1) <= FrameFloor(Top)
    PROVE  /\ Outer(memory', g) = <<CallerOf(TopFrame(memory, run.sp), k, offset)>> \o Around
           /\ KeepsUp(memory, memory', run.old)
           /\ \A i \in 1 .. k : memory'[area + i - 1] = memory[run.sp + 1 + i]
<1> DEFINE s == run.sp
           F == FrameFloor(Top)
           E == End(Top)
           A == run.area
           old == run.old
           low == End(g)
<1>1. /\ s \in Int /\ -1 <= s /\ F \in Int /\ F < A - 3 /\ A \in Nat
      /\ E \in Int /\ A - 1 <= E /\ E < old /\ old \in Nat /\ old <= StackTop
      /\ StackTop \in Nat /\ run.env = EnvOf[run.proc] /\ run.proc \in Procedures
      /\ E = A + NumArgs[run.proc] - 1 /\ Top.area = A
  BY TopFacts, Stack DEF Top
<1>2. /\ \A a \in area .. StackTop : memory'[a] = memory[a]
      /\ memory'[area - 3] = ReturnAddress(run.proc, offset)
      /\ memory'[area - 2] = Environment(run.env)
      /\ memory'[area - 1] = Area(run.area)
  BY DEF CallWrites
<1>3. g.area = area /\ g.proc = p /\ low = area + k - 1
  BY DEF End
<1>4. s + (k + 1) <= F /\ area = s + 2 /\ area \in Int /\ area >= 3 /\ area <= StackTop /\ k \in Int /\ k >= 0
  <2>1. \A b \in 3 .. StackTop : b \in Int /\ b >= 3 /\ b <= StackTop
    BY <1>1
  <2> QED BY <2>1
<1> HIDE DEF s, F, E, A, old, low
<1>a. /\ s \in Int /\ F \in Int /\ F < A - 3 /\ A \in Int /\ E \in Int /\ A - 1 <= E /\ E < old
      /\ old \in Int /\ old <= StackTop /\ StackTop \in Int /\ low = area + k - 1
      /\ s + (k + 1) <= F /\ area = s + 2 /\ area \in Int /\ area >= 3 /\ k \in Int /\ k >= 0
  BY <1>1, <1>3, <1>4, SMTT(30)
<1>5. /\ low \in Int /\ low = s + (k + 1) /\ area <= A - 3 /\ A \in area + 1 .. StackTop
      /\ A \in 0 .. StackTop
  BY ONLY <1>a
<1>6. KeepsUp(memory, memory', run.old)
  <2>1. \A a \in old + 1 .. StackTop : a \in area .. StackTop
    BY ONLY <1>a, <1>5
  <2> QED BY <1>2, <2>1 DEF KeepsUp, old
<1>7. ASSUME NEW i \in 1 .. k PROVE memory'[area + i - 1] = memory[run.sp + 1 + i]
  <2>1. area + i - 1 \in area .. StackTop /\ area + i - 1 = s + 1 + i
    <3>1. i \in 1 .. k
      OBVIOUS
    <3> QED BY ONLY <1>a, <3>1
  <2> QED BY <1>2, <2>1 DEF s
\* What was around the caller still is.
<1>8. OuterAt(memory', A, Top) = Around
  <2>1. PICK fs : Links(memory, fs, old) /\ fs[1] = Top
    BY TopFacts DEF old
  <2>2. KeepsAbove(memory, memory', Top, old)
    <3>1. \A a \in E + 1 .. old - 1 : a \in area .. StackTop
      BY ONLY <1>a
    <3> QED BY <1>2, <3>1 DEF KeepsAbove, E
  <2>3. SameChain(memory', Top, memory, Top)
    <3> SUFFICES ASSUME NEW c \in 1 .. 3 PROVE memory'[A - c] = memory[A - c]
      BY <1>1 DEF SameChain
    <3>1. A - c \in area .. StackTop
      <4>1. c \in 1 .. 3
        OBVIOUS
      <4> QED BY ONLY <1>a, <4>1
    <3> QED BY <1>2, <3>1
  <2> DEFINE t == Top
  <2>4. /\ t.area \in 0 .. StackTop /\ t.area - 1 <= End(fs[1]) /\ t.area = A
        /\ SameChain(memory', t, memory, fs[1]) /\ KeepsAbove(memory, memory', fs[1], old)
        /\ old \in 0 .. StackTop
    <3>1. t.area = A /\ A \in 0 .. StackTop /\ A - 1 <= E /\ old \in 0 .. StackTop
      BY <1>1, <1>5
    <3>2. t.area - 1 <= End(fs[1])
      BY <2>1, <3>1 DEF E
    <3> QED BY <2>1, <2>2, <2>3, <3>1, <3>2
  <2> HIDE DEF t
  <2>5. OuterAt(memory', t.area, fs[1]) = Outer(memory, fs[1])
    BY <2>1, <2>4, OuterKept
  <2> QED BY <2>1, <2>4, <2>5 DEF Around
\* Its chain leads to it.
<1> DEFINE x == <<area, low>>
<1>9. /\ x \in Places /\ x[1] = area /\ x[2] = low
      /\ memory'[x[1] - PcChain] = ReturnAddress(run.proc, offset)
      /\ memory'[x[1] - EnvChain] = Environment(run.env)
      /\ memory'[x[1] - AreaChain] = Area(run.area)
  BY <1>2, <1>5 DEF Places, PcChain, EnvChain, AreaChain
<1> HIDE DEF x
<1>10. /\ CallerProc(memory', x) = run.proc /\ CallerArea(memory', x) = A
       /\ memory'[x[1] - PcChain].count = offset /\ memory'[x[1] - EnvChain].ref = run.env
  BY <1>9 DEF CallerProc, CallerArea, ReturnAddress, Environment, Area, Slot, A
<1>11. /\ HasCaller(memory', x) /\ CallerPlace(memory', x) = <<A, E>>
       /\ CallerFrame(memory', x) = Frame(memory', run.proc, offset, run.env, A, low)
  BY <1>1, <1>5, <1>9, <1>10 DEF HasCaller, CallerPlace, CallerFrame
<1>12. Callers(memory')[x] = <<Frame(memory', run.proc, offset, run.env, A, low)>> \o Callers(memory')[<<A, E>>]
  <2>1. Callers(memory')[x] = CallersBody(memory', Callers(memory'), x)
    <3> DEFINE m == memory'
    <3> HIDE DEF m
    <3>1. Callers(m)[x] = CallersBody(m, Callers(m), x)
      BY <1>9, CallersUnfold
    <3> QED BY <3>1 DEF m
  <2> QED BY <1>11, <2>1 DEF CallersBody
<1>13. Frame(memory', run.proc, offset, run.env, A, low) = CallerOf(TopFrame(memory, run.sp), k, offset)
  <2> DEFINE n == memory'
  <2>1. Agree(memory, n, low, End(Top))
    <3> SUFFICES ASSUME NEW a \in 0 .. E, a > low PROVE n[a] = memory[a]
      BY DEF Agree, E
    <3>1. a \in area .. StackTop
      <4>1. a \in 0 .. E /\ a > low
        OBVIOUS
      <4> QED BY ONLY <1>a, <4>1
    <3> QED BY <1>2, <3>1
  <2>2. low \in Int /\ low = run.sp + (k + 1) /\ low <= FrameFloor(Top)
    BY <1>4, <1>5 DEF s, F
  <2> HIDE DEF n
  <2>3. Frame(n, run.proc, offset, EnvOf[run.proc], run.area, low) = CallerOf(TopFrame(memory, run.sp), k, offset)
    BY <2>1, <2>2, CallerFrameIs
  <2> QED BY <1>1, <2>3 DEF n, A
<1>14. Outer(memory', g) = Callers(memory')[x] /\ Callers(memory')[<<A, E>>] = Around
  BY <1>3, <1>8 DEF Outer, OuterAt, x, low, E
<1> QED BY <1>6, <1>7, <1>12, <1>13, <1>14

LEMMA CallRefines == ASSUME StackInv, Call PROVE Abstract!Call
<1>1. runs # << >> /\ run.at = "instruction"
  BY DEF Call, Executing
<1>2. PICK p \in Procedures, offset \in Offsets :
        LET sp == run.sp + 1
            area == sp + 1
        IN  /\ Temps >= NumArgs[p] + 1
            /\ Floor(area, p) >= 0
            /\ memory' = Overwrite(area - PcChain, Chain(run.proc, offset, run.env, run.area))
            /\ runs' = [runs EXCEPT ![1].sp = Floor(area, p), ![1].area = area,
                                    ![1].proc = p, ![1].pc = 0, ![1].env = EnvOf[p]]
  BY Zenon DEF Call
<1>b. result' = result
  BY DEF Call
<1> DEFINE k == NumArgs[p]
           area == run.sp + 1 + 1
           low == Floor(area, p)
           g == [area |-> area, proc |-> p]
           q == [run EXCEPT !.sp = low, !.area = area, !.proc = p, !.pc = 0, !.env = EnvOf[p]]
<1>3. /\ runs \in Seq(Run) /\ run \in Run /\ run = runs[1] /\ 1 \in 1 .. Len(runs)
      /\ k \in Nat /\ NumLocals[p] \in Nat
  BY <1>1, RunsFacts, Stack
<1>4. run.sp + (k + 1) <= FrameFloor(Top)
  <2>1. Temps >= k + 1
    BY <1>2, Zenon
  <2>2. k + 1 \in Nat
    BY <1>3
  <2> QED BY <1>1, <2>1, <2>2, TempsFacts
<1>5. low >= 0 /\ memory' = Overwrite(area - 3, Chain(run.proc, offset, run.env, run.area))
  BY <1>2, Zenon DEF PcChain
<1>6. runs' = [runs EXCEPT ![1] = q]
  <2>1. runs' = [runs EXCEPT ![1].sp = low, ![1].area = area, ![1].proc = p, ![1].pc = 0,
                             ![1].env = EnvOf[p]]
    BY <1>2, Zenon
  <2> HIDE DEF low, area
  <2> QED BY <1>3, <2>1
<1>7. /\ q.sp = low /\ q.area = area /\ q.proc = p /\ q.env = EnvOf[p] /\ q.pc = 0
      /\ q.at = "instruction" /\ g.area = area /\ g.proc = p
  <2> HIDE DEF low, area
  <2> QED BY <1>1, <1>3 DEF Run
<1>8. area \in 3 .. StackTop /\ area = run.sp + 2 /\ area \in Int
  <2> DEFINE s == run.sp
             F == FrameFloor(Top)
  <2>1. s \in Int /\ F \in Int /\ F <= StackTop /\ s + (k + 1) <= F /\ F < run.area - 3
        /\ run.area \in Nat /\ StackTop \in Nat
    BY <1>1, <1>4, TopFacts, TopTemps, Stack
  <2>2. run.area <= StackTop
    BY <1>3 DEF Run
  <2>3. low = area - 4 - NumLocals[p]
    <3>1. area \in Int
      BY <2>1
    <3> HIDE DEF area
    <3> QED BY <1>3, <3>1 DEF Floor, SlotCount
  <2>4. area = s + 2
    BY <2>1
  <2> HIDE DEF s, F, low, area, k
  <2>5. area \in 3 .. StackTop
    <3>1. /\ NumLocals[p] \in Nat /\ low >= 0 /\ k \in Nat /\ F \in Int /\ StackTop \in Nat
          /\ F <= StackTop /\ s + (k + 1) <= F /\ F < run.area - 3 /\ run.area \in Nat
          /\ run.area <= StackTop /\ s \in Int /\ low = area - 4 - NumLocals[p] /\ area = s + 2
      BY <1>3, <1>5, <2>1, <2>2, <2>3, <2>4
    <3> QED BY ONLY <3>1
  <2> QED BY <2>4, <2>5 DEF s
<1> HIDE DEF k, q, g, area
<1>9. CallWrites(area, offset)
  BY <1>1, <1>5, <1>8, CallWritten
<1> DEFINE f == TopFrame(memory, run.sp)
           d == Abstract!AfterCall(k, offset)
           x == Frame(memory', p, 0, EnvOf[p], area, low)
<1>10. /\ Outer(memory', g) = <<CallerOf(f, k, offset)>> \o Around
       /\ KeepsUp(memory, memory', run.old)
       /\ \A i \in 1 .. k : memory'[area + i - 1] = memory[run.sp + 1 + i]
  <2>1. g = [area |-> area, proc |-> p] /\ k = NumArgs[p]
    BY DEF g, k, area
  <2> QED BY <1>1, <1>3, <1>4, <1>8, <1>9, <2>1, CallAround, SMTT(30)
<1>11. /\ d = <<CallerOf(f, k, offset)>> \o Around
       /\ Len(f.temps) > k /\ Abstract!Top = f /\ Abstract!Running
       /\ Abstract!ArgsOf(k) = [i \in 1 .. k |-> memory[run.sp + 1 + i]]
       /\ Around \in Seq(OwnFrame)
  BY <1>1, <1>3, <1>4, AfterCallIs
<1>12. Frames(memory', q) = <<x>> \o d
  <2>1. IsTop(q, g)
    BY <1>7 DEF IsTop
  <2>2. FramesForm(memory', q, g)
    BY <2>1, FramesAre
  <2> HIDE DEF f, d
  <2> QED BY <1>7, <1>10, <1>11, <2>2 DEF FramesForm, f
<1>13. Calls' = [Calls EXCEPT ![1] = <<x>> \o d]
  <2>1. Calls' = [Calls EXCEPT ![1] = Frames(memory', q)]
    BY <1>1, <1>6, <1>10, TopCalls
  <2> QED BY <1>12, <2>1
<1>14. Abstract!Fresh(x, p, Abstract!ArgsOf(k))
  <2>1. x.args = [i \in 1 .. k |-> memory'[area + i - 1]]
    BY DEF Frame, k
  <2>2. x.args = Abstract!ArgsOf(k)
    <3> HIDE DEF x, f
    <3> QED BY <1>10, <1>11, <2>1
  <2> DEFINE m == memory'
             args == Abstract!ArgsOf(k)
  <2>3. args = Frame(m, p, 0, EnvOf[p], area, Floor(area, p)).args
    BY <2>2 DEF low
  <2> HIDE DEF m, args
  <2>4. Abstract!Fresh(Frame(m, p, 0, EnvOf[p], area, Floor(area, p)), p, args)
    BY <1>8, <2>3, FreshFrame
  <2> QED BY <2>4 DEF m, args, low
<1>15. Len(d) = 1 + Len(Around) /\ \E S : d \in Seq(S)
  <2> DEFINE y == CallerOf(f, k, offset)
             S == OwnFrame \cup {y}
             c == Around
  <2>1. c \in Seq(OwnFrame)
    BY <1>11
  <2> HIDE DEF c, y
  <2>2. y \in S /\ c \in Seq(S)
    BY <2>1
  <2> HIDE DEF S
  <2>3. Conses(<<y>> \o c, y, c, S)
    BY <2>2, ConsFacts
  <2>4. d = <<y>> \o c
    BY <1>11 DEF y, c
  <2> HIDE DEF d
  <2> QED BY <2>3, <2>4 DEF Conses, c
<1> HIDE DEF x, d, f, low
<1>16. Len(Calls[1]) = 1 + Len(Around)
  <2>1. CallsForm(f, Around)
    BY <1>1, RunningForm DEF f
  <2>2. Conses(<<f>> \o Around, f, Around, OwnFrame)
    BY <2>1, ConsFacts DEF CallsForm
  <2> QED BY <2>1, <2>2 DEF CallsForm, Conses
<1>17. /\ Len(Calls') = Len(Calls) /\ Calls'[1] = <<x>> \o d /\ Calls'[1][1] = x
       /\ Len(Calls'[1]) = 1 + Len(d) /\ Calls' = <<(<<x>> \o d)>> \o Tail(Calls)
  <2>1. PICK S : d \in Seq(S)
    BY <1>15
  <2> QED BY <1>1, <1>13, <2>1, FirstReplaced
<1>18. Len(Calls'[1]) = Len(Calls[1]) + 1
  <2>1. Len(Around) \in Nat
    BY <1>11
  <2> DEFINE l == Len(Around)
  <2> HIDE DEF l
  <2>2. Len(Calls'[1]) = 1 + (1 + l) /\ Len(Calls[1]) = 1 + l /\ l \in Nat
    BY <1>15, <1>16, <1>17, <2>1 DEF l
  <2> QED BY <2>2
<1>19. Len(Abstract!Top.temps) > NumArgs[p] /\ Abstract!Fresh(Calls'[1][1], p, Abstract!ArgsOf(NumArgs[p]))
       /\ Calls' = <<(<<Calls'[1][1]>> \o Abstract!AfterCall(NumArgs[p], offset))>> \o Tail(Calls)
  BY <1>11, <1>14, <1>17 DEF k, d
<1> QED BY <1>b, <1>11, <1>17, <1>18, <1>19, Zenon DEF Abstract!Call

\* The frames around a tail call are those around the procedure that makes it.
LEMMA TailAround ==
    ASSUME StackInv, runs # << >>, run.at = "instruction", NEW k \in Nat, run.sp + 1 >= 2,
           Temps >= k + 1, NEW area \in Int, area = ArgSlot(k), area >= 3, memory' = Replaced(k),
           NEW g, g.area = area, NumArgs[g.proc] = k
    PROVE  /\ Outer(memory', g) = Around /\ KeepsUp(memory, memory', run.old)
           /\ \A i \in 1 .. k : memory'[area + i - 1] = memory[run.sp + 1 + i]
           /\ area + k - 1 = End(Top)
<1> DEFINE E == End(Top)
           old == run.old
<1>1. E \in Int /\ E < old /\ old \in Nat /\ old <= StackTop /\ StackTop \in Nat
  BY TopFacts, Stack
<1>2. /\ area \in 0 .. StackTop /\ area + k - 1 = E
      /\ SameChain(memory', [area |-> area, proc |-> Null], memory, Top)
      /\ \A a \in E + 1 .. StackTop : memory'[a] = memory[a]
      /\ \A i \in 1 .. k : memory'[area + i - 1] = memory[run.sp + 1 + i]
  <2>1. /\ ArgSlot(k) \in 0 .. StackTop /\ ArgSlot(k) + k - 1 = End(Top)
        /\ SameChain(Replaced(k), [area |-> ArgSlot(k), proc |-> Null], memory, Top)
        /\ \A a \in End(Top) + 1 .. StackTop : Replaced(k)[a] = memory[a]
        /\ \A i \in 1 .. k : Replaced(k)[ArgSlot(k) + i - 1] = memory[run.sp + 1 + i]
    <3>1. ArgSlot(k) >= 3
      OBVIOUS
    <3> QED BY <3>1, ReplacedFacts, Zenon
  <2> QED BY <2>1
<1>3. End(g) = E
  BY <1>2 DEF End
<1> HIDE DEF E, old
<1>4. KeepsUp(memory, memory', run.old) /\ KeepsAbove(memory, memory', Top, old)
  <2>1. \A a \in run.old + 1 .. StackTop : a \in E + 1 .. StackTop
    BY <1>1 DEF old
  <2>2. \A a \in E + 1 .. old - 1 : a \in E + 1 .. StackTop
    BY <1>1
  <2> QED BY <1>2, <2>1, <2>2 DEF KeepsUp, KeepsAbove, E
<1>5. PICK fs : Links(memory, fs, old) /\ fs[1] = Top
  BY TopFacts DEF old
<1>6. OuterAt(memory', g.area, fs[1]) = Outer(memory, fs[1])
  <2>1. SameChain(memory', g, memory, fs[1])
    BY <1>2, <1>5 DEF SameChain
  <2>2. g.area - 1 <= End(fs[1])
    BY <1>1, <1>2, <1>5 DEF E
  <2>3. old \in 0 .. StackTop /\ KeepsAbove(memory, memory', fs[1], old)
    BY <1>1, <1>4, <1>5
  <2>4. Links(memory, fs, old) /\ g.area \in 0 .. StackTop
    BY <1>2, <1>5
  <2> QED BY ONLY <2>1, <2>2, <2>3, <2>4, OuterKept
<1>7. Outer(memory', g) = Around
  BY <1>3, <1>5, <1>6 DEF Outer, OuterAt, Around, E
<1> QED BY <1>2, <1>4, <1>7 DEF E

LEMMA TailCallRefines == ASSUME StackInv, TailCall PROVE Abstract!TailCall
<1>1. runs # << >> /\ run.at = "instruction" /\ run.sp + 1 >= 2
  BY DEF TailCall, Executing
<1>2. PICK p \in Procedures :
        LET area == ArgSlot(NumArgs[p]) IN
        /\ Temps >= NumArgs[p] + 1
        /\ Floor(area, p) >= 0
        /\ memory' = Replaced(NumArgs[p])
        /\ runs' = [runs EXCEPT ![1].sp = Floor(area, p), ![1].area = area,
                                ![1].proc = p, ![1].pc = 0, ![1].env = EnvOf[p]]
  BY Zenon DEF TailCall
<1>b. result' = result
  BY DEF TailCall
<1> DEFINE k == NumArgs[p]
           area == ArgSlot(k)
           low == Floor(area, p)
           g == [area |-> area, proc |-> p]
           q == [run EXCEPT !.sp = low, !.area = area, !.proc = p, !.pc = 0, !.env = EnvOf[p]]
<1>3. /\ runs \in Seq(Run) /\ run \in Run /\ run = runs[1] /\ 1 \in 1 .. Len(runs)
      /\ k \in Nat /\ NumLocals[p] \in Nat
  BY <1>1, RunsFacts, Stack
<1>4. Temps >= k + 1 /\ low >= 0 /\ memory' = Replaced(k)
  BY <1>2, Zenon
<1>5. run.sp + (k + 1) <= FrameFloor(Top)
  <2>1. k + 1 \in Nat
    BY <1>3
  <2> QED BY <1>1, <1>4, <2>1, TempsFacts
<1>6. runs' = [runs EXCEPT ![1] = q]
  <2>1. runs' = [runs EXCEPT ![1].sp = low, ![1].area = area, ![1].proc = p, ![1].pc = 0,
                             ![1].env = EnvOf[p]]
    BY <1>2, Zenon
  <2> HIDE DEF low, area
  <2> QED BY <1>3, <2>1
<1>7. /\ q.sp = low /\ q.area = area /\ q.proc = p /\ q.env = EnvOf[p] /\ q.pc = 0
      /\ q.at = "instruction" /\ g.area = area /\ g.proc = p
  <2> HIDE DEF low, area
  <2> QED BY <1>1, <1>3 DEF Run
<1>8. area \in Int /\ area >= 3
  <2>1. area \in Int
    <3> DEFINE x == NumArgs[run.proc]
               y == run.area
    <3>1. x \in Nat /\ y \in Nat /\ area = y + x - k
      BY <1>1, TopFacts DEF ArgSlot
    <3> HIDE DEF x, y, k, area
    <3> QED BY <1>3, <3>1
  <2> HIDE DEF area
  <2>2. low = area - 4 - NumLocals[p]
    BY <1>3, <2>1 DEF Floor, SlotCount
  <2> HIDE DEF low
  <2> QED BY <1>3, <1>4, <2>1, <2>2
<1> HIDE DEF q, g
<1> DEFINE f == TopFrame(memory, run.sp)
           x == Frame(memory', p, 0, EnvOf[p], area, low)
<1>9. /\ Outer(memory', g) = Around /\ KeepsUp(memory, memory', run.old)
      /\ \A i \in 1 .. k : memory'[area + i - 1] = memory[run.sp + 1 + i]
  <2> HIDE DEF area
  <2>1. area = ArgSlot(k) /\ NumArgs[g.proc] = k
    BY <1>7 DEF area
  <2> HIDE DEF k
  <2> QED BY <1>1, <1>3, <1>4, <1>7, <1>8, <2>1, TailAround
<1> HIDE DEF area, k
<1>10. /\ Len(f.temps) > k /\ Abstract!Top = f /\ Abstract!Running
       /\ Abstract!ArgsOf(k) = [i \in 1 .. k |-> memory[run.sp + 1 + i]]
  BY <1>1, <1>3, <1>5, AfterCallIs
<1>11. Frames(memory', q) = <<x>> \o Around
  <2>1. IsTop(q, g)
    BY <1>7 DEF IsTop
  <2>2. FramesForm(memory', q, g)
    BY <2>1, FramesAre
  <2> QED BY <1>7, <1>9, <2>2 DEF FramesForm
<1>12. Abstract!Fresh(x, p, Abstract!ArgsOf(k))
  <2>1. x.args = [i \in 1 .. k |-> memory'[area + i - 1]]
    BY DEF Frame, k
  <2>2. x.args = Abstract!ArgsOf(k)
    <3> HIDE DEF x, f
    <3> QED BY <1>9, <1>10, <2>1
  <2> DEFINE m == memory'
             args == Abstract!ArgsOf(k)
  <2>3. args = Frame(m, p, 0, EnvOf[p], area, Floor(area, p)).args
    BY <2>2 DEF low
  <2> HIDE DEF m, args
  <2>4. Abstract!Fresh(Frame(m, p, 0, EnvOf[p], area, Floor(area, p)), p, args)
    BY <1>8, <2>3, FreshFrame
  <2> QED BY <2>4 DEF m, args, low
<1> HIDE DEF x, f, low
<1>13. Calls' = [Calls EXCEPT ![1] = <<x>> \o Around]
  <2>1. Calls' = [Calls EXCEPT ![1] = Frames(memory', q)]
    BY <1>1, <1>6, <1>9, TopCalls
  <2> QED BY <1>11, <2>1
<1>14. CallsForm(f, Around)
  BY <1>1, RunningForm DEF f
<1>15. Calls' = [Calls EXCEPT ![1][1] = x]
  BY <1>13, <1>14, HeadChanged
<1>16. Len(Calls') = Len(Calls) /\ Calls'[1][1] = x
  BY <1>1, <1>13, <1>14, FirstReplaced DEF CallsForm
<1>17. /\ Len(Abstract!Top.temps) > NumArgs[p]
       /\ Abstract!Fresh(Calls'[1][1], p, Abstract!ArgsOf(NumArgs[p]))
       /\ Calls' = [Calls EXCEPT ![1][1] = Calls'[1][1]]
  BY <1>10, <1>12, <1>15, <1>16 DEF k
<1> QED BY <1>b, <1>10, <1>16, <1>17, Zenon DEF Abstract!TailCall

LEMMA TailCallSpecialRefines ==
    ASSUME StackInv, "mixedArity" \notin Operations, TailCallSpecial PROVE Abstract!TailCallSpecial
<1>1. runs # << >> /\ run.at = "instruction" /\ run.sp + 1 >= 2
  BY DEF TailCallSpecial, Executing
<1>2. PICK k \in SpecialArgs :
        LET area == ArgSlot(k)
            sp == area - SlotCount - 1
        IN  /\ Temps >= k + 1
            /\ k = NumArgs[run.proc] \/ "mixedArity" \in Operations
            /\ memory' = Replaced(k)
            /\ stackPtr' = sp
            /\ runs' = [runs EXCEPT ![1].sp = sp, ![1].area = area, ![1].pc = 0,
                                    ![1].at = "specialTail", ![1].passed = k]
  BY Zenon DEF TailCallSpecial
<1>b. result' = result
  BY DEF TailCallSpecial
<1> DEFINE area == ArgSlot(k)
           low == area - SlotCount - 1
           q == [run EXCEPT !.sp = low, !.area = area, !.pc = 0, !.at = "specialTail", !.passed = k]
<1>3. /\ runs \in Seq(Run) /\ run \in Run /\ run = runs[1] /\ 1 \in 1 .. Len(runs)
  BY <1>1, RunsFacts
<1>4. k \in Nat /\ k = NumArgs[run.proc] /\ Temps >= k + 1 /\ memory' = Replaced(k)
  BY <1>2, FramesAssumption, Zenon
<1>5. run.sp + (k + 1) <= FrameFloor(Top)
  <2>1. k + 1 \in Nat
    BY <1>4
  <2> QED BY <1>1, <1>4, <2>1, TempsFacts
<1>6. runs' = [runs EXCEPT ![1] = q]
  <2>1. runs' = [runs EXCEPT ![1].sp = low, ![1].area = area, ![1].pc = 0,
                             ![1].at = "specialTail", ![1].passed = k]
    BY <1>2, Zenon
  <2> HIDE DEF low, area
  <2> QED BY <1>3, <2>1
<1>7. /\ q.area = area /\ q.proc = run.proc /\ q.env = run.env
      /\ q.at = "specialTail" /\ q.passed = k
  <2> HIDE DEF low, area
  <2> QED BY <1>3 DEF Run
<1>8. area = run.area /\ area \in Int /\ area >= 3
  <2> DEFINE A == run.area
             F == FrameFloor(Top)
             s == run.sp
  <2>1. A \in Nat /\ area = A + k - k /\ F \in Int /\ F < A - 3 /\ s \in Int /\ -1 <= s
        /\ s + (k + 1) <= F
    BY <1>1, <1>4, <1>5, TopFacts DEF ArgSlot
  <2> HIDE DEF A, F, s, area
  <2>2. area = A /\ area \in Int /\ area >= 3
    BY <1>4, <2>1
  <2> QED BY <2>2 DEF A
<1> HIDE DEF q, area
<1> DEFINE f == TopFrame(memory, run.sp)
           x == Special("specialTail", EnvOf[run.proc], Passed(memory', q), << >>)
<1>9. /\ Outer(memory', Top) = Around /\ KeepsUp(memory, memory', run.old)
      /\ \A i \in 1 .. k : memory'[area + i - 1] = memory[run.sp + 1 + i]
  <2> DEFINE g == Top
  <2>1. g.area = area /\ NumArgs[g.proc] = k /\ area = ArgSlot(k)
    BY <1>4, <1>8 DEF Top, area
  <2> HIDE DEF g
  <2>2. /\ Outer(memory', g) = Around /\ KeepsUp(memory, memory', run.old)
        /\ \A i \in 1 .. k : memory'[area + i - 1] = memory[run.sp + 1 + i]
    BY <1>1, <1>4, <1>8, <2>1, TailAround, SMTT(30)
  <2> QED BY <2>2 DEF g
<1>10. /\ Len(f.temps) > k /\ Abstract!Top = f /\ Abstract!Running
       /\ Abstract!ArgsOf(k) = [i \in 1 .. k |-> memory[run.sp + 1 + i]]
       /\ f.env = EnvOf[run.proc]
  BY <1>1, <1>4, <1>5, AfterCallIs
<1>11. Frames(memory', q) = <<x>> \o Around
  <2>1. run.env = EnvOf[run.proc] /\ Top.area = run.area /\ Top.proc = run.proc
    BY <1>1, TopFacts DEF Top
  <2>2. IsTop(q, Top)
    BY <1>4, <1>7, <1>8, <2>1 DEF IsTop
  <2>3. FramesForm(memory', q, Top)
    BY <2>2, FramesAre
  <2> QED BY <1>7, <1>9, <2>1, <2>3 DEF FramesForm
<1>12. x = Abstract!Special("specialTail", Abstract!ArgsOf(k), Abstract!Top.env)
  <2>1. Passed(memory', q) = [i \in 1 .. k |-> memory[run.sp + 1 + i]]
    <3>1. Passed(memory', q) = [i \in 1 .. k |-> memory'[area + i - 1]]
      BY <1>7 DEF Passed
    <3> QED BY <1>9, <3>1
  <2>2. x = Abstract!Special("specialTail", Passed(memory', q), EnvOf[run.proc])
    BY SpecialIs
  <2> HIDE DEF f, x
  <2> QED BY <1>10, <2>1, <2>2
<1> HIDE DEF x, f
<1>13. Calls' = [Calls EXCEPT ![1] = <<x>> \o Around]
  <2>1. Calls' = [Calls EXCEPT ![1] = Frames(memory', q)]
    BY <1>1, <1>6, <1>9, TopCalls
  <2> QED BY <1>11, <2>1
<1>14. CallsForm(f, Around)
  BY <1>1, RunningForm DEF f
<1>15. Calls' = [Calls EXCEPT ![1][1] = x]
  BY <1>13, <1>14, HeadChanged
<1> QED BY <1>b, <1>10, <1>12, <1>15, Zenon DEF Abstract!TailCallSpecial

-----------------------------------------------------------------------------
(* Returns.                                                                *)

\* A value written below a frame's temporaries is one more of them.
LEMMA PushedFrame ==
    ASSUME NEW m \in [0 .. StackTop -> Slots], NEW n \in [0 .. StackTop -> Slots],
           NEW p \in Procedures, NEW pc, NEW e, NEW a \in Nat, a + NumArgs[p] - 1 <= StackTop,
           NEW x \in 0 .. StackTop, x <= Floor(a, p), Floor(a, p) <= StackTop,
           NEW d, Writes(m, n, x, d), NEW low \in Int, low = x - 1
    PROVE  Frame(n, p, pc, e, a, low)
              = WithTemps(Frame(m, p, pc, e, a, x), <<d>> \o Frame(m, p, pc, e, a, x).temps)
<1> DEFINE F == Floor(a, p)
<1>1. F \in Int /\ NumArgs[p] \in Nat /\ StackTop \in Nat /\ x \in Nat /\ x <= F /\ F <= StackTop
  BY Stack DEF Floor, SlotCount
<1>2. n[x] = d /\ \A y \in 0 .. StackTop : y # x => n[y] = m[y]
  BY DEF Writes
<1> HIDE DEF F
<1>3. Agree(m, n, x, StackTop)
  BY <1>1, <1>2 DEF Agree
<1>4. Frame(n, p, pc, e, a, low) = WithTemps(Frame(m, p, pc, e, a, x), Above(n, low, F))
  <2>1. Agree(m, n, Floor(a, p), StackTop) /\ -1 <= Floor(a, p)
    <3>1. Agree(m, n, F, StackTop) /\ -1 <= F
      BY <1>1, <1>3 DEF Agree
    <3> QED BY <3>1 DEF F
  <2>2. StackTop \in Int /\ x \in Int
    BY <1>1
  <2> QED BY <2>1, <2>2, TempsOnly DEF F
<1>5. Above(n, low, F) = <<n[x]>> \o Above(n, x, F)
  <2>1. low \in Int /\ -1 <= low /\ low < F /\ low + 1 = x
    BY <1>1
  <2>2. Above(n, low, F) = <<n[low + 1]>> \o Above(n, low + 1, F)
    BY <1>1, <2>1, AboveCons
  <2> QED BY <2>1, <2>2
<1>6. Above(n, x, F) = Above(m, x, F)
  <2>1. Agree(m, n, x, F)
    BY <1>1, <1>3 DEF Agree
  <2>2. x \in Int /\ -1 <= x
    BY <1>1
  <2> QED BY <1>1, <2>1, <2>2, AboveSame
<1>7. Frame(m, p, pc, e, a, x).temps = Above(m, x, F)
  BY DEF Frame, Above, F
<1> QED BY <1>2, <1>4, <1>5, <1>6, <1>7

\* What is written below the chain of a frame is not seen around it.
LEMMA OuterBelow ==
    ASSUME NEW fs, NEW old \in 0 .. StackTop, Links(memory, fs, old),
           NEW x \in 0 .. StackTop, x < fs[1].area - 3, NEW d, Writes(memory, memory', x, d)
    PROVE  Outer(memory', fs[1]) = Outer(memory, fs[1]) /\ KeepsUp(memory, memory', old)
<1> DEFINE f == fs[1]
           A == f.area
           E == End(f)
<1>1. /\ A \in Nat /\ E \in Int /\ A - 1 <= E /\ E < old /\ old \in Nat /\ old <= StackTop
      /\ StackTop \in Nat /\ f.area = A
  BY LinksFacts, Stack
<1>2. \A a \in 0 .. StackTop : a # x => memory'[a] = memory[a]
  BY DEF Writes
<1>3. x < A - 3 /\ x \in 0 .. StackTop
  OBVIOUS
<1> HIDE DEF f, A, E
<1>4. ASSUME NEW a \in old + 1 .. StackTop PROVE a \in 0 .. StackTop /\ a # x
  BY <1>1, <1>3
<1>5. ASSUME NEW a \in E + 1 .. old - 1 PROVE a \in 0 .. StackTop /\ a # x
  BY <1>1, <1>3
<1>6. ASSUME NEW c \in 1 .. 3 PROVE A - c \in 0 .. StackTop /\ A - c # x
  BY <1>1, <1>3
<1>7. KeepsUp(memory, memory', old)
  BY <1>2, <1>4 DEF KeepsUp
<1>8. KeepsAbove(memory, memory', fs[1], old)
  BY <1>2, <1>5 DEF KeepsAbove, E, f
<1>9. SameChain(memory', f, memory, fs[1])
  BY <1>1, <1>2, <1>6 DEF SameChain, f, A
<1>10. f.area \in 0 .. StackTop /\ f.area - 1 <= End(fs[1])
  <2>1. A \in 0 .. StackTop
    BY <1>1
  <2> QED BY <1>1, <2>1 DEF E, f
<1>11a. Links(memory, fs, old) /\ old \in 0 .. StackTop
  OBVIOUS
<1>11. OuterAt(memory', f.area, fs[1]) = Outer(memory, fs[1])
  BY ONLY <1>8, <1>9, <1>10, <1>11a, OuterKept
<1> QED BY <1>7, <1>11 DEF Outer, f

\* The frame below takes the value.
LEMMA GiveIs ==
    ASSUME NEW x, NEW y \in OwnFrame, NEW c \in Seq(OwnFrame), CallsForm(x, <<y>> \o c), NEW v
    PROVE  /\ Abstract!Give(v) = <<WithTemps(y, <<v>> \o y.temps)>> \o c
           /\ Len(Calls[1]) > 1
<1> DEFINE d == <<y>> \o c
           z == WithTemps(y, <<v>> \o y.temps)
           S == OwnFrame \cup {z}
           u == <<z>> \o c
           w == [d EXCEPT ![1] = z]
<1>1. x \in OwnFrame /\ d \in Seq(OwnFrame) /\ Calls[1] = <<x>> \o d
  BY DEF CallsForm
<1>2. Conses(d, y, c, OwnFrame)
  BY ConsFacts
<1> HIDE DEF d
<1>3. /\ d \in Seq(OwnFrame) /\ Len(d) = 1 + Len(c) /\ Len(c) \in Nat /\ d[1] = y
      /\ \A i \in 1 .. Len(c) : d[1 + i] = c[i]
  BY <1>2 DEF Conses
<1>4. Tail(<<x>> \o d) = d /\ Len(<<x>> \o d) = 1 + Len(d)
  BY <1>1
<1>5. Abstract!Give(v) = w
  <2>1. Abstract!Give(v) = [d EXCEPT ![1].temps = <<v>> \o @]
    BY <1>1, <1>4 DEF Abstract!Give
  <2>2. [d EXCEPT ![1].temps = <<v>> \o @] = [d EXCEPT ![1] = WithTemps(d[1], <<v>> \o d[1].temps)]
    BY DEF WithTemps
  <2> QED BY <1>3, <2>1, <2>2
<1> HIDE DEF z
<1>6. z \in S /\ c \in Seq(S) /\ d \in Seq(S)
  BY <1>3
<1> HIDE DEF S
<1>7. Conses(u, z, c, S)
  BY <1>6, ConsFacts
<1> HIDE DEF u
<1>8. u \in Seq(S) /\ Len(u) = 1 + Len(c) /\ u[1] = z /\ \A i \in 1 .. Len(c) : u[1 + i] = c[i]
  BY <1>7 DEF Conses
<1>9. w \in Seq(S) /\ Len(w) = 1 + Len(c) /\ w[1] = z /\ \A i \in 1 .. 1 + Len(c) : i # 1 => w[i] = d[i]
  BY <1>3, <1>6
<1> HIDE DEF w
<1>10. ASSUME NEW i \in 1 .. Len(w) PROVE w[i] = u[i]
  <2>1. i = 1 \/ (i - 1 \in 1 .. Len(c) /\ 1 + (i - 1) = i /\ i \in 1 .. 1 + Len(c) /\ i # 1)
    BY <1>3, <1>9
  <2> QED BY <1>3, <1>8, <1>9, <2>1
<1>11. w = u
  BY <1>8, <1>9, <1>10, SameSeq
<1>12. Len(Calls[1]) > 1
  <2> DEFINE l == Len(c)
             r == Calls[1]
  <2>1. l \in Nat /\ Len(r) = 1 + (1 + l)
    BY <1>1, <1>3, <1>4
  <2> HIDE DEF l, r
  <2>2. Len(r) > 1
    BY <2>1
  <2> QED BY <2>2 DEF r
<1> QED BY <1>5, <1>11, <1>12 DEF u, z

\* The frames of a run whose top frame is given the value d.
LEMMA GivenFrames ==
    ASSUME StackInv, NEW fs, NEW old \in 0 .. StackTop, Links(memory, fs, old),
           memory' \in [0 .. StackTop -> Slots],
           NEW x \in 0 .. StackTop, x <= FrameFloor(fs[1]), NEW d, Writes(memory, memory', x, d),
           NEW q, q.at = "instruction", IsTop(q, fs[1]), q.sp = x - 1,
           NEW y, y = Frame(memory, fs[1].proc, q.pc, EnvOf[fs[1].proc], fs[1].area, x)
    PROVE  /\ Frames(memory', q) = <<WithTemps(y, <<d>> \o y.temps)>> \o Outer(memory, fs[1])
           /\ KeepsUp(memory, memory', old)
<1> DEFINE f == fs[1]
           p == f.proc
           a == f.area
           F == Floor(a, p)
           n == memory'
           low == x - 1
<1>1. /\ p \in Procedures /\ a \in Nat /\ F \in Int /\ F < a - 3 /\ End(f) \in Int /\ End(f) < old
      /\ a - 1 <= End(f)
  <2>1. FrameFloor(f) = F
    BY DEF FrameFloor
  <2> QED BY <2>1, LinksFacts
<1>2. F <= StackTop /\ End(f) <= StackTop /\ x < a - 3 /\ low \in Int /\ x <= F
  <2> DEFINE E == End(f)
  <2>1. x <= F
    BY DEF FrameFloor
  <2>2. old \in Nat /\ old <= StackTop /\ StackTop \in Nat
    BY Stack
  <2> HIDE DEF f, a, F, E
  <2>3. F <= StackTop /\ E <= StackTop /\ x < a - 3 /\ low \in Int
    BY <1>1, <2>1, <2>2 DEF E
  <2> QED BY <2>1, <2>3 DEF E
<1>3. Outer(n, f) = Outer(memory, f) /\ KeepsUp(memory, n, old)
  BY <1>2, OuterBelow
<1>4. Frames(n, q) = <<Frame(n, p, q.pc, EnvOf[p], a, q.sp)>> \o Outer(n, f)
  <2>1. FramesForm(n, q, f)
    BY FramesAre
  <2> QED BY <2>1 DEF FramesForm
<1>5. Frame(n, p, q.pc, EnvOf[p], a, low) = WithTemps(y, <<d>> \o y.temps)
  <2>1. a + NumArgs[p] - 1 <= StackTop
    BY <1>2 DEF End
  <2>2. memory \in [0 .. StackTop -> Slots]
    BY DEF StackInv, TypeOK
  <2> DEFINE pc == q.pc
             e == EnvOf[p]
  <2>3. n \in [0 .. StackTop -> Slots] /\ Writes(memory, n, x, d) /\ low = x - 1
    OBVIOUS
  <2>4. y = Frame(memory, p, pc, e, a, x)
    OBVIOUS
  <2>5. x \in 0 .. StackTop
    OBVIOUS
  <2> HIDE DEF f, p, a, F, n, low, pc, e
  <2>6. Frame(n, p, pc, e, a, low)
          = WithTemps(Frame(memory, p, pc, e, a, x), <<d>> \o Frame(memory, p, pc, e, a, x).temps)
    BY <1>1, <1>2, <2>1, <2>2, <2>3, <2>5, PushedFrame DEF F
  <2> QED BY <2>4, <2>6 DEF pc, e
<1> QED BY <1>3, <1>4, <1>5

\* The calls when the frame below the top one is given v.
LEMMA GivenCalls ==
    ASSUME StackInv, runs # << >>, NEW x, NEW y \in OwnFrame, NEW c \in Seq(OwnFrame),
           CallsForm(x, <<y>> \o c), NEW v, NEW q, runs' = [runs EXCEPT ![1] = q],
           KeepsUp(memory, memory', run.old),
           Frames(memory', q) = <<WithTemps(y, <<v>> \o y.temps)>> \o c
    PROVE  Calls' = <<Abstract!Give(v)>> \o Tail(Calls) /\ Len(Calls[1]) > 1
<1>1. Abstract!Give(v) = <<WithTemps(y, <<v>> \o y.temps)>> \o c /\ Len(Calls[1]) > 1
  BY GiveIs
<1>2. Calls' = [Calls EXCEPT ![1] = Frames(memory', q)]
  BY TopCalls
<1> DEFINE z == <<WithTemps(y, <<v>> \o y.temps)>> \o c
<1> HIDE DEF z
<1>3. [Calls EXCEPT ![1] = z] = <<z>> \o Tail(Calls)
  BY ReplaceFirst
<1> QED BY <1>1, <1>2, <1>3 DEF z

\* A special function that has returned to a procedure it was the tail call of.
LEMMA SpecialDone ==
    ASSUME NEW e, NEW args, NEW temps
    PROVE  Special("done", e, args, temps)
              = [[Special("specialTail", e, args, << >>) EXCEPT !.kind = "done"] EXCEPT !.temps = temps]
<1> DEFINE none == << >>
           k == "specialTail"
           d == "done"
           R(x, t) == [kind |-> x, proc |-> Null, pc |-> 0, env |-> e,
                       args |-> args, locals |-> none, temps |-> t]
<1>1. Special(d, e, args, temps) = R(d, temps) /\ Special(k, e, args, none) = R(k, none)
  BY DEF Special
<1> HIDE DEF none, k, d
<1>2. [R(k, none) EXCEPT !.kind = d] = R(d, none)
  OBVIOUS
<1>3. [R(d, none) EXCEPT !.temps = temps] = R(d, temps)
  OBVIOUS
<1> HIDE DEF R
<1>4. Special(d, e, args, temps) = [[Special(k, e, args, none) EXCEPT !.kind = d] EXCEPT !.temps = temps]
  BY <1>1, <1>2, <1>3, Zenon
<1> QED BY <1>4 DEF none, k, d

\* The result of a special function is given to its caller, or waits for RETURN.
LEMMA SpecialReturnsRefines == ASSUME StackInv, SpecialReturns PROVE Abstract!SpecialReturns
<1>1. runs # << >> /\ run.at \in {"special", "specialTail"} /\ result' = result
  BY DEF SpecialReturns
<1>2. PICK value \in {Datum(v) : v \in Values} \cup {result} :
        \/ /\ run.at = "special"
           /\ LET sp == run.sp + run.passed - 1 IN
                 /\ memory' = [memory EXCEPT ![sp + 1] = value]
                 /\ runs' = [runs EXCEPT ![1].sp = sp, ![1].area = run.oldArea,
                                         ![1].at = "instruction",
                                         ![1].passed = 0, ![1].oldArea = Null]
        \/ /\ run.at = "specialTail"
           /\ memory' = [memory EXCEPT ![run.sp] = value]
           /\ runs' = [runs EXCEPT ![1].sp = run.sp - 1, ![1].at = "return"]
  BY Zenon DEF SpecialReturns
<1>3. /\ memory \in [0 .. StackTop -> Slots] /\ runs \in Seq(Run) /\ run \in Run
      /\ run = runs[1] /\ 1 \in 1 .. Len(runs) /\ result \in Datums
  BY <1>1, RunsFacts DEF StackInv, TypeOK, Datums
<1>4. value \in Slots
  BY <1>3, Stack DEF Datums
<1>5. PICK fs : Links(memory, fs, run.old) /\ AtInv(memory, run, fs[1])
  BY <1>1, TopLinks
<1> DEFINE f == fs[1]
           sp == run.sp
           n == run.passed
           F == FrameFloor(f)
           E == End(f)
           A == f.area
           old == run.old
           outer == Outer(memory, f)
<1>6. /\ F \in Int /\ E \in Int /\ A \in Nat /\ F < A - 3 /\ A - 1 <= E /\ E < old
  BY <1>3, <1>5, RunFacts, LinksFacts
<1>7. /\ sp \in Int /\ n \in Nat /\ old \in Nat /\ old <= StackTop /\ StackTop \in Nat
  BY <1>3, RunFacts, Stack
<1>8. /\ run.proc = f.proc /\ run.env = EnvOf[f.proc]
      /\ run.at = "special" => run.oldArea = A /\ sp >= 0 /\ sp + n <= F
      /\ run.at = "specialTail" => run.area = A /\ sp = A - 3 - 1 /\ sp >= 1 /\ n = NumArgs[run.proc]
  BY <1>5 DEF AtInv, SlotCount
<1>9. ASSUME NEW x \in 0 .. StackTop, memory' = [memory EXCEPT ![x] = value]
      PROVE  memory' \in [0 .. StackTop -> Slots] /\ Writes(memory, memory', x, value)
  BY <1>3, <1>4, <1>9 DEF Writes
<1>10. CASE run.at = "special"
  <2> DEFINE low == run.sp + run.passed - 1
             x == run.sp + run.passed
             q == [run EXCEPT !.sp = low, !.area = run.oldArea, !.at = "instruction",
                              !.passed = 0, !.oldArea = Null]
             caller == Frame(memory, f.proc, run.pc, EnvOf[f.proc], A, x)
             special == Special("special", EnvOf[f.proc], Passed(memory, run), << >>)
  <2>1. /\ memory' = [memory EXCEPT ![low + 1] = value]
        /\ runs' = [runs EXCEPT ![1].sp = low, ![1].area = run.oldArea, ![1].at = "instruction",
                                ![1].passed = 0, ![1].oldArea = Null]
    BY <1>2, <1>10, Zenon
  <2>2. low = x - 1 /\ low + 1 = x /\ x \in 0 .. StackTop /\ x <= F
    <3>1. low = sp + n - 1 /\ x = sp + n
      OBVIOUS
    <3> HIDE DEF f, sp, n, F, E, A, old, low, x
    <3>2. sp >= 0 /\ sp + n <= F
      BY <1>8, <1>10
    <3> QED BY ONLY <1>6, <1>7, <3>1, <3>2
  <2> HIDE DEF low
  <2>3. runs' = [runs EXCEPT ![1] = q]
    BY <1>3, <2>1
  <2>4. /\ q.sp = low /\ q.area = A /\ q.proc = run.proc /\ q.env = run.env
        /\ q.at = "instruction" /\ q.pc = run.pc
    BY <1>3, <1>8, <1>10 DEF Run
  <2> HIDE DEF q, x
  <2>5. memory' \in [0 .. StackTop -> Slots] /\ Writes(memory, memory', x, value)
    BY <1>9, <2>1, <2>2
  <2>6. IsTop(q, fs[1])
    BY <1>8, <2>4 DEF IsTop
  <2>7. /\ CallsForm(special, <<caller>> \o outer) /\ caller \in OwnFrame
        /\ outer \in Seq(OwnFrame)
    BY <1>1, <1>5, <1>10, WaitingForm DEF x
  <2>8. caller = Frame(memory, fs[1].proc, q.pc, EnvOf[fs[1].proc], fs[1].area, x)
    BY <2>4
  <2> DEFINE y == caller
  <2> HIDE DEF y
  <2>9. /\ Frames(memory', q) = <<WithTemps(y, <<value>> \o y.temps)>> \o Outer(memory, fs[1])
        /\ KeepsUp(memory, memory', run.old)
    <3>1. y = Frame(memory, fs[1].proc, q.pc, EnvOf[fs[1].proc], fs[1].area, x)
      BY <2>8 DEF y
    <3>2. run.old \in 0 .. StackTop /\ q.sp = x - 1 /\ x <= FrameFloor(fs[1])
      BY <1>7, <2>2, <2>4
    <3>3. StackInv
      OBVIOUS
    <3> QED BY ONLY <1>5, <2>2, <2>4, <2>5, <2>6, <3>1, <3>2, <3>3, GivenFrames
  <2> DEFINE c == outer
             s == special
  <2>10. CallsForm(s, <<y>> \o c) /\ y \in OwnFrame /\ c \in Seq(OwnFrame)
    BY <2>7 DEF y
  <2>11. Frames(memory', q) = <<WithTemps(y, <<value>> \o y.temps)>> \o c
    BY <2>9
  <2>12. s.kind = "special"
    BY SpecialIs
  <2> HIDE DEF c, s
  <2>13. Calls' = <<Abstract!Give(value)>> \o Tail(Calls)
    BY <1>1, <2>3, <2>9, <2>10, <2>11, GivenCalls
  <2>14. Calls # << >> /\ Abstract!Top.kind = "special"
    BY <2>10, <2>12 DEF CallsForm
  <2> QED BY <1>1, <2>13, <2>14, Zenon DEF Abstract!SpecialReturns
<1>11. CASE run.at = "specialTail"
  <2> DEFINE q == [run EXCEPT !.sp = run.sp - 1, !.at = "return"]
             x == Special("specialTail", EnvOf[f.proc], Passed(memory, run), << >>)
             y == Special("done", EnvOf[f.proc], Passed(memory, run), <<value>>)
  <2>1. /\ memory' = [memory EXCEPT ![run.sp] = value]
        /\ runs' = [runs EXCEPT ![1].sp = run.sp - 1, ![1].at = "return"]
    BY <1>2, <1>11, Zenon
  <2>2. runs' = [runs EXCEPT ![1] = q]
    BY <1>3, <2>1
  <2>3. /\ q.sp = sp - 1 /\ q.area = A /\ q.proc = run.proc /\ q.env = run.env
        /\ q.at = "return" /\ q.passed = n
    BY <1>3, <1>8, <1>11 DEF Run
  <2> HIDE DEF q
  <2>4. sp \in 0 .. StackTop /\ sp < A - 3 /\ sp - 1 + 1 = sp
    <3> HIDE DEF f, sp, n, F, E, A, old
    <3> QED BY <1>6, <1>7, <1>8, <1>11
  <2>5. memory' \in [0 .. StackTop -> Slots] /\ Writes(memory, memory', sp, value)
    BY <1>9, <2>1, <2>4
  <2>6. Outer(memory', f) = outer /\ KeepsUp(memory, memory', run.old)
    BY <1>5, <1>7, <2>4, <2>5, OuterBelow
  <2>7. IsTop(q, f)
    BY <1>8, <1>11, <2>3 DEF IsTop
  <2>8. Frames(memory', q) = <<Special("done", EnvOf[f.proc], Passed(memory', q), <<memory'[q.sp + 1]>>)>> \o outer
    <3>1. FramesForm(memory', q, f)
      BY <2>7, FramesAre
    <3> QED BY <2>3, <2>6, <3>1 DEF FramesForm
  <2>9. memory'[q.sp + 1] = value
    BY <2>3, <2>4, <2>5 DEF Writes
  <2>10. Passed(memory', q) = Passed(memory, run)
    <3>1. \A i \in 1 .. n : A + i - 1 \in 0 .. StackTop /\ A + i - 1 # sp
      <4>1. E = A + n - 1
        BY <1>8, <1>11 DEF End
      <4> HIDE DEF f, sp, n, F, E, A, old
      <4> QED BY <1>6, <1>7, <2>4, <4>1
    <3>2. \A i \in 1 .. n : memory'[A + i - 1] = memory[A + i - 1]
      BY <2>5, <3>1 DEF Writes
    <3>3. Passed(memory', q) = [i \in 1 .. n |-> memory'[A + i - 1]]
      BY <2>3 DEF Passed
    <3>4. Passed(memory, run) = [i \in 1 .. n |-> memory[A + i - 1]]
      BY <1>8, <1>11 DEF Passed
    <3> HIDE DEF n, A
    <3> QED BY <3>2, <3>3, <3>4
  <2>11. Calls' = [Calls EXCEPT ![1] = <<y>> \o outer]
    <3>1. Calls' = [Calls EXCEPT ![1] = Frames(memory', q)]
      BY <1>1, <2>2, <2>6, TopCalls
    <3> QED BY <2>8, <2>9, <2>10, <3>1
  <2>12. CallsForm(x, outer)
    BY <1>1, <1>5, <1>11, WaitingForm
  <2>13. x.kind = "specialTail" /\ y = [[x EXCEPT !.kind = "done"] EXCEPT !.temps = <<value>>]
    <3> HIDE DEF f
    <3>1. y = [[x EXCEPT !.kind = "done"] EXCEPT !.temps = <<value>>]
      BY SpecialDone, Zenon
    <3>2. x.kind = "specialTail"
      BY SpecialIs
    <3> QED BY <3>1, <3>2, Zenon
  <2> HIDE DEF x, y, outer
  <2>14. Calls' = [Calls EXCEPT ![1][1] = y]
    BY <2>11, <2>12, HeadChanged
  <2>15. Calls' = [Calls EXCEPT ![1][1].kind = "done", ![1][1].temps = <<value>>]
    <3>1. Calls[1][1] = x /\ 1 \in DOMAIN Calls /\ 1 \in DOMAIN Calls[1]
      <4>1. Calls \in Seq(Seq(OwnFrame)) /\ 1 \in 1 .. Len(Calls) /\ Calls[1][1] = x
        BY <2>12 DEF CallsForm, Abstract!Top
      <4>2. Calls[1] = <<x>> \o outer /\ x \in OwnFrame /\ outer \in Seq(OwnFrame)
        BY <2>12 DEF CallsForm
      <4>3. 1 \in DOMAIN (<<x>> \o outer)
        BY <4>2
      <4> DEFINE R == Seq(OwnFrame)
      <4> HIDE DEF R
      <4>4. Calls \in Seq(R)
        BY <4>1 DEF R
      <4>5. 1 \in DOMAIN Calls
        BY <4>1, <4>4
      <4> QED BY <4>1, <4>2, <4>3, <4>5
    <3> DEFINE u == [Calls EXCEPT ![1][1].kind = "done"]
    <3>2. [Calls EXCEPT ![1][1].kind = "done", ![1][1].temps = <<value>>] = [u EXCEPT ![1][1].temps = <<value>>]
      OBVIOUS
    <3>3. u = [Calls EXCEPT ![1][1] = [x EXCEPT !.kind = "done"]]
      BY <3>1
    <3> DEFINE k == [x EXCEPT !.kind = "done"]
    <3> HIDE DEF k, u
    <3>4. u = [Calls EXCEPT ![1][1] = k]
      BY <3>3 DEF k
    <3>5. [[Calls EXCEPT ![1][1] = k] EXCEPT ![1][1].temps = <<value>>]
            = [Calls EXCEPT ![1][1] = [k EXCEPT !.temps = <<value>>]]
      BY <3>1
    <3>6. y = [k EXCEPT !.temps = <<value>>]
      BY <2>13 DEF k
    <3> QED BY <2>14, <3>2, <3>4, <3>5, <3>6
  <2>16. Calls # << >> /\ Abstract!Top.kind = "specialTail"
    BY <2>12, <2>13 DEF CallsForm
  <2> QED BY <1>1, <2>15, <2>16, Zenon DEF Abstract!SpecialReturns
<1> QED BY <1>1, <1>10, <1>11

\* What RETURN returns is the topmost temporary.
LEMMA ReturnTop ==
    ASSUME StackInv, runs # << >>, run.at = "return" \/ (run.at = "instruction" /\ Temps >= 1),
           NEW fs, Links(memory, fs, run.old), AtInv(memory, run, fs[1])
    PROVE  \E x : /\ CallsForm(x, Outer(memory, fs[1])) /\ x.kind \in {"procedure", "done"}
                  /\ x.temps # << >> /\ x.temps[1] = memory[run.sp + 1]
<1>1. CASE run.at = "return"
  <2> DEFINE p == fs[1].proc
             t == <<memory[run.sp + 1]>>
             x == Special("done", EnvOf[p], Passed(memory, run), t)
  <2>1. CallsForm(x, Outer(memory, fs[1]))
    BY <1>1, WaitingForm
  <2>2. x.kind = "done" /\ x.temps = t
    <3> HIDE DEF t, p
    <3> QED BY SpecialIs
  <2>3. t # << >> /\ t[1] = memory[run.sp + 1]
    OBVIOUS
  <2> HIDE DEF x, t
  <2>4. x.temps # << >> /\ x.temps[1] = memory[run.sp + 1] /\ x.kind \in {"procedure", "done"}
    BY <2>2, <2>3
  <2> QED BY <2>1, <2>4, Zenon
<1>2. CASE run.at = "instruction" /\ Temps >= 1
  <2> DEFINE x == TopFrame(memory, run.sp)
  <2>1. fs[1] = Top
    <3>1. fs[1].area = run.area /\ fs[1].proc = run.proc
      BY <1>2 DEF AtInv
    <3>2. fs[1] \in FrameType
      <4>1. run.old \in 0 .. StackTop
        BY RunsFacts, RunFacts
      <4> QED BY <4>1, LinksFacts
    <3> QED BY <3>1, <3>2 DEF Top, FrameType
  <2>2. CallsForm(x, Outer(memory, fs[1]))
    BY <1>2, <2>1, RunningForm DEF Around
  <2>3. run.sp + 1 <= FrameFloor(Top)
    BY <1>2, TempsFacts
  <2>4. /\ x.temps = Above(memory, run.sp, FrameFloor(Top)) /\ FrameFloor(Top) <= StackTop
        /\ memory \in [0 .. StackTop -> Slots] /\ run.sp \in Int /\ -1 <= run.sp
        /\ FrameFloor(Top) \in Int
    BY <1>2, TopTemps, TopFacts
  <2>5. x.kind = "procedure"
    BY DEF TopFrame, Frame
  <2> DEFINE s == run.sp
             F == FrameFloor(Top)
  <2>6. s \in Int /\ -1 <= s /\ F \in Int /\ F <= StackTop /\ s + 1 <= F
    BY <2>3, <2>4
  <2>7. x.temps = Above(memory, s, F)
    BY <2>4
  <2> HIDE DEF x, s, F
  <2>8. s < F
    BY ONLY <2>6
  <2>9. Above(memory, s, F) # << >> /\ Above(memory, s, F)[1] = memory[s + 1]
    BY <2>4, <2>6, <2>8, AboveCons
  <2>10. x.temps # << >> /\ x.temps[1] = memory[run.sp + 1] /\ x.kind \in {"procedure", "done"}
    BY <2>5, <2>7, <2>9 DEF s
  <2> QED BY <2>2, <2>10, Zenon
<1> QED BY <1>1, <1>2

LEMMA ReturnRefines == ASSUME StackInv, Return PROVE Abstract!Return
<1> DEFINE lo == run.area + NumArgs[run.proc] - 2
           value == memory[run.sp + 1]
           return == memory[run.area - PcChain]
           A == run.area
           old == run.old
<1>1. runs # << >> /\ (run.at = "return" \/ (run.at = "instruction" /\ Temps >= 1))
  BY Zenon DEF Return
<1>2. /\ memory' = [memory EXCEPT ![lo + 1] = value]
      /\ \/ /\ return.ref # Null
            /\ runs' = [runs EXCEPT
                          ![1].sp = lo, ![1].proc = return.ref, ![1].pc = return.count,
                          ![1].area = memory[run.area - AreaChain].ref,
                          ![1].env = memory[run.area - EnvChain].ref,
                          ![1].at = "instruction", ![1].passed = 0]
            /\ UNCHANGED <<stackPtr, result>>
         \/ /\ return.ref = Null
            /\ runs' = Tail(runs)
            /\ stackPtr' = run.old
            /\ result' = value
  BY Zenon DEF Return
<1>3. /\ memory \in [0 .. StackTop -> Slots] /\ runs \in Seq(Run) /\ run \in Run
      /\ run = runs[1] /\ 1 \in 1 .. Len(runs)
  BY <1>1, RunsFacts DEF StackInv, TypeOK
<1>4. PICK fs : Links(memory, fs, run.old) /\ AtInv(memory, run, fs[1])
  BY <1>1, TopLinks
<1>5. PICK x : /\ CallsForm(x, Outer(memory, fs[1])) /\ x.kind \in {"procedure", "done"}
               /\ x.temps # << >> /\ x.temps[1] = memory[run.sp + 1]
  BY <1>1, <1>4, ReturnTop
<1> DEFINE f == fs[1]
           E == End(f)
<1>6. /\ E \in Int /\ A \in Nat /\ f.area = A /\ f.proc = run.proc /\ A - 1 <= E /\ E < old
      /\ old \in Nat /\ old <= StackTop /\ StackTop \in Nat /\ old \in 0 .. StackTop /\ A >= 3
  <2>1. /\ E \in Int /\ f.area \in Nat /\ f.area - 1 <= E /\ E < old
        /\ FrameFloor(f) \in Int /\ -1 <= FrameFloor(f) /\ FrameFloor(f) < f.area - 3
    BY <1>3, <1>4, RunFacts, LinksFacts
  <2>2. f.area = A /\ f.proc = run.proc
    BY <1>1, <1>4 DEF AtInv
  <2>3. old \in Nat /\ old <= StackTop /\ StackTop \in Nat /\ old \in 0 .. StackTop
    BY <1>3, RunFacts, Stack
  <2>4. A >= 3
    <3> DEFINE F == FrameFloor(f)
    <3>1. F \in Int /\ -1 <= F /\ F < A - 3 /\ A \in Nat
      BY <2>1, <2>2
    <3> HIDE DEF F, A
    <3> QED BY ONLY <3>1
  <2> QED BY <2>1, <2>2, <2>3, <2>4
<1>7. lo + 1 = E /\ lo = E - 1
  <2> DEFINE y == NumArgs[run.proc]
  <2>1. E = A + y - 1 /\ lo = A + y - 2 /\ y \in Nat
    BY <1>3, <1>6, RunFacts DEF End
  <2> HIDE DEF y, A, E, lo
  <2> QED BY <1>6, <2>1
<1>8. E \in 0 .. StackTop
  <2> HIDE DEF A, E, old
  <2> QED BY ONLY <1>6
<1>9. memory' = [memory EXCEPT ![E] = value]
  <2>1. memory' = [memory EXCEPT ![lo + 1] = value]
    BY <1>2, Zenon
  <2> HIDE DEF lo, E, value
  <2> QED BY <1>7, <2>1
<1>10. memory' \in [0 .. StackTop -> Slots]
  <2>1. StackInv'
    BY ReturnStep
  <2> QED BY <2>1 DEF StackInv, TypeOK
<1>11. Writes(memory, memory', E, value)
  <2> HIDE DEF E, value
  <2> QED BY <1>3, <1>8, <1>9 DEF Writes
<1>12. KeepsUp(memory, memory', run.old)
  <2> HIDE DEF E, value, old
  <2>1. \A a \in old + 1 .. StackTop : a \in 0 .. StackTop /\ a # E
    BY <1>6
  <2>2. \A a \in old + 1 .. StackTop : memory'[a] = memory[a]
    BY <1>11, <2>1 DEF Writes
  <2> QED BY <2>2 DEF KeepsUp, old
<1>13. Calls # << >> /\ Abstract!Top = x
  BY <1>5 DEF CallsForm
<1> HIDE DEF lo
<1>14. CASE Len(fs) > 1
  <2> DEFINE g == fs[2]
             q == [run EXCEPT !.sp = lo, !.proc = return.ref, !.pc = return.count,
                              !.area = memory[run.area - AreaChain].ref,
                              !.env = memory[run.area - EnvChain].ref,
                              !.at = "instruction", !.passed = 0]
  <2>1. Links(memory, Tail(fs), run.old) /\ Tail(fs)[1] = g /\ 2 \in 2 .. Len(fs) /\ 2 \in 1 .. Len(fs)
    <3>1. 2 \in 2 .. Len(fs) => 2 \in 1 .. Len(fs)
      BY <1>4, <1>6, LinksFacts
    <3> QED BY <1>4, <1>6, <1>14, <3>1, LinksTail
  <2>2. g \in FrameType /\ E <= FrameFloor(g) /\ g.proc \in Procedures /\ Linked(memory, f, g)
    <3>1. g \in FrameType /\ E <= FrameFloor(g) /\ g.proc \in Procedures
      BY <1>4, <1>6, <2>1, LinksFacts, SMTT(30)
    <3>2. Linked(memory, fs[2 - 1], fs[2])
      BY <1>4, <2>1 DEF Links
    <3> QED BY <3>1, <3>2
  <2>3. CallerIsNext(memory, fs, 2)
    BY <1>4, <1>6, <2>1, CallersNext
  <2>4. PICK offset \in Offsets :
           /\ memory[f.area - PcChain] = ReturnAddress(g.proc, offset)
           /\ Callers(memory)[<<f.area, End(f)>>]
                 = <<Frame(memory, g.proc, offset, EnvOf[g.proc], g.area, E)>>
                   \o Callers(memory)[<<g.area, End(g)>>]
    <3>1. 2 - 1 = 1
      OBVIOUS
    <3> QED BY <2>3, <3>1, Zenon DEF CallerIsNext
  <2> DEFINE y == Frame(memory, g.proc, offset, EnvOf[g.proc], g.area, E)
             c == Outer(memory, g)
  <2>5. Outer(memory, f) = <<y>> \o c
    BY <2>4 DEF Outer, OuterAt
  <2>6. /\ return.ref = g.proc /\ return.count = offset
        /\ memory[run.area - EnvChain].ref = EnvOf[g.proc]
        /\ memory[run.area - AreaChain].ref = g.area
    BY <1>6, <2>2, <2>4 DEF Linked, ReturnAddress, Environment, Area, Slot
  <2>7. return.ref # Null
    BY <2>2, <2>6, Stack
  <2>8. /\ runs' = [runs EXCEPT
                      ![1].sp = lo, ![1].proc = return.ref, ![1].pc = return.count,
                      ![1].area = memory[run.area - AreaChain].ref,
                      ![1].env = memory[run.area - EnvChain].ref,
                      ![1].at = "instruction", ![1].passed = 0]
        /\ result' = result
    BY <1>2, <2>7, Zenon
  <2>9. runs' = [runs EXCEPT ![1] = q]
    <3> HIDE DEF return
    <3> QED BY <1>3, <2>8
  <2>10. /\ q.sp = lo /\ q.proc = g.proc /\ q.pc = offset /\ q.area = g.area /\ q.env = EnvOf[g.proc]
         /\ q.at = "instruction"
    <3> HIDE DEF return, g
    <3> QED BY <1>3, <2>6 DEF Run
  <2> HIDE DEF q
  <2>11. IsTop(q, Tail(fs)[1])
    BY <2>1, <2>10 DEF IsTop
  <2> DEFINE gs == Tail(fs)
  <2>12. /\ Frames(memory', q) = <<WithTemps(y, <<value>> \o y.temps)>> \o c
    <3>1. y = Frame(memory, gs[1].proc, q.pc, EnvOf[gs[1].proc], gs[1].area, E)
      BY <2>1, <2>10
    <3>2. /\ Links(memory, gs, run.old) /\ run.old \in 0 .. StackTop /\ E <= FrameFloor(gs[1])
          /\ q.sp = E - 1 /\ q.at = "instruction" /\ IsTop(q, gs[1])
      BY <1>6, <1>7, <2>1, <2>2, <2>10, <2>11
    <3>3. StackInv
      OBVIOUS
    <3>4. c = Outer(memory, gs[1])
      BY <2>1
    <3> HIDE DEF y, gs, c, E, value
    <3> QED BY ONLY <1>8, <1>10, <1>11, <3>1, <3>2, <3>3, <3>4, GivenFrames
  <2>13. y \in OwnFrame /\ c \in Seq(OwnFrame)
    <3>1. run.old \in 0 .. StackTop
      BY <1>6
    <3>2. Outer(memory, f) \in Seq(OwnFrame)
      BY <1>5 DEF CallsForm
    <3>3. c \in Seq(OwnFrame)
      <4>1. CallersInv(memory, fs, run.old, 2)
        BY <1>3, <1>4, <2>1, <3>1, CallersFacts
      <4> QED BY <4>1 DEF CallersInv, Outer, OuterAt
    <3>4. y \in OwnFrame
      <4> HIDE DEF y, c
      <4> DEFINE S == OwnFrame \cup {y}
      <4>1. y \in S /\ c \in Seq(S)
        BY <3>3
      <4> HIDE DEF S
      <4>2. Conses(<<y>> \o c, y, c, S)
        BY <4>1, ConsFacts
      <4>3. (<<y>> \o c)[1] = y /\ Len(<<y>> \o c) = 1 + Len(c) /\ Len(c) \in Nat
        BY <3>3, <4>2 DEF Conses
      <4> DEFINE d == <<y>> \o c
      <4>4. d \in Seq(OwnFrame) /\ d[1] = y /\ Len(d) = 1 + Len(c)
        BY <2>5, <3>2, <4>3
      <4> HIDE DEF d
      <4>5. d[1] \in OwnFrame
        BY <4>3, <4>4
      <4> QED BY <4>4, <4>5
    <3> QED BY <3>3, <3>4
  <2>14. CallsForm(x, <<y>> \o c)
    BY <1>5, <2>5
  <2> HIDE DEF y, c, value
  <2>15. Calls' = <<Abstract!Give(value)>> \o Tail(Calls) /\ Len(Calls[1]) > 1
    BY <1>1, <1>12, <2>9, <2>12, <2>13, <2>14, GivenCalls
  <2>16. x.temps[1] = value
    BY <1>5 DEF value
  <2>17. Calls' = <<Abstract!Give(Abstract!Top.temps[1])>> \o Tail(Calls)
    BY <1>13, <2>15, <2>16
  <2> QED BY <1>5, <1>13, <2>8, <2>15, <2>17 DEF Abstract!Return
<1>15. CASE Len(fs) = 1
  <2>1. memory[run.area - PcChain] = ReturnAddress(Null, Null)
    BY <1>4, <1>6, <1>15 DEF Links
  <2>2. return.ref = Null
    BY <2>1 DEF ReturnAddress, Slot
  <2>3. runs' = Tail(runs) /\ result' = value
    BY <1>2, <2>2, Zenon
  <2>4. Calls' = Tail(Calls)
    BY <1>1, <1>12, <2>3, PopCalls
  <2>5. Outer(memory, f) = << >>
    <3>1. Callers(memory)[<<fs[Len(fs)].area, End(fs[Len(fs)])>>] = << >>
      BY <1>4, <1>6, CallersLast
    <3> QED BY <1>15, <3>1 DEF Outer, OuterAt
  <2>6. Calls[1] = <<x>>
    BY <1>5, <2>5, AloneFrame DEF CallsForm
  <2>7. ~(Len(Calls[1]) > 1)
    BY <2>6
  <2>8. result' = Abstract!Top.temps[1]
    BY <1>5, <1>13, <2>3
  <2> QED BY <1>5, <1>13, <2>4, <2>7, <2>8 DEF Abstract!Return
<1>16. Len(fs) > 1 \/ Len(fs) = 1
  <2> DEFINE l == Len(fs)
  <2>1. l \in Nat /\ 1 \in 1 .. l
    BY <1>4, <1>6, LinksFacts
  <2> HIDE DEF l
  <2>2. l > 1 \/ l = 1
    BY <2>1
  <2> QED BY <2>2 DEF l
<1> QED BY <1>14, <1>15, <1>16

-----------------------------------------------------------------------------
(* The refinement.                                                         *)

LEMMA InitRefines == Init => Abstract!Init
<1> SUFFICES ASSUME Init PROVE Abstract!Init
  OBVIOUS
<1>1. runs = << >> /\ result = Datum(0)
  BY DEF Init
<1>2. Calls = << >>
  <2>1. DOMAIN runs = {}
    BY <1>1
  <2> QED BY <2>1 DEF Calls
<1>3. result \in {Datum(v) : v \in Values}
  BY <1>1, FramesAssumption
<1> QED BY <1>2, <1>3 DEF Abstract!Init

LEMMA StepRefines == ASSUME Sound, StackInv, [Next]_vars PROVE [Abstract!Next]_(Abstract!vars)
<1> SUFFICES Abstract!Next \/ (Calls' = Calls /\ result' = result)
  BY DEF Abstract!vars
<1>1. CASE EnterRun
  BY <1>1, EnterRunRefines DEF Abstract!Next
<1>2. CASE ApplyProcedure
  BY <1>2, ApplyProcedureRefines DEF Sound, Abstract!Next
<1>3. CASE PushValue
  BY <1>3, PushValueRefines DEF Abstract!Next
<1>4. CASE LoadSlot
  BY <1>4, LoadSlotRefines DEF Abstract!Next
<1>5. CASE StoreSlot
  BY <1>5, StoreSlotRefines DEF Abstract!Next
<1>6. CASE Pop
  BY <1>6, PopRefines DEF Abstract!Next
<1>7. CASE Binop
  BY <1>7, BinopRefines DEF Abstract!Next
<1>8. CASE LoadString
  BY <1>8, LoadStringRefines
<1>9. CASE PushString
  BY <1>9, PushStringRefines DEF Abstract!Next
<1>10. CASE Call
  BY <1>10, CallRefines DEF Abstract!Next
<1>11. CASE CallSpecial
  BY <1>11, CallSpecialRefines DEF Abstract!Next
<1>12. CASE TailCall
  BY <1>12, TailCallRefines DEF Abstract!Next
<1>13. CASE TailCallSpecial
  BY <1>13, TailCallSpecialRefines DEF Sound, Abstract!Next
<1>14. CASE SpecialReturns
  BY <1>14, SpecialReturnsRefines DEF Abstract!Next
<1>15. CASE Return
  BY <1>15, ReturnRefines DEF Abstract!Next
<1>16. CASE UNCHANGED vars
  BY <1>16 DEF vars, Calls
<1> QED BY <1>1, <1>2, <1>3, <1>4, <1>5, <1>6, <1>7, <1>8, <1>9, <1>10, <1>11, <1>12, <1>13,
           <1>14, <1>15, <1>16 DEF Next

\* The stack of vm.c keeps the promise of CallStack, however deep the calls and the
\* runs are nested: every procedure finds its arguments, locals and temporaries as it
\* left them, its calls return to it, and a tail call replaces its frame.
THEOREM MachineImplementsCallStack == Sound => (Spec => ImplementsCallStack)
<1> SUFFICES ASSUME Sound PROVE Spec => ImplementsCallStack
  OBVIOUS
<1>1. StackInv /\ [Next]_vars => [Abstract!Next]_(Abstract!vars)
  BY StepRefines
<1>2. Spec => []StackInv
  BY StackIsKept
<1> QED BY <1>1, <1>2, InitRefines, PTL DEF Spec, ImplementsCallStack, Abstract!Spec

==============================================================================
