---------------------------- MODULE VmStack_proofs ----------------------------
(***************************************************************************)
(* Proofs about the evaluation stack of vm.c, for programs in which a tail *)
(* call to a special function passes as many arguments as its caller has   *)
(* and evil_apply is given procedures of the environment it is called in.  *)
(***************************************************************************)
EXTENDS VmStack, Induction

Datums == {Datum(v) : v \in Values}

\* The last argument of a frame.
End(f) == f.area + NumArgs[f.proc] - 1

FrameFloor(f) == Floor(f.area, f.proc)

FrameType == [area : 0 .. StackTop, proc : Procedures]

\* The chain below the arguments of frame f leads back to frame g.
Linked(m, f, g) ==
    /\ \E offset \in Offsets : m[f.area - PcChain] = ReturnAddress(g.proc, offset)
    /\ m[f.area - EnvChain] = Environment(EnvOf[g.proc])
    /\ m[f.area - AreaChain] = Area(g.area)

\* fs are the frames of a run below the slot old, the innermost first: they do not
\* overlap, are linked, and hold values where a value will be read.
Links(m, fs, old) ==
    /\ fs \in Seq(FrameType) /\ fs # << >>
    /\ \A k \in 1 .. Len(fs) :
          /\ -1 <= FrameFloor(fs[k]) /\ End(fs[k]) < old
          /\ \A a \in fs[k].area .. End(fs[k]) : m[a] \in Datums
          /\ \A j \in 1 .. k - 1 : End(fs[j]) <= FrameFloor(fs[k])
    /\ \A k \in 2 .. Len(fs) :
          /\ Linked(m, fs[k - 1], fs[k])
          /\ \A a \in End(fs[k - 1]) + 1 .. FrameFloor(fs[k]) : m[a] \in Datums
    /\ m[fs[Len(fs)].area - PcChain] = ReturnAddress(Null, Null)
    /\ End(fs[Len(fs)]) = old - 1

\* What the C variables of a vm_run are while it does what r.at says.
AtInv(m, r, f) ==
    /\ r.proc = f.proc /\ r.env = EnvOf[f.proc]
    /\ r.area = IF r.at = "special" THEN r.sp + 1 ELSE f.area
    /\ r.at = "special" => /\ r.oldArea = f.area /\ r.sp >= 0
                           /\ r.sp + r.passed <= FrameFloor(f)
    /\ r.at = "specialTail" => r.sp = r.area - SlotCount - 1 /\ r.sp >= 1
    /\ r.at = "return" => r.sp = r.area - SlotCount - 2 /\ r.sp >= 0 /\ m[r.sp + 1] \in Datums
    /\ r.at \in {"specialTail", "return"} => r.passed = NumArgs[r.proc]
    /\ r.at \in {"instruction", "string"} => r.sp <= FrameFloor(f)
    /\ r.at = "string" => r.sp >= 1
    /\ r.at \in {"instruction", "string", "special"} =>
          \A a \in r.sp + 1 .. FrameFloor(f) : m[a] \in Datums

RunInv(m, r) == \E fs : Links(m, fs, r.old) /\ AtInv(m, r, fs[1])

\* A run nested in another starts below what the other one uses.
NestInv ==
    /\ runs = << >> => stackPtr = StackTop
    /\ \A i \in 1 .. Len(runs) :
          /\ i = Len(runs) => runs[i].old = StackTop
          /\ i # Len(runs) => runs[i].old = runs[i + 1].sp
          /\ \A j \in i + 1 .. Len(runs) : /\ runs[i].old <= runs[j].sp
                                           /\ runs[j].at \in {"special", "specialTail"}
    /\ runs # << >> /\ runs[1].at \in {"special", "specialTail"} => stackPtr = runs[1].sp

StackInv == TypeOK /\ NestInv /\ \A i \in 1 .. Len(runs) : RunInv(memory, runs[i])

-----------------------------------------------------------------------------
(* Frames.                                                                 *)

LEMMA Stack ==
    /\ StackTop \in Nat /\ StackTop + 1 = StackSize /\ 0 \in 0 .. StackTop /\ MaxRuns \in Nat /\ MaxRuns > 0
    /\ \A p \in Procedures : /\ NumArgs[p] \in Nat /\ NumLocals[p] \in Nat /\ EnvOf[p] \in Nat
                             /\ p # Null /\ EnvOf[p] \in Range(EnvOf)
    /\ Datums \subseteq Slots
    /\ PcChain = 3 /\ EnvChain = 2 /\ AreaChain = 1 /\ SlotCount = 3
<1>1. \A p \in Procedures : EnvOf[p] \in Range(EnvOf)
  BY FramesAssumption DEF Range
<1>2. Datums \subseteq Slots
  BY DEF Datums, Slots
<1>3. /\ StackTop \in Nat /\ StackTop + 1 = StackSize /\ 0 \in 0 .. StackTop
      /\ MaxRuns \in Nat /\ MaxRuns > 0
  <2>1. StackSize \in Nat \ {0} /\ MaxRuns \in Nat \ {0}
    BY FramesAssumption
  <2> QED BY <2>1 DEF StackTop
<1>4. \A p \in Procedures : NumArgs[p] \in Nat /\ NumLocals[p] \in Nat /\ EnvOf[p] \in Nat /\ p # Null
  BY FramesAssumption DEF Null
<1> QED BY <1>1, <1>2, <1>3, <1>4 DEF PcChain, EnvChain, AreaChain, SlotCount

LEMMA FrameFacts ==
    ASSUME NEW f \in FrameType
    PROVE  /\ f.area \in Nat /\ f.proc \in Procedures /\ NumArgs[f.proc] \in Nat
           /\ End(f) \in Int /\ f.area - 1 <= End(f)
           /\ FrameFloor(f) \in Int /\ FrameFloor(f) < f.area - PcChain
BY Stack DEF FrameType, End, FrameFloor, Floor, SlotCount, PcChain

LEMMA LinksFacts ==
    ASSUME NEW m, NEW fs, NEW old \in 0 .. StackTop, Links(m, fs, old)
    PROVE  /\ fs \in Seq(FrameType) /\ Len(fs) \in Nat /\ 1 \in 1 .. Len(fs) /\ Len(fs) \in 1 .. Len(fs)
           /\ \A k \in 1 .. Len(fs) :
                 /\ fs[k] \in FrameType /\ fs[k].area \in Nat /\ fs[k].proc \in Procedures
                 /\ End(fs[k]) \in Int /\ FrameFloor(fs[k]) \in Int
                 /\ -1 <= FrameFloor(fs[k]) /\ FrameFloor(fs[k]) < fs[k].area - 3
                 /\ fs[k].area - 1 <= End(fs[k]) /\ End(fs[k]) < old
                 /\ fs[1].area <= fs[k].area
                 /\ k # 1 => End(fs[1]) <= FrameFloor(fs[k])
<1>1. fs \in Seq(FrameType) /\ fs # << >>
  BY DEF Links
<1>2. Len(fs) \in Nat /\ Len(fs) > 0 /\ \A k \in 1 .. Len(fs) : fs[k] \in FrameType
  BY <1>1
<1>3. ASSUME NEW k \in 1 .. Len(fs)
      PROVE  /\ fs[k].area \in Nat /\ fs[k].proc \in Procedures
             /\ End(fs[k]) \in Int /\ FrameFloor(fs[k]) \in Int
             /\ FrameFloor(fs[k]) < fs[k].area - 3 /\ fs[k].area - 1 <= End(fs[k])
  <2>1. fs[k] \in FrameType
    BY <1>2
  <2> QED BY <2>1, FrameFacts DEF PcChain
<1>4. ASSUME NEW k \in 1 .. Len(fs)
      PROVE  /\ -1 <= FrameFloor(fs[k]) /\ End(fs[k]) < old
             /\ fs[1].area <= fs[k].area
             /\ k # 1 => End(fs[1]) <= FrameFloor(fs[k])
  <2>1. -1 <= FrameFloor(fs[k]) /\ End(fs[k]) < old
    BY DEF Links
  <2>2. k # 1 => End(fs[1]) <= FrameFloor(fs[k])
    <3>1. k # 1 => 1 \in 1 .. k - 1
      OBVIOUS
    <3> QED BY <3>1 DEF Links
  <2>3. 1 \in 1 .. Len(fs)
    BY <1>2
  <2>4. CASE k # 1
    BY <1>3, <2>1, <2>2, <2>3, <2>4, SMTT(30)
  <2>5. CASE k = 1
    BY <1>3, <2>1, <2>5
  <2> QED BY <2>4, <2>5
<1> QED BY <1>1, <1>2, <1>3, <1>4

\* n differs from m below the frames that start with f, or in the arguments of f.
Keeps(m, n, f, high) ==
    \A a \in f.area - 3 .. high : n[a] = m[a] \/ (a \in f.area .. End(f) /\ n[a] \in Datums)

LEMMA LinksWritten ==
    ASSUME NEW m, NEW fs, NEW old \in 0 .. StackTop, Links(m, fs, old), NEW n,
           Keeps(m, n, fs[1], old - 1)
    PROVE  Links(n, fs, old)
<1>1. Len(fs) \in Nat /\ 1 \in 1 .. Len(fs) /\ Len(fs) \in 1 .. Len(fs) /\ old \in Nat
  BY LinksFacts, Stack
<1>0. /\ fs[1].area \in Nat /\ End(fs[1]) \in Int /\ fs[1].area - 1 <= End(fs[1])
      /\ End(fs[1]) < old
  BY LinksFacts, <1>1
<1>a. ASSUME NEW k \in 1 .. Len(fs)
      PROVE  /\ fs[k].area \in Nat /\ End(fs[k]) \in Int /\ FrameFloor(fs[k]) \in Int
             /\ FrameFloor(fs[k]) < fs[k].area - 3 /\ fs[k].area - 1 <= End(fs[k]) /\ End(fs[k]) < old
             /\ fs[1].area <= fs[k].area
             /\ k # 1 => End(fs[1]) <= FrameFloor(fs[k])
  BY LinksFacts
<1>2. ASSUME NEW k \in 1 .. Len(fs), NEW a \in fs[k].area .. End(fs[k]) PROVE n[a] \in Datums
  <2>0. /\ fs[k].area \in Nat /\ End(fs[k]) \in Int /\ End(fs[k]) < old
        /\ fs[1].area <= fs[k].area
    BY <1>a
  <2>1. a \in fs[1].area - 3 .. old - 1
    BY <1>0, <1>1, <2>0, SMTT(30)
  <2>2. m[a] \in Datums
    BY DEF Links
  <2> QED BY <2>1, <2>2 DEF Keeps
<1>3. ASSUME NEW k \in 1 .. Len(fs), NEW c \in {AreaChain, EnvChain, PcChain}
      PROVE  n[fs[k].area - c] = m[fs[k].area - c]
  <2>0. /\ fs[k].area \in Nat /\ End(fs[k]) \in Int /\ FrameFloor(fs[k]) \in Int
        /\ FrameFloor(fs[k]) < fs[k].area - 3 /\ fs[k].area - 1 <= End(fs[k]) /\ End(fs[k]) < old
        /\ fs[1].area <= fs[k].area
        /\ k # 1 => End(fs[1]) <= FrameFloor(fs[k])
    BY <1>a
  <2>1. c \in 1 .. 3
    BY Stack
  <2>2. fs[k].area - c \in fs[1].area - 3 .. old - 1
    <3>1. fs[k].area - c <= old - 1
      BY <1>1, <2>0, <2>1
    <3>2. fs[1].area - 3 <= fs[k].area - c
      <4> DEFINE x == fs[1].area
                 y == fs[k].area
      <4>1. x \in Nat /\ y \in Nat /\ x <= y
        BY <1>0, <2>0
      <4> HIDE DEF x, y
      <4>2. x - 3 <= y - c
        BY <4>1, <2>1
      <4> QED BY <4>2 DEF x, y
    <3> QED BY <1>0, <1>1, <2>0, <2>1, <3>1, <3>2
  <2>3. fs[k].area - c \notin fs[1].area .. End(fs[1])
    <3>1. CASE k = 1
      BY <1>0, <2>0, <2>1, <3>1
    <3>2. CASE k # 1
      BY <1>0, <2>0, <2>1, <3>2, SMTT(30)
    <3> QED BY <3>1, <3>2
  <2> QED BY <2>2, <2>3 DEF Keeps
<1>4. ASSUME NEW k \in 2 .. Len(fs)
      PROVE  /\ Linked(n, fs[k - 1], fs[k])
             /\ \A a \in End(fs[k - 1]) + 1 .. FrameFloor(fs[k]) : n[a] \in Datums
  <2>1. k - 1 \in 1 .. Len(fs) /\ k \in 1 .. Len(fs) /\ k # 1
    BY <1>1
  <2>2. Linked(m, fs[k - 1], fs[k])
    BY DEF Links
  <2>3. Linked(n, fs[k - 1], fs[k])
    BY <1>3, <2>1, <2>2 DEF Linked
  <2>4. ASSUME NEW a \in End(fs[k - 1]) + 1 .. FrameFloor(fs[k]) PROVE n[a] \in Datums
    <3>1. m[a] \in Datums
      BY DEF Links
    <3>2. a \in fs[1].area - 3 .. old - 1
      <4>1. /\ fs[1].area <= fs[k - 1].area /\ fs[k - 1].area - 1 <= End(fs[k - 1])
            /\ fs[k - 1].area \in Nat /\ End(fs[k - 1]) \in Int
        BY <1>a, <2>1
      <4>2. /\ FrameFloor(fs[k]) < fs[k].area - 3 /\ fs[k].area - 1 <= End(fs[k]) /\ End(fs[k]) < old
            /\ fs[k].area \in Nat /\ End(fs[k]) \in Int /\ FrameFloor(fs[k]) \in Int
        BY <1>a, <2>1
      <4>3. a <= old - 1 /\ a \in Int
        BY <1>1, <4>1, <4>2, SMTT(30)
      <4>5. fs[1].area - 3 <= a
        <5> DEFINE x == fs[1].area
                   y == fs[k - 1].area
                   z == End(fs[k - 1])
        <5>1. x \in Nat /\ y \in Nat /\ z \in Int /\ x <= y /\ y - 1 <= z
          BY <1>0, <4>1
        <5>2. a \in Int /\ z + 1 <= a
          BY <4>1, <4>2
        <5> HIDE DEF x, y, z
        <5>3. x - 3 <= a
          BY <5>1, <5>2
        <5> QED BY <5>3 DEF x
      <4> QED BY <1>1, <1>0, <4>3, <4>5
    <3> QED BY <3>1, <3>2 DEF Keeps
  <2> QED BY <2>3, <2>4
<1>5. n[fs[Len(fs)].area - PcChain] = m[fs[Len(fs)].area - PcChain]
  BY <1>1, <1>3
<1> QED BY <1>2, <1>4, <1>5 DEF Links

\* vm_run starts with one frame.
LEMMA LinksSingle ==
    ASSUME NEW m, NEW old \in 0 .. StackTop, NEW f \in FrameType, -1 <= FrameFloor(f),
           End(f) = old - 1, m[f.area - PcChain] = ReturnAddress(Null, Null),
           \A a \in f.area .. End(f) : m[a] \in Datums
    PROVE  Links(m, <<f>>, old)
<1>1. old \in Nat /\ End(f) \in Int
  BY Stack, FrameFacts
<1>2. <<f>> \in Seq(FrameType) /\ <<f>> # << >> /\ Len(<<f>>) = 1 /\ <<f>>[1] = f
  OBVIOUS
<1>3. \A k \in 1 .. 1 : k = 1 /\ (1 .. k - 1) = {}
  OBVIOUS
<1> DEFINE fs == <<f>>
<1> HIDE DEF fs
<1>4. fs \in Seq(FrameType) /\ fs # << >> /\ Len(fs) = 1 /\ fs[1] = f
  BY <1>2 DEF fs
<1>5. ASSUME NEW k \in 1 .. Len(fs)
      PROVE  /\ -1 <= FrameFloor(fs[k]) /\ End(fs[k]) < old
             /\ \A a \in fs[k].area .. End(fs[k]) : m[a] \in Datums
             /\ \A j \in 1 .. k - 1 : End(fs[j]) <= FrameFloor(fs[k])
  BY <1>1, <1>3, <1>4
<1>6. 2 .. Len(fs) = {}
  BY <1>4
<1>7. Links(m, fs, old)
  BY <1>4, <1>5, <1>6 DEF Links
<1> QED BY <1>7 DEF fs

\* CALL adds a frame.
LEMMA LinksCons ==
    ASSUME NEW m, NEW fs, NEW old \in 0 .. StackTop, Links(m, fs, old), NEW g \in FrameType,
           -1 <= FrameFloor(g), End(g) <= FrameFloor(fs[1]), Linked(m, g, fs[1]),
           \A a \in g.area .. End(g) : m[a] \in Datums,
           \A a \in End(g) + 1 .. FrameFloor(fs[1]) : m[a] \in Datums
    PROVE  Links(m, <<g>> \o fs, old)
<1> DEFINE gs == <<g>> \o fs
<1>1. Len(fs) \in Nat /\ 1 \in 1 .. Len(fs) /\ Len(fs) \in 1 .. Len(fs) /\ old \in Nat
  BY LinksFacts, Stack
<1>2. gs \in Seq(FrameType) /\ gs # << >> /\ Len(gs) = Len(fs) + 1 /\ gs[1] = g
  BY LinksFacts
<1>3. \A k \in 2 .. Len(gs) : gs[k] = fs[k - 1] /\ k - 1 \in 1 .. Len(fs)
  BY LinksFacts
<1> HIDE DEF gs
<1>4. /\ End(g) \in Int /\ End(fs[1]) \in Int /\ FrameFloor(fs[1]) \in Int
      /\ FrameFloor(fs[1]) < old /\ FrameFloor(fs[1]) <= End(fs[1])
  <2>1. /\ fs[1].area \in Nat /\ End(fs[1]) \in Int /\ FrameFloor(fs[1]) \in Int
        /\ FrameFloor(fs[1]) < fs[1].area - 3 /\ fs[1].area - 1 <= End(fs[1]) /\ End(fs[1]) < old
    BY <1>1, LinksFacts
  <2>2. End(g) \in Int
    BY FrameFacts
  <2> QED BY <1>1, <2>1, <2>2
<1>5. ASSUME NEW k \in 1 .. Len(gs)
      PROVE  /\ -1 <= FrameFloor(gs[k]) /\ End(gs[k]) < old
             /\ \A a \in gs[k].area .. End(gs[k]) : m[a] \in Datums
             /\ \A j \in 1 .. k - 1 : End(gs[j]) <= FrameFloor(gs[k])
  <2>1. CASE k = 1
    <3>1. 1 .. k - 1 = {}
      BY <2>1
    <3> QED BY <1>1, <1>2, <1>4, <2>1, <3>1
  <2>2. CASE k # 1
    <3>1. k \in 2 .. Len(gs)
      BY <2>2, <1>1, <1>2
    <3>2. gs[k] = fs[k - 1] /\ k - 1 \in 1 .. Len(fs)
      BY <1>3, <3>1
    <3>3. /\ -1 <= FrameFloor(fs[k - 1]) /\ End(fs[k - 1]) < old
          /\ \A a \in fs[k - 1].area .. End(fs[k - 1]) : m[a] \in Datums
      BY <3>2 DEF Links
    <3>4. ASSUME NEW j \in 1 .. k - 1 PROVE End(gs[j]) <= FrameFloor(fs[k - 1])
      <4>1. CASE j = 1
        <5>2. FrameFloor(fs[k - 1]) \in Int
          BY <3>2, LinksFacts
        <5>1. FrameFloor(fs[1]) <= FrameFloor(fs[k - 1])
          <6>1. CASE k - 1 = 1
            BY <5>2, <6>1
          <6>2. CASE k - 1 # 1
            <7>1. End(fs[1]) <= FrameFloor(fs[k - 1])
              BY <3>2, <6>2, LinksFacts
            <7> QED BY <1>4, <5>2, <7>1
          <6> QED BY <6>1, <6>2
        <5> QED BY <1>2, <1>4, <4>1, <5>1, <5>2
      <4>2. CASE j # 1
        <5>1. j \in 2 .. Len(gs) /\ j - 1 \in 1 .. (k - 1) - 1
          BY <4>2, <1>1, <1>2
        <5>2. gs[j] = fs[j - 1]
          BY <5>1, <1>3
        <5>3. End(fs[j - 1]) <= FrameFloor(fs[k - 1])
          BY <3>2, <5>1 DEF Links
        <5> QED BY <5>2, <5>3
      <4> QED BY <4>1, <4>2
    <3> QED BY <3>2, <3>3, <3>4
  <2> QED BY <2>1, <2>2
<1>6. ASSUME NEW k \in 2 .. Len(gs)
      PROVE  /\ Linked(m, gs[k - 1], gs[k])
             /\ \A a \in End(gs[k - 1]) + 1 .. FrameFloor(gs[k]) : m[a] \in Datums
  <2>1. CASE k = 2
    <3>1. gs[k - 1] = g /\ gs[k] = fs[1]
      BY <1>2, <1>3, <2>1
    <3> QED BY <3>1
  <2>2. CASE k # 2
    <3>1. k - 1 \in 2 .. Len(gs) /\ k - 1 \in 2 .. Len(fs)
      BY <2>2, <1>1, <1>2
    <3>2. gs[k] = fs[k - 1] /\ gs[k - 1] = fs[(k - 1) - 1]
      BY <3>1, <1>3
    <3>3. /\ Linked(m, fs[(k - 1) - 1], fs[k - 1])
          /\ \A a \in End(fs[(k - 1) - 1]) + 1 .. FrameFloor(fs[k - 1]) : m[a] \in Datums
      BY <3>1 DEF Links
    <3> QED BY <3>2, <3>3
  <2> QED BY <2>1, <2>2
<1>7. gs[Len(gs)] = fs[Len(fs)]
  BY <1>1, <1>2, <1>3
<1>8. /\ m[gs[Len(gs)].area - PcChain] = ReturnAddress(Null, Null)
      /\ End(gs[Len(gs)]) = old - 1
  BY <1>7 DEF Links
<1>9. Links(m, gs, old)
  BY <1>2, <1>5, <1>6, <1>8 DEF Links
<1> QED BY <1>9 DEF gs

\* RETURN removes one, which others are below.
LEMMA LinksTail ==
    ASSUME NEW m, NEW fs, NEW old \in 0 .. StackTop, Links(m, fs, old), Len(fs) > 1
    PROVE  Links(m, Tail(fs), old) /\ Tail(fs)[1] = fs[2] /\ 2 \in 2 .. Len(fs)
<1> DEFINE gs == Tail(fs)
<1>0. fs \in Seq(FrameType) /\ fs # << >>
  BY DEF Links
<1>1. Len(fs) \in Nat /\ Len(fs) > 1 /\ fs \in Seq(FrameType)
  BY <1>0
<1>2. gs \in Seq(FrameType) /\ Len(gs) = Len(fs) - 1 /\ gs # << >>
  <2>1. gs \in Seq(FrameType) /\ Len(gs) = Len(fs) - 1
    BY <1>0, <1>1
  <2>2. Len(gs) > 0
    BY <1>1, <2>1
  <2> QED BY <2>1, <2>2
<1>3. \A k \in 1 .. Len(gs) : gs[k] = fs[k + 1] /\ k + 1 \in 2 .. Len(fs)
  BY <1>1, <1>2
<1> HIDE DEF gs
<1>4. ASSUME NEW k \in 1 .. Len(gs)
      PROVE  /\ -1 <= FrameFloor(gs[k]) /\ End(gs[k]) < old
             /\ \A a \in gs[k].area .. End(gs[k]) : m[a] \in Datums
             /\ \A j \in 1 .. k - 1 : End(gs[j]) <= FrameFloor(gs[k])
  <2>1. gs[k] = fs[k + 1] /\ k + 1 \in 1 .. Len(fs)
    BY <1>1, <1>2, <1>3
  <2>2. /\ -1 <= FrameFloor(fs[k + 1]) /\ End(fs[k + 1]) < old
        /\ \A a \in fs[k + 1].area .. End(fs[k + 1]) : m[a] \in Datums
    BY <2>1 DEF Links
  <2>3. ASSUME NEW j \in 1 .. k - 1 PROVE End(gs[j]) <= FrameFloor(fs[k + 1])
    <3>1. j \in 1 .. Len(gs) /\ j + 1 \in 1 .. (k + 1) - 1
      BY <1>1, <1>2
    <3>2. gs[j] = fs[j + 1]
      BY <1>3, <3>1
    <3>3. End(fs[j + 1]) <= FrameFloor(fs[k + 1])
      BY <2>1, <3>1 DEF Links
    <3> QED BY <3>2, <3>3
  <2> QED BY <2>1, <2>2, <2>3
<1>5. ASSUME NEW k \in 2 .. Len(gs)
      PROVE  /\ Linked(m, gs[k - 1], gs[k])
             /\ \A a \in End(gs[k - 1]) + 1 .. FrameFloor(gs[k]) : m[a] \in Datums
  <2>1. k - 1 \in 1 .. Len(gs) /\ k \in 1 .. Len(gs) /\ k + 1 \in 2 .. Len(fs) /\ (k - 1) + 1 = (k + 1) - 1
    BY <1>1, <1>2
  <2>2. gs[k] = fs[k + 1] /\ gs[k - 1] = fs[(k + 1) - 1]
    BY <1>3, <2>1
  <2>3. /\ Linked(m, fs[(k + 1) - 1], fs[k + 1])
        /\ \A a \in End(fs[(k + 1) - 1]) + 1 .. FrameFloor(fs[k + 1]) : m[a] \in Datums
    BY <2>1 DEF Links
  <2> QED BY <2>2, <2>3
<1>6. gs[Len(gs)] = fs[Len(fs)]
  BY <1>1, <1>2, <1>3
<1>7. /\ m[gs[Len(gs)].area - PcChain] = ReturnAddress(Null, Null)
      /\ End(gs[Len(gs)]) = old - 1
  BY <1>6 DEF Links
<1>8. Links(m, gs, old)
  BY <1>2, <1>4, <1>5, <1>7 DEF Links
<1>9. gs[1] = fs[2]
  BY <1>1, <1>2, <1>3
<1> QED BY <1>1, <1>8, <1>9 DEF gs

\* The chain of g in n is that of f in m.
SameChain(n, g, m, f) == \A c \in 1 .. 3 : n[g.area - c] = m[f.area - c]

\* n is m above the frame f.
KeepsAbove(m, n, f, old) == \A a \in End(f) + 1 .. old - 1 : n[a] = m[a]

\* A tail call puts another frame in the place of the innermost.
LEMMA LinksReplace ==
    ASSUME NEW m, NEW fs, NEW old \in 0 .. StackTop, Links(m, fs, old), NEW g \in FrameType, NEW n,
           -1 <= FrameFloor(g), End(g) = End(fs[1]),
           SameChain(n, g, m, fs[1]),
           \A a \in g.area .. End(g) : n[a] \in Datums,
           KeepsAbove(m, n, fs[1], old)
    PROVE  Links(n, [fs EXCEPT ![1] = g], old)
<1> DEFINE gs == [fs EXCEPT ![1] = g]
<1>1. Len(fs) \in Nat /\ 1 \in 1 .. Len(fs) /\ Len(fs) \in 1 .. Len(fs) /\ old \in Nat
  BY LinksFacts, Stack
<1>2. gs \in Seq(FrameType) /\ gs # << >> /\ Len(gs) = Len(fs) /\ gs[1] = g
  BY LinksFacts, <1>1
<1>3. \A k \in 2 .. Len(gs) : gs[k] = fs[k] /\ k \in 1 .. Len(fs)
  BY LinksFacts, <1>1
<1> HIDE DEF gs
<1>a. ASSUME NEW k \in 2 .. Len(fs)
      PROVE  /\ fs[k].area \in Nat /\ End(fs[k]) \in Int /\ FrameFloor(fs[k]) \in Int
             /\ FrameFloor(fs[k]) < fs[k].area - 3 /\ fs[k].area - 1 <= End(fs[k]) /\ End(fs[k]) < old
             /\ End(fs[1]) <= FrameFloor(fs[k]) /\ -1 <= FrameFloor(fs[k])
             /\ End(fs[1]) < End(fs[k])
             /\ \A a \in fs[k].area .. End(fs[k]) : n[a] \in Datums
             /\ \A c \in 1 .. 3 : n[fs[k].area - c] = m[fs[k].area - c]
  <2>1. k \in 1 .. Len(fs) /\ k # 1
    BY <1>1
  <2>2. /\ fs[k].area \in Nat /\ End(fs[k]) \in Int /\ FrameFloor(fs[k]) \in Int
        /\ FrameFloor(fs[k]) < fs[k].area - 3 /\ fs[k].area - 1 <= End(fs[k]) /\ End(fs[k]) < old
        /\ End(fs[1]) <= FrameFloor(fs[k]) /\ -1 <= FrameFloor(fs[k])
    BY LinksFacts, <2>1
  <2>3. End(fs[1]) \in Int
    BY LinksFacts, <1>1
  <2>4. ASSUME NEW a \in fs[k].area .. End(fs[k]) PROVE n[a] \in Datums
    <3>1. a \in End(fs[1]) + 1 .. old - 1
      BY <1>1, <2>2, <2>3, SMTT(30)
    <3>2. m[a] \in Datums
      BY <2>1 DEF Links
    <3> QED BY <3>1, <3>2 DEF KeepsAbove
  <2>5. ASSUME NEW c \in 1 .. 3 PROVE n[fs[k].area - c] = m[fs[k].area - c]
    <3>0. fs[k].area <= old
      BY <1>1, <2>2
    <3>1. fs[k].area - c <= old - 1
      BY <1>1, <2>2, <3>0, SMTT(30)
    <3>2. End(fs[1]) + 1 <= fs[k].area - c
      <4> DEFINE x == End(fs[1])
                 y == fs[k].area
                 z == FrameFloor(fs[k])
      <4>1. x \in Int /\ y \in Nat /\ z \in Int /\ x <= z /\ z < y - 3
        BY <2>2, <2>3
      <4> HIDE DEF x, y, z
      <4>2. x + 1 <= y - c
        BY <4>1
      <4> QED BY <4>2 DEF x, y
    <3>3. fs[k].area - c \in End(fs[1]) + 1 .. old - 1
      BY <1>1, <2>2, <2>3, <3>1, <3>2
    <3> QED BY <3>3 DEF KeepsAbove
  <2> QED BY <2>2, <2>3, <2>4, <2>5
<1>4. End(g) \in Int /\ End(fs[1]) < old /\ End(g) < old
  BY <1>1, LinksFacts, FrameFacts
<1>5. ASSUME NEW k \in 1 .. Len(gs)
      PROVE  /\ -1 <= FrameFloor(gs[k]) /\ End(gs[k]) < old
             /\ \A a \in gs[k].area .. End(gs[k]) : n[a] \in Datums
             /\ \A j \in 1 .. k - 1 : End(gs[j]) <= FrameFloor(gs[k])
  <2>1. CASE k = 1
    <3>1. 1 .. k - 1 = {}
      BY <2>1
    <3> QED BY <1>1, <1>2, <1>4, <2>1, <3>1
  <2>2. CASE k # 1
    <3>1. k \in 2 .. Len(gs) /\ k \in 2 .. Len(fs) /\ k \in 1 .. Len(fs)
      BY <2>2, <1>1, <1>2
    <3>2. gs[k] = fs[k]
      BY <1>3, <3>1
    <3>3. /\ -1 <= FrameFloor(fs[k]) /\ End(fs[k]) < old
          /\ \A a \in fs[k].area .. End(fs[k]) : n[a] \in Datums
      BY <1>a, <3>1
    <3>4. ASSUME NEW j \in 1 .. k - 1 PROVE End(gs[j]) <= FrameFloor(fs[k])
      <4>1. End(fs[j]) <= FrameFloor(fs[k])
        BY <3>1 DEF Links
      <4>2. CASE j = 1
        BY <1>2, <4>1, <4>2
      <4>3. CASE j # 1
        <5>1. j \in 2 .. Len(gs)
          BY <4>3, <1>1, <1>2
        <5> QED BY <5>1, <1>3, <4>1
      <4> QED BY <4>2, <4>3
    <3> QED BY <3>2, <3>3, <3>4
  <2> QED BY <2>1, <2>2
<1>6. ASSUME NEW k \in 2 .. Len(gs)
      PROVE  /\ Linked(n, gs[k - 1], gs[k])
             /\ \A a \in End(gs[k - 1]) + 1 .. FrameFloor(gs[k]) : n[a] \in Datums
  <2>1. k \in 2 .. Len(fs) /\ gs[k] = fs[k] /\ k - 1 \in 1 .. Len(fs)
    BY <1>1, <1>2, <1>3
  <2>2. /\ Linked(m, fs[k - 1], fs[k])
        /\ \A a \in End(fs[k - 1]) + 1 .. FrameFloor(fs[k]) : m[a] \in Datums
    BY <2>1 DEF Links
  <2>3. \A c \in 1 .. 3 : n[gs[k - 1].area - c] = m[fs[k - 1].area - c]
    <3>1. CASE k - 1 = 1
      BY <1>2, <3>1 DEF SameChain
    <3>2. CASE k - 1 # 1
      <4>1. k - 1 \in 2 .. Len(gs) /\ k - 1 \in 2 .. Len(fs)
        BY <2>1, <3>2, <1>1, <1>2
      <4> QED BY <4>1, <1>3, <1>a
    <3> QED BY <3>1, <3>2
  <2>4. Linked(n, gs[k - 1], gs[k])
    BY <2>1, <2>2, <2>3, Stack DEF Linked
  <2>5. End(gs[k - 1]) = End(fs[k - 1])
    <3>1. CASE k - 1 = 1
      BY <1>2, <3>1
    <3>2. CASE k - 1 # 1
      <4>1. k - 1 \in 2 .. Len(gs)
        BY <2>1, <3>2, <1>1, <1>2
      <4> QED BY <4>1, <1>3
    <3> QED BY <3>1, <3>2
  <2>6. End(fs[1]) <= End(fs[k - 1]) /\ End(fs[k - 1]) \in Int /\ End(fs[1]) \in Int
    <3>1. CASE k - 1 = 1
      BY <1>1, LinksFacts, <3>1
    <3>2. CASE k - 1 # 1
      <4>1. k - 1 \in 2 .. Len(fs)
        BY <2>1, <3>2, <1>1
      <4>2. End(fs[1]) \in Int
        BY <1>1, LinksFacts
      <4> QED BY <4>1, <4>2, <1>a
    <3> QED BY <3>1, <3>2
  <2>7. ASSUME NEW a \in End(fs[k - 1]) + 1 .. FrameFloor(fs[k]) PROVE n[a] \in Datums
    <3>1. /\ FrameFloor(fs[k]) < fs[k].area - 3 /\ fs[k].area - 1 <= End(fs[k]) /\ End(fs[k]) < old
          /\ FrameFloor(fs[k]) \in Int /\ fs[k].area \in Nat /\ End(fs[k]) \in Int
      BY <1>a, <2>1
    <3>2. a <= old - 1 /\ a \in Int
      <4> DEFINE x == FrameFloor(fs[k])
                 y == fs[k].area
                 z == End(fs[k])
      <4>1. x \in Int /\ y \in Nat /\ z \in Int /\ x < y - 3 /\ y - 1 <= z /\ z < old
        BY <3>1
      <4>2. a \in Int /\ a <= x
        BY <2>6, <3>1
      <4> HIDE DEF x, y, z
      <4> QED BY <1>1, <4>1, <4>2
    <3>3. End(fs[1]) + 1 <= a
      BY <2>6, <3>1
    <3>4. a \in End(fs[1]) + 1 .. old - 1
      BY <1>1, <2>6, <3>2, <3>3
    <3> QED BY <3>4, <2>2 DEF KeepsAbove
  <2> QED BY <2>1, <2>4, <2>5, <2>7
<1>7. /\ n[gs[Len(gs)].area - PcChain] = ReturnAddress(Null, Null)
      /\ End(gs[Len(gs)]) = old - 1
  <2>1. /\ m[fs[Len(fs)].area - PcChain] = ReturnAddress(Null, Null)
        /\ End(fs[Len(fs)]) = old - 1
    BY DEF Links
  <2>2. CASE Len(fs) = 1
    <3>1. gs[Len(gs)] = g /\ fs[Len(fs)] = fs[1]
      BY <1>2, <2>2
    <3>2. 3 \in 1 .. 3
      OBVIOUS
    <3>3. n[g.area - 3] = m[fs[1].area - 3]
      BY <3>2 DEF SameChain
    <3> QED BY <2>1, <3>1, <3>3, Stack
  <2>3. CASE Len(fs) # 1
    <3>1. Len(fs) \in 2 .. Len(fs) /\ Len(fs) \in 2 .. Len(gs)
      BY <1>1, <1>2, <2>3
    <3>2. gs[Len(gs)] = fs[Len(fs)]
      BY <1>2, <1>3, <3>1
    <3> QED BY <3>1, <3>2, <2>1, <1>a, Stack, SMTT(30)
  <2> QED BY <2>2, <2>3
<1>8. Links(n, gs, old)
  BY <1>2, <1>5, <1>6, <1>7 DEF Links
<1> QED BY <1>8 DEF gs

-----------------------------------------------------------------------------
(* Runs.                                                                   *)

\* n is m above the slot low.
KeepsUp(m, n, low) == \A a \in low + 1 .. StackTop : n[a] = m[a]

LEMMA RunFacts ==
    ASSUME NEW r \in Run
    PROVE  /\ r.sp \in Int /\ -1 <= r.sp /\ r.area \in Nat /\ r.proc \in Procedures
           /\ r.old \in 0 .. StackTop /\ r.old \in Nat /\ r.old <= StackTop
           /\ r.passed \in Nat /\ r.oldArea \in Nat /\ NumArgs[r.proc] \in Nat
<1>1. \A x \in SpecialArgs : x \in Nat
  BY FramesAssumption
<1>2. r.passed \in Nat
  <2>1. r.passed \in {0} \cup SpecialArgs
    BY DEF Run
  <2>2. CASE r.passed = 0
    BY <2>2
  <2>3. CASE r.passed # 0
    <3>1. r.passed \in SpecialArgs
      BY <2>1, <2>3
    <3> QED BY <1>1, <3>1
  <2> QED BY <2>2, <2>3
<1>3. r.area \in 0 .. StackTop /\ r.old \in 0 .. StackTop /\ r.oldArea \in 0 .. StackTop
  BY DEF Run
<1>4. r.sp \in -1 .. StackTop /\ r.proc \in Procedures
  BY DEF Run
<1> QED BY <1>2, <1>3, <1>4, Stack

\* The frames of a run that waits for a special function are above its stack pointer.
LEMMA RunKept ==
    ASSUME NEW m, NEW n, NEW r \in Run, r.at \in {"special", "specialTail"},
           RunInv(m, r), KeepsUp(m, n, r.sp)
    PROVE  RunInv(n, r)
<1>1. PICK fs : Links(m, fs, r.old) /\ AtInv(m, r, fs[1])
  BY DEF RunInv
<1> DEFINE f == fs[1]
<1>2. /\ f \in FrameType /\ f.area \in Nat /\ FrameFloor(f) \in Int /\ End(f) \in Int
      /\ FrameFloor(f) < f.area - 3 /\ f.area - 1 <= End(f) /\ End(f) < r.old
  BY <1>1, RunFacts, LinksFacts
<1>3. /\ r.sp \in Int /\ r.passed \in Nat /\ r.old \in Nat /\ r.old <= StackTop
      /\ StackTop \in Nat
  BY RunFacts, Stack
<1>4. r.sp + 1 <= f.area - 3
  <2>1. CASE r.at = "special"
    <3>1. r.sp + r.passed <= FrameFloor(f)
      BY <1>1, <2>1 DEF AtInv
    <3>2. r.sp <= FrameFloor(f)
      BY <1>2, <1>3, <3>1
    <3> QED BY <1>2, <1>3, <3>2
  <2>2. CASE r.at = "specialTail"
    <3>1. r.area = f.area /\ r.sp = r.area - SlotCount - 1
      BY <1>1, <2>2 DEF AtInv
    <3> QED BY <1>2, <1>3, <3>1 DEF SlotCount
  <2> QED BY <2>1, <2>2
<1>5. Keeps(m, n, f, r.old - 1)
  <2> SUFFICES ASSUME NEW a \in f.area - 3 .. r.old - 1 PROVE n[a] = m[a]
    BY DEF Keeps
  <2>1. r.sp + 1 <= a /\ a <= StackTop /\ a \in Int
    BY <1>2, <1>3, <1>4
  <2> QED BY <1>3, <2>1 DEF KeepsUp
<1>6. Links(n, fs, r.old)
  BY <1>1, <1>5, RunFacts, LinksWritten
<1>7. r.at = "special" => \A a \in r.sp + 1 .. FrameFloor(f) : n[a] \in Datums
  <2> SUFFICES ASSUME r.at = "special", NEW a \in r.sp + 1 .. FrameFloor(f) PROVE n[a] \in Datums
    OBVIOUS
  <2>1. m[a] \in Datums
    BY <1>1 DEF AtInv
  <2>2. FrameFloor(f) <= StackTop
    BY <1>2, <1>3
  <2>3. r.sp + 1 <= a /\ a <= StackTop /\ a \in Int
    BY <1>2, <1>3, <2>2
  <2>4. n[a] = m[a]
    BY <1>3, <2>3 DEF KeepsUp
  <2> QED BY <2>1, <2>4
<1>8. AtInv(n, r, f)
  BY <1>1, <1>7 DEF AtInv
<1> QED BY <1>6, <1>8 DEF RunInv

LEMMA RunsFacts ==
    ASSUME StackInv
    PROVE  /\ runs \in Seq(Run) /\ Len(runs) \in Nat
           /\ \A i \in 1 .. Len(runs) : runs[i] \in Run /\ RunInv(memory, runs[i])
           /\ runs # << >> => /\ run = runs[1] /\ run \in Run /\ Len(runs) >= 1 /\ RunInv(memory, run)
                              /\ 1 \in 1 .. Len(runs)
<1>1. runs \in Seq(Run) /\ Len(runs) \in Nat
  BY DEF StackInv, TypeOK
<1>2. runs # << >> => run = runs[1] /\ Len(runs) >= 1 /\ 1 \in 1 .. Len(runs)
  BY <1>1 DEF run
<1>3. \A i \in 1 .. Len(runs) : runs[i] \in Run /\ RunInv(memory, runs[i])
  BY <1>1 DEF StackInv
<1> QED BY <1>1, <1>2, <1>3

\* What the innermost run does below the slot where it started does not touch the others.
LEMMA TopStep ==
    ASSUME StackInv, TypeOK', runs # << >>, NEW q, runs' = [runs EXCEPT ![1] = q],
           q.old = run.old, KeepsUp(memory, memory', run.old), RunInv(memory', q),
           q.at \in {"special", "specialTail"} => stackPtr' = q.sp
    PROVE  StackInv'
<1>1. /\ runs \in Seq(Run) /\ Len(runs) \in Nat /\ Len(runs) >= 1 /\ run = runs[1]
      /\ \A i \in 1 .. Len(runs) : runs[i] \in Run /\ RunInv(memory, runs[i])
      /\ run \in Run /\ 1 \in 1 .. Len(runs)
  BY RunsFacts
<1>2. /\ Len(runs') = Len(runs) /\ runs'[1] = q /\ runs' # << >>
      /\ \A i \in 2 .. Len(runs) : runs'[i] = runs[i] /\ i \in 1 .. Len(runs)
  BY <1>1
<1>3. NestInv'
  <2>1. ASSUME NEW i \in 1 .. Len(runs)
        PROVE  /\ i = Len(runs) => runs'[i].old = StackTop
               /\ i # Len(runs) => runs'[i].old = runs'[i + 1].sp
    <3>1. /\ i = Len(runs) => runs[i].old = StackTop
          /\ i # Len(runs) => runs[i].old = runs[i + 1].sp
      BY DEF StackInv, NestInv
    <3>2. i # Len(runs) => i + 1 \in 2 .. Len(runs)
      BY <1>1
    <3>3. runs'[i].old = runs[i].old
      <4>1. CASE i = 1
        BY <1>1, <1>2, <4>1
      <4>2. CASE i # 1
        <5>1. i \in 2 .. Len(runs)
          BY <4>2, <1>1
        <5> QED BY <5>1, <1>2
      <4> QED BY <4>1, <4>2
    <3> QED BY <1>2, <3>1, <3>2, <3>3
  <2>2. ASSUME NEW i \in 1 .. Len(runs), NEW j \in i + 1 .. Len(runs)
        PROVE  runs'[i].old <= runs'[j].sp /\ runs'[j].at \in {"special", "specialTail"}
    <3>1. runs[i].old <= runs[j].sp /\ runs[j].at \in {"special", "specialTail"}
      BY DEF StackInv, NestInv
    <3>2. j \in 2 .. Len(runs)
      BY <1>1
    <3>3. runs'[i].old = runs[i].old
      <4>1. CASE i = 1
        BY <1>1, <1>2, <4>1
      <4>2. CASE i # 1
        <5>1. i \in 2 .. Len(runs)
          BY <4>2, <1>1
        <5> QED BY <5>1, <1>2
      <4> QED BY <4>1, <4>2
    <3> QED BY <1>2, <3>1, <3>2, <3>3
  <2>3. runs'[1].at \in {"special", "specialTail"} => stackPtr' = runs'[1].sp
    BY <1>2
  <2>4. Len(runs') = Len(runs) /\ runs' # << >>
    BY <1>2
  <2>5. \A i \in 1 .. Len(runs') :
           /\ i = Len(runs') => runs'[i].old = StackTop
           /\ i # Len(runs') => runs'[i].old = runs'[i + 1].sp
           /\ \A j \in i + 1 .. Len(runs') : /\ runs'[i].old <= runs'[j].sp
                                             /\ runs'[j].at \in {"special", "specialTail"}
    <3>1. ASSUME NEW i \in 1 .. Len(runs')
          PROVE  /\ i = Len(runs') => runs'[i].old = StackTop
                 /\ i # Len(runs') => runs'[i].old = runs'[i + 1].sp
      <4>1. i \in 1 .. Len(runs)
        BY <2>4
      <4>2. /\ i = Len(runs) => runs'[i].old = StackTop
            /\ i # Len(runs) => runs'[i].old = runs'[i + 1].sp
        BY <2>1, <4>1, Zenon
      <4> QED BY <2>4, <4>2, Zenon
    <3>2. ASSUME NEW i \in 1 .. Len(runs'), NEW j \in i + 1 .. Len(runs')
          PROVE  runs'[i].old <= runs'[j].sp /\ runs'[j].at \in {"special", "specialTail"}
      <4>1. i \in 1 .. Len(runs) /\ j \in i + 1 .. Len(runs)
        BY <2>4
      <4> QED BY <2>2, <4>1
    <3> QED BY <3>1, <3>2
  <2> QED BY <2>3, <2>4, <2>5 DEF NestInv
<1>4. ASSUME NEW i \in 1 .. Len(runs) PROVE RunInv(memory', runs'[i])
  <2>1. CASE i = 1
    BY <1>2, <2>1
  <2>2. CASE i # 1
    <3>1. i \in 2 .. Len(runs) /\ i \in 1 + 1 .. Len(runs)
      BY <1>1, <2>2
    <3>2. run.old <= runs[i].sp /\ runs[i].at \in {"special", "specialTail"}
      BY <1>1, <3>1 DEF StackInv, NestInv
    <3>3. run.old \in Nat /\ runs[i].sp \in Int
      BY <1>1, RunFacts
    <3>4. KeepsUp(memory, memory', runs[i].sp)
      <4> SUFFICES ASSUME NEW a \in runs[i].sp + 1 .. StackTop PROVE memory'[a] = memory[a]
        BY DEF KeepsUp
      <4>1. run.old + 1 <= a /\ a <= StackTop /\ a \in Int
        BY <3>2, <3>3, Stack
      <4> QED BY <3>3, <4>1, Stack DEF KeepsUp
    <3>5. RunInv(memory', runs[i])
      BY <1>1, <3>2, <3>4, RunKept
    <3> QED BY <1>2, <3>1, <3>5
  <2> QED BY <2>1, <2>2
<1> QED BY <1>2, <1>3, <1>4 DEF StackInv

-----------------------------------------------------------------------------
(* Instructions that make no call.                                         *)

\* The frame of the procedure that executes.
Top == [area |-> run.area, proc |-> run.proc]

\* Its temporaries, above sp, hold values in m.
TempsHold(m, sp) == \A a \in sp + 1 .. FrameFloor(Top) : m[a] \in Datums

LEMMA TopFacts ==
    ASSUME StackInv, runs # << >>, run.at \in {"instruction", "string"}
    PROVE  /\ \E fs : Links(memory, fs, run.old) /\ fs[1] = Top
           /\ AtInv(memory, run, Top) /\ Top \in FrameType /\ TempsHold(memory, run.sp)
           /\ run.sp \in Int /\ -1 <= run.sp /\ run.sp <= FrameFloor(Top)
           /\ FrameFloor(Top) \in Int /\ FrameFloor(Top) < run.area - 3
           /\ run.area \in Nat /\ End(Top) \in Int /\ run.area - 1 <= End(Top)
           /\ End(Top) < run.old /\ run.old \in Nat /\ run.old <= StackTop
           /\ FrameFloor(Top) = Floor(run.area, run.proc)
           /\ End(Top) = run.area + NumArgs[run.proc] - 1
           /\ NumArgs[run.proc] \in Nat /\ NumLocals[run.proc] \in Nat
           /\ FrameFloor(Top) = run.area - 4 - NumLocals[run.proc]
           /\ run.proc \in Procedures /\ run.env = EnvOf[run.proc]
<1>1. run \in Run /\ RunInv(memory, run)
  BY RunsFacts
<1>2. PICK fs : Links(memory, fs, run.old) /\ AtInv(memory, run, fs[1])
  BY <1>1 DEF RunInv
<1>3. fs[1] \in FrameType /\ run.area = fs[1].area /\ run.proc = fs[1].proc
  BY <1>1, <1>2, RunFacts, LinksFacts DEF AtInv
<1>4. fs[1] = Top
  BY <1>3 DEF Top, FrameType
<1>5. /\ FrameFloor(Top) \in Int /\ FrameFloor(Top) < Top.area - 3
      /\ End(Top) \in Int /\ Top.area - 1 <= End(Top) /\ End(Top) < run.old
  BY <1>1, <1>2, <1>4, RunFacts, LinksFacts
<1>6. Top.area = run.area /\ Top.proc = run.proc
  BY DEF Top
<1>7. TempsHold(memory, run.sp) /\ run.sp <= FrameFloor(Top) /\ run.env = EnvOf[run.proc]
  BY <1>2, <1>4, <1>6 DEF AtInv, TempsHold
<1>8. /\ run.sp \in Int /\ -1 <= run.sp /\ run.area \in Nat /\ run.old \in Nat /\ run.old <= StackTop
      /\ NumArgs[run.proc] \in Nat /\ NumLocals[run.proc] \in Nat /\ run.proc \in Procedures
  BY <1>1, RunFacts, Stack
<1>9. /\ FrameFloor(Top) = Floor(run.area, run.proc)
      /\ End(Top) = run.area + NumArgs[run.proc] - 1
  BY <1>6 DEF FrameFloor, End
<1>10. FrameFloor(Top) = run.area - 4 - NumLocals[run.proc]
  BY <1>8, <1>9 DEF Floor, SlotCount
<1> QED BY <1>2, <1>3, <1>4, <1>5, <1>6, <1>7, <1>8, <1>9, <1>10

\* An instruction that changes temporaries, or puts values in arguments and locals.
LEMMA Simple ==
    ASSUME StackInv, runs # << >>, run.at \in {"instruction", "string"},
           NEW sp, sp \in Int, -1 <= sp, sp <= FrameFloor(Top), Instruction(memory', sp),
           memory' \in [0 .. StackTop -> Slots], Keeps(memory, memory', Top, StackTop),
           TempsHold(memory', sp)
    PROVE  StackInv'
<1> DEFINE q == [run EXCEPT !.sp = sp, !.at = "instruction"]
<1>1. /\ runs \in Seq(Run) /\ run \in Run /\ run = runs[1] /\ 1 \in 1 .. Len(runs)
  BY RunsFacts
<1>2. runs' = [runs EXCEPT ![1].sp = sp, ![1].at = "instruction"]
      /\ stackPtr' = stackPtr /\ result' = result
  BY DEF Instruction
<1>3. runs' = [runs EXCEPT ![1] = q]
  BY <1>1, <1>2
<1>4. /\ q.sp = sp /\ q.at = "instruction" /\ q.area = run.area /\ q.proc = run.proc
      /\ q.env = run.env /\ q.old = run.old /\ q.passed = run.passed /\ q.oldArea = run.oldArea
      /\ q.pc = run.pc
  BY <1>1 DEF Run
<1>a. sp <= StackTop
  BY TopFacts, Stack, SMTT(30)
<1>5. q \in Run
  <2>1. sp \in -1 .. StackTop
    BY <1>a, Stack
  <2> QED BY <1>1, <2>1 DEF Run
<1> HIDE DEF q
<1>6. TypeOK'
  <2>1. runs' \in Seq(Run) /\ Len(runs') = Len(runs)
    BY <1>1, <1>3, <1>5
  <2> QED BY <1>2, <2>1 DEF TypeOK, StackInv
<1>7. KeepsUp(memory, memory', run.old) /\ Keeps(memory, memory', Top, run.old - 1)
  <2>1. /\ run.area \in Nat /\ End(Top) \in Int /\ run.area - 1 <= End(Top)
        /\ End(Top) < run.old /\ run.old \in Nat /\ run.old <= StackTop /\ Top.area = run.area
    BY TopFacts DEF Top
  <2>2. ASSUME NEW a \in run.old + 1 .. StackTop PROVE memory'[a] = memory[a]
    <3>1. a \in Top.area - 3 .. StackTop /\ a \notin Top.area .. End(Top)
      <4> HIDE DEF Top
      <4>1. a \in Int /\ run.area - 3 <= a /\ End(Top) < a /\ a <= StackTop
        BY <2>1, Stack
      <4> QED BY <2>1, <4>1, Stack
    <3> QED BY <3>1 DEF Keeps
  <2>3. ASSUME NEW a \in Top.area - 3 .. run.old - 1
        PROVE  memory'[a] = memory[a] \/ (a \in Top.area .. End(Top) /\ memory'[a] \in Datums)
    <3>1. a \in Top.area - 3 .. StackTop
      BY <2>1, Stack
    <3> QED BY <3>1 DEF Keeps
  <2> QED BY <2>2, <2>3 DEF Keeps, KeepsUp
<1>8. RunInv(memory', q)
  <2>1. PICK fs : Links(memory, fs, run.old) /\ fs[1] = Top
    BY TopFacts
  <2>2. Links(memory', fs, q.old)
    BY <1>1, <1>4, <1>7, <2>1, RunFacts, LinksWritten
  <2>3. AtInv(memory, run, Top)
    BY TopFacts
  <2>4. AtInv(memory', q, Top)
    BY <1>4, <2>3 DEF AtInv, TempsHold
  <2> QED BY <2>1, <2>2, <2>4 DEF RunInv
<1> QED BY <1>3, <1>4, <1>6, <1>7, <1>8, TopStep

LEMMA WriteTop ==
    ASSUME StackInv, runs # << >>, run.at \in {"instruction", "string"},
           NEW x \in 0 .. StackTop, NEW d \in Datums, memory' = [memory EXCEPT ![x] = d],
           x < run.area - 3 \/ (run.area <= x /\ x <= End(Top))
    PROVE  /\ memory' \in [0 .. StackTop -> Slots] /\ Keeps(memory, memory', Top, StackTop)
           /\ memory'[x] = d /\ \A a \in 0 .. StackTop : a # x => memory'[a] = memory[a]
<1>1. memory \in [0 .. StackTop -> Slots] /\ d \in Slots
  BY Stack DEF StackInv, TypeOK
<1>2. /\ memory' \in [0 .. StackTop -> Slots]
      /\ memory'[x] = d /\ \A a \in 0 .. StackTop : a # x => memory'[a] = memory[a]
  BY <1>1
<1>3. /\ run.sp \in Int /\ -1 <= run.sp /\ run.sp <= FrameFloor(Top) /\ FrameFloor(Top) \in Int
      /\ FrameFloor(Top) < run.area - 3 /\ run.area \in Nat /\ End(Top) \in Int
      /\ Top.area = run.area
  BY TopFacts DEF Top
<1>4. ASSUME NEW a \in Top.area - 3 .. StackTop
      PROVE  memory'[a] = memory[a] \/ (a \in Top.area .. End(Top) /\ memory'[a] \in Datums)
  <2>1. CASE a = x
    <3>1. a \in Top.area .. End(Top)
      BY <1>3, <2>1
    <3> QED BY <1>2, <2>1, <3>1
  <2>2. CASE a # x
    <3>1. a \in 0 .. StackTop
      BY <1>3, Stack
    <3> QED BY <1>2, <2>2, <3>1
  <2> QED BY <2>1, <2>2
<1>5. Keeps(memory, memory', Top, StackTop)
  BY <1>4 DEF Keeps
<1> QED BY <1>2, <1>5

\* Where a slot operand is.
LEMMA OperandFacts ==
    ASSUME StackInv, runs # << >>, run.at = "instruction", NEW i \in SlotOperands
    PROVE  /\ run.area + i \in 0 .. StackTop /\ run.area + i > FrameFloor(Top)
           /\ run.area + i < run.area - 3 \/ (run.area <= run.area + i /\ run.area + i <= End(Top))
<1> DEFINE F == FrameFloor(Top)
           E == End(Top)
           A == run.area
           N == NumArgs[run.proc]
           L == NumLocals[run.proc]
           sp == run.sp
           old == run.old
<1>1. /\ sp \in Int /\ -1 <= sp /\ sp <= F /\ F \in Int /\ F < A - 3 /\ A \in Nat
      /\ E \in Int /\ A - 1 <= E /\ E < old /\ old \in Nat /\ old <= StackTop
      /\ E = A + N - 1 /\ N \in Nat /\ L \in Nat /\ F = A - 4 - L /\ StackTop \in Nat
  BY TopFacts, Stack
<1>2. i \in 0 .. N - 1 \/ \E k \in 0 .. L - 1 : i = -(k + 4)
  BY DEF SlotOperands, SlotIndex, SlotCount
<1> HIDE DEF F, E, A, N, L, sp, old
<1>3. A + i \in 0 .. StackTop /\ A + i > F /\ (A + i < A - 3 \/ (A <= A + i /\ A + i <= E))
  <2>1. CASE i \in 0 .. N - 1
    BY <1>1, <2>1
  <2>2. CASE \E k \in 0 .. L - 1 : i = -(k + 4)
    <3>1. PICK k \in 0 .. L - 1 : i = -(k + 4)
      BY <2>2
    <3>2. A + i = A - 4 - k /\ A - 4 - k > F
      BY <1>1, <3>1
    <3> QED BY <1>1, <3>1, <3>2
  <2> QED BY <1>2, <2>1, <2>2
<1> QED BY <1>3 DEF A, E, F

\* A slot with the tag of a value is one.
LEMMA ValueSlots == \A s \in Slots : s.tag = "value" => s \in Datums
BY DEF Slots, Datums, Zero, Datum, Area, Environment, ReturnAddress, Slot

LEMMA CanPushFacts ==
    ASSUME StackInv, runs # << >>, run.at \in {"instruction", "string"}, run.sp > 0,
           NEW d \in Datums, Push(d)
    PROVE  StackInv'
<1> DEFINE sp == run.sp
<1>1. /\ sp \in Int /\ sp <= FrameFloor(Top) /\ FrameFloor(Top) \in Int /\ sp > 0
      /\ FrameFloor(Top) < run.area - 3 /\ run.area \in Nat /\ run.area - 1 <= End(Top)
      /\ End(Top) \in Int /\ End(Top) < run.old /\ run.old \in Nat /\ run.old <= StackTop
  BY TopFacts
<1>2. memory' = [memory EXCEPT ![sp] = d] /\ Instruction(memory', sp - 1)
  BY DEF Push, Instruction
<1>3. TempsHold(memory, sp)
  BY TopFacts
<1> HIDE DEF sp
<1>4. sp \in 0 .. StackTop /\ sp < run.area - 3
  BY <1>1, Stack
<1>5. /\ memory' \in [0 .. StackTop -> Slots] /\ Keeps(memory, memory', Top, StackTop)
      /\ memory'[sp] = d /\ \A a \in 0 .. StackTop : a # sp => memory'[a] = memory[a]
  BY <1>2, <1>4, WriteTop
<1>6. TempsHold(memory', sp - 1)
  <2> SUFFICES ASSUME NEW a \in sp - 1 + 1 .. FrameFloor(Top) PROVE memory'[a] \in Datums
    BY DEF TempsHold
  <2>1. CASE a = sp
    BY <1>5, <2>1
  <2>2. CASE a # sp
    <3>1. a \in sp + 1 .. FrameFloor(Top)
      BY <1>1, <2>2
    <3>2. FrameFloor(Top) <= StackTop
      BY <1>1, Stack
    <3>3. a \in 0 .. StackTop
      BY <1>1, <3>1, <3>2, Stack
    <3> QED BY <1>3, <1>5, <2>2, <3>1, <3>3 DEF TempsHold
  <2> QED BY <2>1, <2>2
<1>7. sp - 1 \in Int /\ -1 <= sp - 1 /\ sp - 1 <= FrameFloor(Top)
  BY <1>1
<1> QED BY <1>2, <1>5, <1>6, <1>7, Simple

LEMMA PushValueStep == ASSUME StackInv, PushValue PROVE StackInv'
<1>1. runs # << >> /\ run.at = "instruction" /\ run.sp > 0
  BY DEF PushValue, Executing, CanPush
<1>2. PICK v \in Values : Push(Datum(v))
  BY DEF PushValue
<1>3. Datum(v) \in Datums
  BY DEF Datums
<1> QED BY <1>1, <1>2, <1>3, CanPushFacts

LEMMA LoadSlotStep == ASSUME StackInv, LoadSlot PROVE StackInv'
<1>1. runs # << >> /\ run.at = "instruction" /\ run.sp > 0
  BY DEF LoadSlot, Executing, CanPush
<1>2. PICK i \in SlotOperands : memory[run.area + i].tag = "value" /\ Push(memory[run.area + i])
  BY DEF LoadSlot
<1>3. memory[run.area + i] \in Slots
  BY <1>1, OperandFacts DEF StackInv, TypeOK
<1>4. memory[run.area + i] \in Datums
  BY <1>2, <1>3, ValueSlots
<1> QED BY <1>1, <1>2, <1>4, CanPushFacts

LEMMA PushStringStep == ASSUME StackInv, PushString PROVE StackInv'
<1>1. runs # << >> /\ run.at = "string"
  BY DEF PushString
<1>2. PICK v \in Values : Push(Datum(v))
  BY DEF PushString
<1>3. Datum(v) \in Datums
  BY DEF Datums
<1>4. run.sp > 0
  <2>1. AtInv(memory, run, Top) /\ run.sp \in Int
    BY <1>1, TopFacts
  <2> QED BY <1>1, <2>1 DEF AtInv
<1> QED BY <1>1, <1>2, <1>3, <1>4, CanPushFacts

LEMMA TempsFacts ==
    ASSUME StackInv, runs # << >>, run.at = "instruction", NEW n \in Nat, Temps >= n
    PROVE  run.sp + n <= FrameFloor(Top)
<1> DEFINE F == FrameFloor(Top)
           sp == run.sp
<1>1. F \in Int /\ sp \in Int
  BY TopFacts
<1>2. F - sp >= n
  BY TopFacts DEF Temps
<1> HIDE DEF F, sp
<1>3. sp + n <= F
  BY <1>1, <1>2
<1> QED BY <1>3 DEF sp, F

LEMMA StoreSlotStep == ASSUME StackInv, StoreSlot PROVE StackInv'
<1>1. runs # << >> /\ run.at = "instruction" /\ Temps >= 1
  BY DEF StoreSlot, Executing
<1>2. PICK i \in SlotOperands :
        Instruction([memory EXCEPT ![run.area + i] = memory[run.sp + 1]], run.sp + 1)
  BY DEF StoreSlot
<1> DEFINE sp == run.sp
           x == run.area + i
<1>3. /\ sp \in Int /\ -1 <= sp /\ FrameFloor(Top) \in Int /\ sp + 1 <= FrameFloor(Top)
      /\ FrameFloor(Top) < run.area - 3 /\ run.area \in Nat /\ run.area - 1 <= End(Top)
      /\ End(Top) \in Int /\ End(Top) < run.old /\ run.old \in Nat /\ run.old <= StackTop
  <2>1. run.sp + 1 <= FrameFloor(Top)
    BY <1>1, TempsFacts
  <2> QED BY <1>1, <2>1, TopFacts
<1>4. /\ x \in 0 .. StackTop /\ x > FrameFloor(Top)
      /\ x < run.area - 3 \/ (run.area <= x /\ x <= End(Top))
  BY <1>1, OperandFacts
<1>5. memory' = [memory EXCEPT ![x] = memory[sp + 1]] /\ Instruction(memory', sp + 1)
  BY <1>2 DEF Instruction
<1>6. TempsHold(memory, sp)
  BY <1>1, TopFacts
<1> HIDE DEF sp, x
<1>7. memory[sp + 1] \in Datums
  BY <1>3, <1>6 DEF TempsHold
<1>8. /\ memory' \in [0 .. StackTop -> Slots] /\ Keeps(memory, memory', Top, StackTop)
      /\ \A a \in 0 .. StackTop : a # x => memory'[a] = memory[a]
  BY <1>1, <1>4, <1>5, <1>7, WriteTop
<1>9. TempsHold(memory', sp + 1)
  <2> SUFFICES ASSUME NEW a \in sp + 1 + 1 .. FrameFloor(Top) PROVE memory'[a] \in Datums
    BY DEF TempsHold
  <2>1. a \in sp + 1 .. FrameFloor(Top) /\ a # x
    BY <1>3, <1>4
  <2>2. FrameFloor(Top) <= StackTop
    BY <1>3, Stack
  <2>3. a \in 0 .. StackTop
    BY <1>3, <2>1, <2>2, Stack
  <2> QED BY <1>6, <1>8, <2>1, <2>3 DEF TempsHold
<1>10. sp + 1 \in Int /\ -1 <= sp + 1 /\ sp + 1 <= FrameFloor(Top)
  BY <1>3
<1> QED BY <1>1, <1>5, <1>8, <1>9, <1>10, Simple

LEMMA PopStep == ASSUME StackInv, Pop PROVE StackInv'
<1>1. runs # << >> /\ run.at = "instruction" /\ Temps >= 1 /\ Instruction(memory, run.sp + 1)
  BY DEF Pop, Executing
<1> DEFINE sp == run.sp
<1>2. sp \in Int /\ -1 <= sp /\ FrameFloor(Top) \in Int /\ sp + 1 <= FrameFloor(Top)
  <2>1. run.sp + 1 <= FrameFloor(Top)
    BY <1>1, TempsFacts
  <2> QED BY <1>1, <2>1, TopFacts
<1>3. TempsHold(memory, sp)
  BY <1>1, TopFacts
<1>4. memory' = memory /\ Instruction(memory', sp + 1)
  BY <1>1 DEF Instruction
<1> HIDE DEF sp
<1>5. memory' \in [0 .. StackTop -> Slots] /\ Keeps(memory, memory', Top, StackTop)
  BY <1>4 DEF StackInv, TypeOK, Keeps
<1>6. TempsHold(memory', sp + 1)
  <2> SUFFICES ASSUME NEW a \in sp + 1 + 1 .. FrameFloor(Top) PROVE memory'[a] \in Datums
    BY DEF TempsHold
  <2>1. a \in sp + 1 .. FrameFloor(Top)
    BY <1>2
  <2> QED BY <1>3, <1>4, <2>1 DEF TempsHold
<1>7. sp + 1 \in Int /\ -1 <= sp + 1
  BY <1>2
<1> QED BY <1>1, <1>2, <1>4, <1>5, <1>6, <1>7, Simple

LEMMA BinopStep == ASSUME StackInv, Binop PROVE StackInv'
<1>1. runs # << >> /\ run.at = "instruction" /\ Temps >= 2
  BY DEF Binop, Executing
<1>2. PICK v \in Values : Instruction([memory EXCEPT ![run.sp + 2] = Datum(v)], run.sp + 1)
  BY DEF Binop
<1> DEFINE sp == run.sp
           x == run.sp + 2
           d == Datum(v)
<1>3. /\ sp \in Int /\ -1 <= sp /\ FrameFloor(Top) \in Int /\ sp + 2 <= FrameFloor(Top)
      /\ FrameFloor(Top) < run.area - 3 /\ run.area \in Nat /\ run.area - 1 <= End(Top)
      /\ End(Top) \in Int /\ End(Top) < run.old /\ run.old \in Nat /\ run.old <= StackTop
  <2>1. run.sp + 2 <= FrameFloor(Top)
    BY <1>1, TempsFacts
  <2> QED BY <1>1, <2>1, TopFacts
<1>4. memory' = [memory EXCEPT ![x] = d] /\ Instruction(memory', sp + 1) /\ x = sp + 2
  BY <1>2 DEF Instruction
<1>5. d \in Datums
  BY DEF Datums
<1>6. TempsHold(memory, sp)
  BY <1>1, TopFacts
<1> HIDE DEF sp, x, d
<1>7. x \in 0 .. StackTop /\ x < run.area - 3
  BY <1>3, <1>4, Stack
<1>8. /\ memory' \in [0 .. StackTop -> Slots] /\ Keeps(memory, memory', Top, StackTop)
      /\ memory'[x] = d /\ \A a \in 0 .. StackTop : a # x => memory'[a] = memory[a]
  BY <1>1, <1>4, <1>5, <1>7, WriteTop
<1>9. TempsHold(memory', sp + 1)
  <2> SUFFICES ASSUME NEW a \in sp + 1 + 1 .. FrameFloor(Top) PROVE memory'[a] \in Datums
    BY DEF TempsHold
  <2>1. CASE a = x
    BY <1>5, <1>8, <2>1
  <2>2. CASE a # x
    <3>1. a \in sp + 1 .. FrameFloor(Top)
      BY <1>3
    <3>2. FrameFloor(Top) <= StackTop
      BY <1>3, Stack
    <3>3. a \in 0 .. StackTop
      BY <1>3, <3>1, <3>2, Stack
    <3> QED BY <1>6, <1>8, <2>2, <3>1, <3>3 DEF TempsHold
  <2> QED BY <2>1, <2>2
<1>10. sp + 1 \in Int /\ -1 <= sp + 1 /\ sp + 1 <= FrameFloor(Top)
  BY <1>3
<1> QED BY <1>1, <1>4, <1>8, <1>9, <1>10, Simple

\* LDSTR leaves the stack alone until the string is allocated.
LEMMA LoadStringStep == ASSUME StackInv, LoadString PROVE StackInv'
<1> DEFINE q == [run EXCEPT !.at = "string"]
<1>1. /\ runs # << >> /\ run.at = "instruction" /\ run.sp > 0
      /\ runs' = [runs EXCEPT ![1].at = "string"]
      /\ memory' = memory /\ stackPtr' = stackPtr /\ result' = result
  BY DEF LoadString, Executing, CanPush
<1>2. /\ runs \in Seq(Run) /\ run \in Run /\ run = runs[1] /\ 1 \in 1 .. Len(runs)
  BY <1>1, RunsFacts
<1>3. runs' = [runs EXCEPT ![1] = q]
  BY <1>1, <1>2
<1>4. /\ q.sp = run.sp /\ q.at = "string" /\ q.area = run.area /\ q.proc = run.proc
      /\ q.env = run.env /\ q.old = run.old /\ q.passed = run.passed
      /\ q \in Run
  BY <1>2 DEF Run
<1> HIDE DEF q
<1>5. TypeOK'
  <2>1. runs' \in Seq(Run) /\ Len(runs') = Len(runs)
    BY <1>2, <1>3, <1>4
  <2> QED BY <1>1, <2>1 DEF TypeOK, StackInv
<1>6. KeepsUp(memory, memory', run.old)
  BY <1>1 DEF KeepsUp
<1>7. PICK fs : Links(memory, fs, run.old) /\ fs[1] = Top
  BY <1>1, TopFacts
<1>8. AtInv(memory', q, Top)
  <2>1. AtInv(memory, run, Top) /\ run.sp \in Int
    BY <1>1, TopFacts
  <2> QED BY <1>1, <1>4, <2>1 DEF AtInv
<1>9. RunInv(memory', q)
  BY <1>1, <1>4, <1>7, <1>8 DEF RunInv
<1> QED BY <1>1, <1>3, <1>4, <1>5, <1>6, <1>9, TopStep

-----------------------------------------------------------------------------
(* vm_run begins and ends.                                                 *)

LEMMA WaitsBelow ==
    ASSUME NEW m, NEW r \in Run, r.at \in {"special", "specialTail"}, RunInv(m, r)
    PROVE  r.sp < r.old
<1>1. PICK fs : Links(m, fs, r.old) /\ AtInv(m, r, fs[1])
  BY DEF RunInv
<1> DEFINE F == FrameFloor(fs[1])
           E == End(fs[1])
           A == fs[1].area
           sp == r.sp
           n == r.passed
           old == r.old
<1>2. A \in Nat /\ F \in Int /\ E \in Int /\ F < A - 3 /\ A - 1 <= E /\ E < old
  BY <1>1, RunFacts, LinksFacts
<1>3. sp \in Int /\ n \in Nat /\ old \in Nat
  BY RunFacts
<1>4. sp + n <= F \/ sp = A - 4
  <2>1. CASE r.at = "special"
    BY <1>1, <2>1 DEF AtInv
  <2>2. CASE r.at = "specialTail"
    <3>1. r.area = A /\ sp = r.area - SlotCount - 1
      BY <1>1, <2>2 DEF AtInv
    <3> HIDE DEF A, sp
    <3>2. sp = A - 3 - 1
      BY <3>1 DEF SlotCount
    <3> QED BY <1>2, <3>2
  <2> QED BY <2>1, <2>2
<1> HIDE DEF F, E, A, sp, n, old
<1>5. sp < old
  <2>1. CASE sp + n <= F
    BY <1>2, <1>3, <2>1
  <2>2. CASE sp = A - 4
    BY <1>2, <1>3, <2>2
  <2> QED BY <1>4, <2>1, <2>2
<1> QED BY <1>5 DEF sp, old

\* A new run starts below the one that called it, at environment->stack_ptr.
LEMMA TopPush ==
    ASSUME StackInv, TypeOK', NEW q, runs' = <<q>> \o runs, q.old = stackPtr,
           q.at = "instruction", runs = << >> \/ run.at \in {"special", "specialTail"},
           KeepsUp(memory, memory', stackPtr), RunInv(memory', q)
    PROVE  StackInv'
<1> DEFINE L == Len(runs)
<1>1. /\ runs \in Seq(Run) /\ L \in Nat
      /\ \A i \in 1 .. L : runs[i] \in Run /\ RunInv(memory, runs[i])
      /\ runs # << >> => run = runs[1] /\ L >= 1 /\ run \in Run /\ RunInv(memory, run)
  BY RunsFacts
<1>2. /\ Len(runs') = L + 1 /\ runs'[1] = q /\ runs' # << >>
      /\ \A i \in 2 .. L + 1 : runs'[i] = runs[i - 1] /\ i - 1 \in 1 .. L
  BY <1>1
<1>3. L = 0 => runs = << >>
  BY <1>1
<1> HIDE DEF L
<1>4. /\ \A i \in 1 .. L : runs[i].sp \in Int /\ runs[i].old \in Int
      /\ stackPtr \in Int
  BY <1>1, RunFacts, Stack DEF StackInv, TypeOK
<1>5. ASSUME NEW j \in 1 .. L
      PROVE  stackPtr <= runs[j].sp /\ runs[j].at \in {"special", "specialTail"}
  <2>1. run.at \in {"special", "specialTail"} /\ run = runs[1] /\ run \in Run /\ RunInv(memory, run)
        /\ 1 \in 1 .. L /\ runs # << >>
    <3>1. L # 0
      BY <1>1
    <3>2. runs # << >>
      BY <3>1 DEF L
    <3> QED BY <1>1, <3>2
  <2>2. stackPtr = runs[1].sp
    BY <2>1 DEF StackInv, NestInv
  <2>3. CASE j = 1
    BY <1>4, <2>1, <2>2, <2>3
  <2>4. CASE j # 1
    <3>1. j \in 1 + 1 .. L
      BY <1>1, <2>4
    <3>2. runs[1].old <= runs[j].sp /\ runs[j].at \in {"special", "specialTail"}
      BY <2>1, <3>1 DEF StackInv, NestInv, L
    <3>3. runs[1].sp < runs[1].old
      BY <2>1, WaitsBelow
    <3>4. runs[1].sp \in Int /\ runs[1].old \in Int /\ runs[j].sp \in Int
      BY <1>4, <2>1
    <3> QED BY <2>2, <3>2, <3>3, <3>4
  <2> QED BY <2>3, <2>4
<1>6. ASSUME NEW i \in 1 .. Len(runs')
      PROVE  /\ i = Len(runs') => runs'[i].old = StackTop
             /\ i # Len(runs') => runs'[i].old = runs'[i + 1].sp
  <2>1. CASE i = 1
    <3>1. CASE L = 0
      <4>1. stackPtr = StackTop
        BY <1>3, <3>1 DEF StackInv, NestInv
      <4> QED BY <1>2, <2>1, <3>1, <4>1
    <3>2. CASE L # 0
      <4>1. runs # << >>
        BY <3>2 DEF L
      <4>2. stackPtr = runs[1].sp
        BY <1>1, <4>1 DEF StackInv, NestInv
      <4>3. 2 \in 2 .. L + 1 /\ L + 1 # 1
        BY <1>1, <3>2
      <4>4. runs'[2] = runs[1]
        BY <1>2, <4>3
      <4> QED BY <1>2, <2>1, <4>2, <4>3, <4>4
    <3> QED BY <3>1, <3>2
  <2>2. CASE i # 1
    <3>1. i \in 2 .. L + 1 /\ i - 1 \in 1 .. L /\ (i = L + 1 => i - 1 = L)
      BY <1>1, <1>2, <2>2
    <3>2. /\ i - 1 = L => runs[i - 1].old = StackTop
          /\ i - 1 # L => runs[i - 1].old = runs[(i - 1) + 1].sp
      BY <3>1 DEF StackInv, NestInv, L
    <3>3. i # L + 1 => i - 1 # L /\ i + 1 \in 2 .. L + 1 /\ (i - 1) + 1 = (i + 1) - 1
      BY <1>1, <3>1
    <3>4. runs'[i] = runs[i - 1] /\ (i # L + 1 => runs'[i + 1] = runs[(i - 1) + 1])
      BY <1>2, <3>1, <3>3
    <3> QED BY <1>2, <3>1, <3>2, <3>3, <3>4
  <2> QED BY <2>1, <2>2
<1>7. ASSUME NEW i \in 1 .. Len(runs'), NEW j \in i + 1 .. Len(runs')
      PROVE  runs'[i].old <= runs'[j].sp /\ runs'[j].at \in {"special", "specialTail"}
  <2>1. j \in 2 .. L + 1 /\ j - 1 \in 1 .. L
    BY <1>1, <1>2
  <2>2. runs'[j] = runs[j - 1]
    BY <1>2, <2>1
  <2>3. CASE i = 1
    BY <1>2, <1>5, <2>1, <2>2, <2>3
  <2>4. CASE i # 1
    <3>1. i \in 2 .. L + 1 /\ i - 1 \in 1 .. L /\ j - 1 \in (i - 1) + 1 .. L
      BY <1>1, <1>2, <2>4
    <3>2. runs'[i] = runs[i - 1]
      BY <1>2, <3>1
    <3>3. runs[i - 1].old <= runs[j - 1].sp /\ runs[j - 1].at \in {"special", "specialTail"}
      BY <3>1 DEF StackInv, NestInv, L
    <3> QED BY <2>2, <3>2, <3>3
  <2> QED BY <2>3, <2>4
<1>8. NestInv'
  <2>1. runs'[1].at \notin {"special", "specialTail"} /\ runs' # << >>
    BY <1>2
  <2> QED BY <1>6, <1>7, <2>1 DEF NestInv
<1>9. ASSUME NEW i \in 1 .. Len(runs') PROVE RunInv(memory', runs'[i])
  <2>1. CASE i = 1
    BY <1>2, <2>1
  <2>2. CASE i # 1
    <3>1. i \in 2 .. L + 1 /\ i - 1 \in 1 .. L
      BY <1>1, <1>2, <2>2
    <3> DEFINE r == runs[i - 1]
    <3>2. r \in Run /\ RunInv(memory, r) /\ r.at \in {"special", "specialTail"} /\ stackPtr <= r.sp
          /\ r.sp \in Int
      BY <1>1, <1>4, <1>5, <3>1
    <3>3. runs'[i] = r
      BY <1>2, <3>1
    <3> HIDE DEF r
    <3>4. KeepsUp(memory, memory', r.sp)
      <4> SUFFICES ASSUME NEW a \in r.sp + 1 .. StackTop PROVE memory'[a] = memory[a]
        BY DEF KeepsUp
      <4>1. a \in stackPtr + 1 .. StackTop
        BY <1>4, <3>2, Stack
      <4> QED BY <4>1 DEF KeepsUp
    <3>5. RunInv(memory', r)
      BY <3>2, <3>4, RunKept
    <3> QED BY <3>3, <3>5
  <2> QED BY <2>1, <2>2
<1> QED BY <1>8, <1>9 DEF StackInv

\* The end of a run gives environment->stack_ptr back to the one that called it.
LEMMA TopPop ==
    ASSUME StackInv, TypeOK', runs # << >>, runs' = Tail(runs), stackPtr' = run.old,
           KeepsUp(memory, memory', run.old)
    PROVE  StackInv'
<1> DEFINE L == Len(runs)
<1>1. /\ runs \in Seq(Run) /\ L \in Nat /\ L >= 1 /\ run = runs[1] /\ run \in Run
      /\ \A i \in 1 .. L : runs[i] \in Run /\ RunInv(memory, runs[i])
  BY RunsFacts
<1>2. /\ Len(runs') = L - 1
      /\ \A i \in 1 .. L - 1 : runs'[i] = runs[i + 1]
  BY <1>1
<1> HIDE DEF L
<1>3. \A i \in 1 .. L - 1 : i + 1 \in 1 .. L /\ i + 1 \in 1 + 1 .. L
  BY <1>1
<1>4. run.old \in Int /\ \A i \in 1 .. L : runs[i].sp \in Int
  BY <1>1, RunFacts
<1>5. ASSUME NEW i \in 1 .. Len(runs')
      PROVE  /\ i = Len(runs') => runs'[i].old = StackTop
             /\ i # Len(runs') => runs'[i].old = runs'[i + 1].sp
  <2>1. i \in 1 .. L - 1 /\ i + 1 \in 1 .. L /\ (i = L - 1 => i + 1 = L)
    BY <1>1, <1>2, <1>3
  <2>2. /\ i + 1 = L => runs[i + 1].old = StackTop
        /\ i + 1 # L => runs[i + 1].old = runs[(i + 1) + 1].sp
    BY <2>1 DEF StackInv, NestInv, L
  <2>3. i # L - 1 => i + 1 # L /\ i + 1 \in 1 .. L - 1
    BY <1>1, <2>1
  <2>4. runs'[i] = runs[i + 1] /\ (i # L - 1 => runs'[i + 1] = runs[(i + 1) + 1])
    BY <1>2, <2>1, <2>3
  <2> QED BY <1>2, <2>1, <2>2, <2>3, <2>4
<1>6. ASSUME NEW i \in 1 .. Len(runs'), NEW j \in i + 1 .. Len(runs')
      PROVE  runs'[i].old <= runs'[j].sp /\ runs'[j].at \in {"special", "specialTail"}
  <2>1. /\ i \in 1 .. L - 1 /\ j \in 1 .. L - 1
        /\ i + 1 \in 1 .. L /\ j + 1 \in (i + 1) + 1 .. L
    BY <1>1, <1>2
  <2>2. runs'[i] = runs[i + 1] /\ runs'[j] = runs[j + 1]
    BY <1>2, <2>1
  <2>3. runs[i + 1].old <= runs[j + 1].sp /\ runs[j + 1].at \in {"special", "specialTail"}
    BY <2>1 DEF StackInv, NestInv, L
  <2> QED BY <2>2, <2>3
<1>a. L - 1 = 0 => 1 = L /\ 1 \in 1 .. L
  BY <1>1
<1>7. runs' = << >> => stackPtr' = StackTop
  <2> SUFFICES ASSUME runs' = << >> PROVE stackPtr' = StackTop
    OBVIOUS
  <2>1. Len(runs') = 0
    <3>1. Len(runs') = Len(<< >>)
      BY Zenon
    <3>2. Len(<< >>) = 0
      OBVIOUS
    <3> QED BY <3>1, <3>2, Zenon
  <2>2. 1 = L /\ 1 \in 1 .. L
    <3>1. L - 1 = 0
      BY <1>2, <2>1, Zenon
    <3> QED BY <1>a, <3>1, Zenon
  <2>3. runs[1].old = StackTop
    BY <2>2 DEF StackInv, NestInv, L
  <2> QED BY <1>1, <2>3
<1>8. runs' # << >> => stackPtr' = runs'[1].sp
  <2> SUFFICES ASSUME runs' # << >> PROVE stackPtr' = runs'[1].sp
    OBVIOUS
  <2>1. runs' \in Seq(Run)
    BY DEF TypeOK
  <2>2. Len(runs') # 0
    BY <2>1
  <2>3. 1 \in 1 .. L - 1 /\ 1 \in 1 .. L /\ 1 # L
    BY <1>1, <1>2, <2>2
  <2>4. runs[1].old = runs[1 + 1].sp
    BY <2>3 DEF StackInv, NestInv, L
  <2> QED BY <1>1, <1>2, <2>3, <2>4
<1>9. NestInv'
  BY <1>5, <1>6, <1>7, <1>8 DEF NestInv
<1>10. ASSUME NEW i \in 1 .. Len(runs') PROVE RunInv(memory', runs'[i])
  <2>1. i \in 1 .. L - 1 /\ i + 1 \in 1 .. L /\ i + 1 \in 1 + 1 .. L /\ 1 \in 1 .. L
    BY <1>1, <1>2, <1>3
  <2> DEFINE r == runs[i + 1]
  <2>2. run.old <= r.sp /\ r.at \in {"special", "specialTail"}
    BY <1>1, <2>1 DEF StackInv, NestInv, L
  <2>3. r \in Run /\ RunInv(memory, r) /\ r.sp \in Int
    BY <1>1, <1>4, <2>1
  <2>4. runs'[i] = r
    BY <1>2, <2>1
  <2> HIDE DEF r
  <2>5. KeepsUp(memory, memory', r.sp)
    <3> SUFFICES ASSUME NEW a \in r.sp + 1 .. StackTop PROVE memory'[a] = memory[a]
      BY DEF KeepsUp
    <3>1. a \in run.old + 1 .. StackTop
      BY <1>4, <2>2, <2>3, Stack
    <3> QED BY <3>1 DEF KeepsUp
  <2>6. RunInv(memory', r)
    BY <2>2, <2>3, <2>5, RunKept
  <2> QED BY <2>4, <2>6
<1> QED BY <1>9, <1>10 DEF StackInv

LEMMA ConcatFacts ==
    ASSUME NEW S, NEW s \in Seq(S), NEW t \in Seq(S)
    PROVE  /\ s \o t \in Seq(S) /\ Len(s \o t) = Len(s) + Len(t)
           /\ \A i \in 1 .. Len(s) : (s \o t)[i] = s[i]
           /\ \A i \in 1 .. Len(t) : (s \o t)[Len(s) + i] = t[i]
OBVIOUS

\* A sequence written into the stack.
LEMMA OverwriteFacts ==
    ASSUME memory \in [0 .. StackTop -> Slots], NEW base \in Int, NEW seq \in Seq(Slots)
    PROVE  /\ Overwrite(base, seq) \in [0 .. StackTop -> Slots]
           /\ \A a \in 0 .. StackTop :
                 /\ a < base \/ a >= base + Len(seq) => Overwrite(base, seq)[a] = memory[a]
                 /\ base <= a /\ a < base + Len(seq) => Overwrite(base, seq)[a] = seq[a - base + 1]
<1>1. Len(seq) \in Nat /\ DOMAIN seq = 1 .. Len(seq) /\ DOMAIN memory = 0 .. StackTop
  OBVIOUS
<1>2. ASSUME NEW a \in 0 .. StackTop
      PROVE  Overwrite(base, seq)[a]
               = IF a - base + 1 \in 1 .. Len(seq) THEN seq[a - base + 1] ELSE memory[a]
  BY <1>1 DEF Overwrite
<1>3. ASSUME NEW a \in 0 .. StackTop
      PROVE  /\ a < base \/ a >= base + Len(seq) => ~ (a - base + 1 \in 1 .. Len(seq))
             /\ base <= a /\ a < base + Len(seq) => a - base + 1 \in 1 .. Len(seq)
  BY <1>1
<1>4. ASSUME NEW a \in 0 .. StackTop PROVE Overwrite(base, seq)[a] \in Slots
  BY <1>1, <1>2
<1>5. Overwrite(base, seq) = [a \in 0 .. StackTop |-> Overwrite(base, seq)[a]]
  BY <1>1 DEF Overwrite
<1>6. Overwrite(base, seq) \in [0 .. StackTop -> Slots]
  BY <1>4, <1>5
<1> QED BY <1>2, <1>3, <1>6

LEMMA ChainFacts ==
    ASSUME NEW p \in {Null} \cup Procedures, NEW offset \in {0} \cup Offsets,
           NEW e \in {0} \cup Range(EnvOf), NEW a \in 0 .. StackTop
    PROVE  /\ Chain(p, offset, e, a) \in Seq(Slots) /\ Len(Chain(p, offset, e, a)) = 3
           /\ Chain(p, offset, e, a)[1] = ReturnAddress(p, offset)
           /\ Chain(p, offset, e, a)[2] = Environment(e)
           /\ Chain(p, offset, e, a)[3] = Area(a)
<1>1. /\ ReturnAddress(p, offset) \in Slots /\ Environment(e) \in Slots /\ Area(a) \in Slots
  BY DEF Slots
<1> HIDE DEF ReturnAddress, Environment, Area, Slots
<1> QED BY <1>1 DEF Chain

\* What vm_run writes.
LEMMA VmRunStep ==
    ASSUME StackInv, NEW p \in Procedures, NEW args \in Arguments(p), VmRun(p, args, EnvOf[p]),
           Len(runs) < MaxRuns, runs = << >> \/ run.at \in {"special", "specialTail"}
    PROVE  /\ StackInv' /\ KeepsUp(memory, memory', stackPtr)
           /\ stackPtr - NumArgs[p] \in 0 .. StackTop
           /\ memory'[stackPtr - NumArgs[p] - PcChain] = ReturnAddress(Null, Null)
<1> DEFINE n == NumArgs[p]
           l == NumLocals[p]
           top == stackPtr
           area == stackPtr - NumArgs[p]
           low == Floor(area, p)
           chain == Chain(Null, 0, Null, Null)
           seq == chain \o args
           f == [area |-> area, proc |-> p]
           q == [sp |-> low, area |-> area, proc |-> p, pc |-> 0, env |-> EnvOf[p],
                 old |-> stackPtr, at |-> "instruction", passed |-> 0, oldArea |-> Null]
<1>1. /\ memory \in [0 .. StackTop -> Slots] /\ stackPtr \in 0 .. StackTop
      /\ runs \in Seq(Run) /\ Len(runs) \in Nat /\ result \in Datums
  BY RunsFacts DEF StackInv, TypeOK, Datums
<1>2. /\ low >= n - 1
      /\ memory' = [a \in DOMAIN memory |->
                      IF a < n THEN Zero ELSE Overwrite(area - PcChain, seq)[a]]
      /\ stackPtr' = area - 1 /\ runs' = <<q>> \o runs /\ result' = result
  BY DEF VmRun
<1>3. /\ n \in Nat /\ l \in Nat /\ top \in Nat /\ top <= StackTop /\ StackTop \in Nat
      /\ area = top - n
      /\ EnvOf[p] \in {0} \cup Range(EnvOf)
  BY <1>1, Stack
<1>4. low = area - 4 - l
  <2>1. area \in Int /\ l \in Nat
    BY <1>3
  <2> HIDE DEF area
  <2> QED BY <2>1 DEF Floor, SlotCount
<1>5. args \in Seq(Datums) /\ Len(args) = n /\ \A i \in 1 .. n : args[i] \in Datums
  BY <1>3 DEF Arguments, Datums
<1>6. /\ chain \in Seq(Slots) /\ Len(chain) = 3
      /\ chain[1] = ReturnAddress(Null, Null)
  BY ChainFacts, Stack DEF Null
<1>7. seq \in Seq(Slots) /\ Len(seq) = 3 + n /\ seq[1] = ReturnAddress(Null, Null)
      /\ \A i \in 1 .. n : seq[3 + i] = args[i]
  <2>1. args \in Seq(Slots)
    BY <1>5, Stack
  <2> HIDE DEF chain
  <2>2. /\ seq \in Seq(Slots) /\ Len(seq) = Len(chain) + Len(args)
        /\ \A i \in 1 .. Len(chain) : seq[i] = chain[i]
        /\ \A i \in 1 .. Len(args) : seq[Len(chain) + i] = args[i]
    <3>1. chain \in Seq(Slots)
      BY <1>6
    <3> HIDE DEF chain, Slots
    <3> QED BY <2>1, <3>1
  <2>3. 1 \in 1 .. 3
    OBVIOUS
  <2> HIDE DEF seq
  <2> QED BY <1>3, <1>5, <1>6, <2>2, <2>3
<1> HIDE DEF n, l, top, area, low, chain, seq
<1>8. /\ area \in Nat /\ area <= StackTop /\ low \in Int /\ low < area - 3 /\ -1 <= low
      /\ area - 3 \in Int /\ area - 3 >= n /\ area + n = top /\ area - 1 \in 0 .. StackTop
  BY <1>2, <1>3, <1>4
<1> DEFINE w == Overwrite(area - 3, seq)
<1>9. /\ w \in [0 .. StackTop -> Slots]
      /\ \A a \in 0 .. StackTop :
           /\ a < area - 3 \/ a >= area - 3 + Len(seq) => w[a] = memory[a]
           /\ area - 3 <= a /\ a < area - 3 + Len(seq) => w[a] = seq[a - (area - 3) + 1]
  BY <1>1, <1>7, <1>8, OverwriteFacts
<1> HIDE DEF w
<1>10. /\ memory' \in [0 .. StackTop -> Slots]
       /\ \A a \in 0 .. StackTop : ~ (a < n) => memory'[a] = w[a]
  <2>1. memory' = [a \in 0 .. StackTop |-> IF a < n THEN Zero ELSE w[a]]
    BY <1>1, <1>2 DEF PcChain, w
  <2>2. Zero \in Slots
    BY DEF Slots
  <2> HIDE DEF Zero, Slots
  <2> QED BY <1>9, <2>1, <2>2
<1>11. memory'[area - 3] = ReturnAddress(Null, Null)
  <2>1. area - 3 \in 0 .. StackTop /\ ~ (area - 3 < n) /\ area - 3 < area - 3 + Len(seq)
        /\ area - 3 - (area - 3) + 1 = 1
    <3> DEFINE b == area - 3
    <3>1. b \in Int /\ b >= n /\ b <= StackTop /\ n \in Nat /\ StackTop \in Nat /\ Len(seq) = 3 + n
      BY <1>3, <1>7, <1>8
    <3> HIDE DEF b
    <3>2. b \in 0 .. StackTop /\ ~ (b < n) /\ b < b + Len(seq) /\ b - b + 1 = 1 /\ b <= b
      BY <3>1
    <3> QED BY <3>2 DEF b
  <2> DEFINE b == area - 3
  <2>2. b \in 0 .. StackTop /\ ~ (b < n) /\ b <= b /\ b < b + Len(seq) /\ b - b + 1 = 1
    BY <1>8, <2>1
  <2>3. \A a \in 0 .. StackTop : b <= a /\ a < b + Len(seq) => w[a] = seq[a - b + 1]
    BY <1>9
  <2> HIDE DEF b
  <2>4. w[b] = seq[b - b + 1] /\ memory'[b] = w[b]
    BY <1>10, <2>2, <2>3
  <2> QED BY <1>7, <2>2, <2>4 DEF b
<1>12. ASSUME NEW a \in area .. top - 1 PROVE memory'[a] \in Datums
  <2>1. /\ a \in 0 .. StackTop /\ ~ (a < n) /\ area - 3 <= a /\ a < area - 3 + Len(seq)
        /\ a - (area - 3) + 1 = 3 + (a - area + 1) /\ a - area + 1 \in 1 .. n
    BY <1>3, <1>7, <1>8
  <2>2. memory'[a] = seq[3 + (a - area + 1)]
    BY <1>9, <1>10, <2>1
  <2> QED BY <1>5, <1>7, <2>1, <2>2
<1>13. ASSUME NEW a \in top .. StackTop PROVE memory'[a] = memory[a]
  <2>1. a \in 0 .. StackTop /\ ~ (a < n) /\ a >= area - 3 + Len(seq)
    BY <1>3, <1>7, <1>8
  <2> QED BY <1>9, <1>10, <2>1
<1>14. f \in FrameType /\ f.area = area /\ f.proc = p
  BY <1>3, <1>8 DEF FrameType
<1>15. FrameFloor(f) = low /\ End(f) = top - 1
  <2>1. End(f) = area + n - 1 /\ FrameFloor(f) = low
    BY <1>14 DEF End, FrameFloor, n, low
  <2> QED BY <1>3, <1>8, <2>1
<1>16. /\ q.sp = low /\ q.area = area /\ q.proc = p /\ q.env = EnvOf[p] /\ q.old = top
       /\ q.at = "instruction"
  BY DEF low, area, top
<1>17. q \in Run
  <2>1. low \in -1 .. StackTop /\ area \in 0 .. StackTop /\ top \in 0 .. StackTop
    BY <1>3, <1>8
  <2> QED BY <1>3, <2>1, Stack DEF Run, low, area, top, Null
<1> HIDE DEF f, q
<1>18. RunInv(memory', q)
  <2>1. Links(memory', <<f>>, q.old)
    <3>1. q.old \in 0 .. StackTop /\ -1 <= FrameFloor(f) /\ End(f) = q.old - 1
      BY <1>3, <1>8, <1>15, <1>16
    <3>2. memory'[f.area - PcChain] = ReturnAddress(Null, Null)
      BY <1>11, <1>14, Stack
    <3>3. \A a \in f.area .. End(f) : memory'[a] \in Datums
      BY <1>12, <1>14, <1>15
    <3> QED BY <1>14, <3>1, <3>2, <3>3, LinksSingle, Zenon
  <2>2. <<f>>[1] = f
    OBVIOUS
  <2>3. \A a \in low + 1 .. low : FALSE
    BY <1>8
  <2>4. AtInv(memory', q, f)
    BY <1>8, <1>14, <1>15, <1>16, <2>3 DEF AtInv
  <2> QED BY <2>1, <2>2, <2>4 DEF RunInv
<1>19. KeepsUp(memory, memory', stackPtr)
  BY <1>3, <1>13 DEF KeepsUp, top
<1>20. TypeOK'
  <2>1. runs' \in Seq(Run) /\ Len(runs') = Len(runs) + 1
    BY <1>1, <1>2, <1>17
  <2>2. Len(runs') <= MaxRuns
    BY <1>1, <2>1, Stack
  <2> QED BY <1>1, <1>2, <1>8, <1>10, <2>1, <2>2 DEF TypeOK, Datums
<1>21. StackInv'
  BY <1>2, <1>16, <1>18, <1>19, <1>20, TopPush DEF top
<1>22. area \in 0 .. StackTop
  BY <1>3, <1>8
<1> QED BY <1>11, <1>19, <1>21, <1>22 DEF area, PcChain

LEMMA EnterRunStep == ASSUME StackInv, EnterRun PROVE StackInv'
<1>1. runs = << >>
  BY DEF EnterRun
<1>2. PICK p \in Procedures : EnvOf[p] = 0 /\ \E args \in Arguments(p) : VmRun(p, args, 0)
  BY DEF EnterRun
<1>3. PICK args \in Arguments(p) : VmRun(p, args, EnvOf[p])
  BY <1>2
<1>4. Len(runs) < MaxRuns
  BY <1>1, Stack
<1> QED BY <1>1, <1>3, <1>4, VmRunStep

LEMMA ApplyProcedureStep ==
    ASSUME StackInv, "applyClosure" \notin Operations, ApplyProcedure PROVE StackInv'
<1>1. runs # << >> /\ run.at \in {"special", "specialTail"} /\ Len(runs) < MaxRuns
  BY DEF ApplyProcedure
<1>2. PICK p \in Procedures : /\ EnvOf[p] = run.env
                              /\ \E args \in Arguments(p) : VmRun(p, args, run.env)
  BY DEF ApplyProcedure
<1>3. PICK args \in Arguments(p) : VmRun(p, args, EnvOf[p])
  BY <1>2
<1> QED BY <1>1, <1>3, VmRunStep

-----------------------------------------------------------------------------
(* Calls.                                                                  *)

\* What CALL writes is the chain of the new frame, below its arguments at area.
CallWrites(area, offset) ==
    /\ \A a \in area .. StackTop : memory'[a] = memory[a]
    /\ memory'[area - 3] = ReturnAddress(run.proc, offset)
    /\ memory'[area - 2] = Environment(run.env)
    /\ memory'[area - 1] = Area(run.area)

LEMMA CallWritten ==
    ASSUME StackInv, runs # << >>, NEW area \in 3 .. StackTop, NEW offset \in Offsets,
           memory' = Overwrite(area - 3, Chain(run.proc, offset, run.env, run.area))
    PROVE  CallWrites(area, offset) /\ memory' \in [0 .. StackTop -> Slots]
<1> DEFINE chain == Chain(run.proc, offset, run.env, run.area)
<1>1. memory \in [0 .. StackTop -> Slots] /\ run \in Run /\ StackTop \in Nat
  BY RunsFacts, Stack DEF StackInv, TypeOK
<1>7. /\ chain \in Seq(Slots) /\ Len(chain) = 3
      /\ chain[1] = ReturnAddress(run.proc, offset)
      /\ chain[2] = Environment(run.env) /\ chain[3] = Area(run.area)
  <2>1. /\ run.proc \in {Null} \cup Procedures /\ offset \in {0} \cup Offsets
        /\ run.env \in {0} \cup Range(EnvOf) /\ run.area \in 0 .. StackTop
    BY <1>1 DEF Run
  <2> QED BY <2>1, ChainFacts
<1>8. memory' = Overwrite(area - 3, chain) /\ area \in 3 .. StackTop
  OBVIOUS
<1> HIDE DEF chain
<1>15. /\ memory' \in [0 .. StackTop -> Slots]
       /\ \A a \in 0 .. StackTop :
            /\ a < area - 3 \/ a >= area - 3 + Len(chain) => memory'[a] = memory[a]
            /\ area - 3 <= a /\ a < area - 3 + Len(chain) => memory'[a] = chain[a - (area - 3) + 1]
  <2> DEFINE b == area - 3
  <2>1. b \in Int /\ memory' = Overwrite(b, chain) /\ chain \in Seq(Slots)
    BY <1>7, <1>8
  <2> HIDE DEF b
  <2>2. /\ memory' \in [0 .. StackTop -> Slots]
        /\ \A a \in 0 .. StackTop :
             /\ a < b \/ a >= b + Len(chain) => memory'[a] = memory[a]
             /\ b <= a /\ a < b + Len(chain) => memory'[a] = chain[a - b + 1]
    <3> DEFINE w == Overwrite(b, chain)
    <3>1. /\ w \in [0 .. StackTop -> Slots]
          /\ \A a \in 0 .. StackTop :
               /\ a < b \/ a >= b + Len(chain) => w[a] = memory[a]
               /\ b <= a /\ a < b + Len(chain) => w[a] = chain[a - b + 1]
      BY <1>1, <2>1, OverwriteFacts
    <3>2. w = memory'
      BY <2>1
    <3> HIDE DEF w
    <3> QED BY <3>1, <3>2
  <2> QED BY <2>2 DEF b
<1>16. \A a \in area .. StackTop : memory'[a] = memory[a]
  <2> SUFFICES ASSUME NEW a \in area .. StackTop PROVE memory'[a] = memory[a]
    OBVIOUS
  <2>1. a \in 0 .. StackTop /\ a >= area - 3 + Len(chain)
    BY <1>7, <1>8
  <2> QED BY <1>15, <2>1
<1>17. /\ memory'[area - 3] = ReturnAddress(run.proc, offset)
       /\ memory'[area - 2] = Environment(run.env)
       /\ memory'[area - 1] = Area(run.area)
  <2>1. /\ area - 3 \in 0 .. StackTop /\ area - 2 \in 0 .. StackTop /\ area - 1 \in 0 .. StackTop
        /\ area - 3 < area - 3 + Len(chain) /\ area - 2 < area - 3 + Len(chain)
        /\ area - 1 < area - 3 + Len(chain)
        /\ area - 3 <= area - 3 /\ area - 3 <= area - 2 /\ area - 3 <= area - 1
        /\ area - 3 - (area - 3) + 1 = 1 /\ area - 2 - (area - 3) + 1 = 2
        /\ area - 1 - (area - 3) + 1 = 3
    BY <1>1, <1>7, <1>8
  <2>2. memory'[area - 3] = chain[area - 3 - (area - 3) + 1]
    BY <1>15, <2>1
  <2>3. memory'[area - 2] = chain[area - 2 - (area - 3) + 1]
    BY <1>15, <2>1
  <2>4. memory'[area - 1] = chain[area - 1 - (area - 3) + 1]
    BY <1>15, <2>1
  <2> QED BY <1>7, <2>1, <2>2, <2>3, <2>4
<1> QED BY <1>15, <1>16, <1>17 DEF CallWrites

LEMMA CallStep == ASSUME StackInv, Call PROVE StackInv'
<1>1. runs # << >> /\ run.at = "instruction"
  BY DEF Call, Executing
<1>2. PICK p \in Procedures, offset \in Offsets :
        LET sp == run.sp + 1
            area == sp + 1
        IN  /\ Temps >= NumArgs[p] + 1
            /\ Floor(area, p) >= 0
            /\ memory' = Overwrite(area - PcChain, Chain(run.proc, offset, run.env, run.area))
            /\ runs' = [runs EXCEPT ![1].sp = Floor(area, p), ![1].area = area,
                                    ![1].proc = p, ![1].pc = 0, ![1].env = EnvOf[p]]
  BY Zenon DEF Call
<1>b. stackPtr' = stackPtr /\ result' = result
  BY DEF Call
<1> DEFINE n == NumArgs[p]
           l == NumLocals[p]
           sp == run.sp
           area == run.sp + 1 + 1
           low == Floor(area, p)
           chain == Chain(run.proc, offset, run.env, run.area)
           g == [area |-> area, proc |-> p]
           q == [run EXCEPT !.sp = low, !.area = area, !.proc = p, !.pc = 0, !.env = EnvOf[p]]
           F == FrameFloor(Top)
           E == End(Top)
           A == run.area
           old == run.old
<1>3. /\ memory \in [0 .. StackTop -> Slots] /\ stackPtr \in 0 .. StackTop
      /\ runs \in Seq(Run) /\ run \in Run /\ run = runs[1] /\ 1 \in 1 .. Len(runs)
      /\ result \in Datums
  BY <1>1, RunsFacts DEF StackInv, TypeOK, Datums
<1>4. /\ sp \in Int /\ -1 <= sp /\ F \in Int /\ F < A - 3 /\ A \in Nat
      /\ E \in Int /\ A - 1 <= E /\ E < old /\ old \in Nat /\ old <= StackTop
      /\ StackTop \in Nat /\ n \in Nat /\ l \in Nat /\ run.env = EnvOf[run.proc]
  BY <1>1, TopFacts, Stack
<1>5. sp + (n + 1) <= F
  <2>1. Temps >= n + 1
    BY <1>2, Zenon
  <2>2. n + 1 \in Nat
    BY <1>4
  <2> QED BY <1>1, <2>1, <2>2, TempsFacts
<1>6. area = sp + 2 /\ low = area - 4 - l /\ low >= 0
  <2>1. area = sp + 2
    BY <1>4
  <2>2. low = area - 4 - l
    <3> HIDE DEF area
    <3> QED BY <2>1, <1>4 DEF Floor, SlotCount
  <2> QED BY <1>2, <2>1, <2>2
<1>7. /\ chain \in Seq(Slots) /\ Len(chain) = 3
      /\ chain[1] = ReturnAddress(run.proc, offset)
      /\ chain[2] = Environment(run.env) /\ chain[3] = Area(run.area)
  <2>1. /\ run.proc \in {Null} \cup Procedures /\ offset \in {0} \cup Offsets
        /\ run.env \in {0} \cup Range(EnvOf) /\ run.area \in 0 .. StackTop
    BY <1>3 DEF Run
  <2> QED BY <2>1, ChainFacts
<1>8. runs' = [runs EXCEPT ![1] = q] /\ memory' = Overwrite(area - 3, chain)
  <2>1. memory' = Overwrite(area - 3, chain)
    BY <1>2, Zenon DEF PcChain
  <2>2. runs' = [runs EXCEPT ![1].sp = low, ![1].area = area, ![1].proc = p, ![1].pc = 0,
                             ![1].env = EnvOf[p]]
    BY <1>2
  <2> HIDE DEF low, area
  <2>3. runs' = [runs EXCEPT ![1] = q]
    BY <1>3, <2>2
  <2> QED BY <2>1, <2>3
<1>9. /\ q.sp = low /\ q.area = area /\ q.proc = p /\ q.env = EnvOf[p] /\ q.old = run.old
      /\ q.at = "instruction"
  BY <1>1, <1>3 DEF Run
<1>10. g.area = area /\ g.proc = p /\ Top.area = A /\ Top.proc = run.proc
  BY DEF Top
<1>11. /\ \A a \in sp + 1 .. F : memory[a] \in Datums
       /\ \E fs : Links(memory, fs, old) /\ fs[1] = Top
  BY <1>1, TopFacts DEF TempsHold
<1> HIDE DEF n, l, sp, area, low, chain, F, E, A, old
<1>12. /\ area \in Nat /\ area + n - 1 <= F /\ low < area - 3 /\ area - 3 \in Int /\ area - 3 >= 0
       /\ low \in -1 .. StackTop /\ area \in 0 .. StackTop /\ area <= A - 3
  <2>1. area \in Int /\ low \in Int /\ area - 4 - l >= 0 /\ area + n - 1 <= F
    BY <1>4, <1>5, <1>6
  <2>2. area <= F + 1
    BY <1>4, <2>1
  <2>3. area <= A - 3
    BY <1>4, <2>1, <2>2
  <2> QED BY <1>4, <1>6, <2>1, <2>2, <2>3
<1>13. q \in Run
  <2>1. EnvOf[p] \in {0} \cup Range(EnvOf)
    BY Stack
  <2> QED BY <1>3, <1>12, <2>1 DEF Run
<1>14. g \in FrameType
  BY <1>12 DEF FrameType
<1> HIDE DEF g, q
<1>15. CallWrites(area, offset) /\ memory' \in [0 .. StackTop -> Slots]
  <2>1. area \in 3 .. StackTop
    BY <1>4, <1>12
  <2> QED BY <1>1, <1>8, <2>1, CallWritten DEF chain
<1>16. \A a \in area .. StackTop : memory'[a] = memory[a]
  BY <1>15 DEF CallWrites
<1>17. /\ memory'[area - 3] = ReturnAddress(run.proc, offset)
       /\ memory'[area - 2] = Environment(run.env)
       /\ memory'[area - 1] = Area(run.area)
  BY <1>15 DEF CallWrites
<1>18. FrameFloor(g) = low /\ End(g) = area + n - 1
  BY <1>10 DEF FrameFloor, End, n, low
<1>19. Linked(memory', g, Top)
  BY <1>4, <1>10, <1>17, Stack DEF Linked, A
<1>20. KeepsUp(memory, memory', run.old) /\ Keeps(memory, memory', Top, old - 1)
  <2>1. \A a \in run.old + 1 .. StackTop : a \in area .. StackTop
    BY <1>4, <1>12 DEF old
  <2>2. \A a \in A - 3 .. old - 1 : a \in area .. StackTop
    BY <1>4, <1>12
  <2> QED BY <1>10, <1>16, <2>1, <2>2 DEF Keeps, KeepsUp
<1>21. PICK fs : Links(memory, fs, old) /\ fs[1] = Top
  BY <1>11
<1>22. Links(memory', fs, old)
  BY <1>4, <1>20, <1>21, LinksWritten
<1>23. Links(memory', <<g>> \o fs, old) /\ (<<g>> \o fs)[1] = g
  <2>1. -1 <= FrameFloor(g) /\ End(g) <= FrameFloor(fs[1])
    BY <1>6, <1>12, <1>18, <1>21 DEF F
  <2>2. ASSUME NEW a \in g.area .. End(g) PROVE memory'[a] \in Datums
    <3>1. a \in sp + 1 .. F /\ a \in area .. StackTop
      BY <1>4, <1>6, <1>10, <1>12, <1>18
    <3> QED BY <1>11, <1>16, <3>1
  <2>3. ASSUME NEW a \in End(g) + 1 .. FrameFloor(fs[1]) PROVE memory'[a] \in Datums
    <3>1. FrameFloor(fs[1]) = F
      BY <1>21 DEF F
    <3>2. a \in sp + 1 .. F /\ a \in area .. StackTop
      <4>1. a \in Int /\ area + n <= a /\ a <= F
        BY <1>4, <1>12, <1>18, <3>1
      <4>2. F <= StackTop
        BY <1>4
      <4> QED BY <1>4, <1>6, <1>12, <4>1, <4>2
    <3> QED BY <1>11, <1>16, <3>2
  <2>4. Linked(memory', g, fs[1])
    BY <1>19, <1>21
  <2>5. Links(memory', <<g>> \o fs, old)
    <3>1. old \in 0 .. StackTop
      BY <1>4
    <3> QED BY <1>14, <1>22, <2>1, <2>2, <2>3, <2>4, <3>1, LinksCons
  <2>6. fs \in Seq(FrameType)
    BY <1>21 DEF Links
  <2> QED BY <2>5, <2>6
<1>24. AtInv(memory', q, g)
  <2>1. \A a \in low + 1 .. low : FALSE
    BY <1>12
  <2> QED BY <1>9, <1>10, <1>12, <1>18, <2>1 DEF AtInv
<1>25. RunInv(memory', q)
  BY <1>9, <1>23, <1>24 DEF RunInv, old
<1>26. TypeOK'
  <2>1. runs' \in Seq(Run) /\ Len(runs') = Len(runs)
    BY <1>3, <1>8, <1>13
  <2> QED BY <1>b, <1>3, <1>15, <2>1 DEF TypeOK, StackInv, Datums
<1> QED BY <1>1, <1>8, <1>9, <1>20, <1>25, <1>26, TopStep

LEMMA CallSpecialStep == ASSUME StackInv, CallSpecial PROVE StackInv'
<1>1. runs # << >> /\ run.at = "instruction"
  BY DEF CallSpecial, Executing
<1>2. PICK n \in SpecialArgs, offset \in Offsets :
        LET sp == run.sp + 1 IN
        /\ Temps >= n + 1
        /\ stackPtr' = sp
        /\ runs' = [runs EXCEPT ![1].sp = sp, ![1].area = sp + 1, ![1].pc = offset,
                                ![1].at = "special", ![1].passed = n, ![1].oldArea = run.area]
  BY Zenon DEF CallSpecial
<1>b. memory' = memory /\ result' = result
  BY DEF CallSpecial
<1> DEFINE sp == run.sp
           low == run.sp + 1
           area == run.sp + 1 + 1
           q == [run EXCEPT !.sp = low, !.area = area, !.pc = offset, !.at = "special",
                            !.passed = n, !.oldArea = run.area]
           F == FrameFloor(Top)
           E == End(Top)
           A == run.area
           old == run.old
<1>3. /\ memory \in [0 .. StackTop -> Slots] /\ stackPtr \in 0 .. StackTop
      /\ runs \in Seq(Run) /\ run \in Run /\ run = runs[1] /\ 1 \in 1 .. Len(runs)
      /\ result \in Datums
  BY <1>1, RunsFacts DEF StackInv, TypeOK, Datums
<1>4. /\ sp \in Int /\ -1 <= sp /\ F \in Int /\ F < A - 3 /\ A \in Nat
      /\ E \in Int /\ A - 1 <= E /\ E < old /\ old \in Nat /\ old <= StackTop
      /\ StackTop \in Nat /\ run.env = EnvOf[run.proc] /\ low = sp + 1 /\ area = low + 1
  BY <1>1, TopFacts, Stack
<1>c. n \in Nat /\ n \in SpecialArgs
  BY FramesAssumption
<1>5. sp + (n + 1) <= F
  <2>1. Temps >= n + 1
    BY <1>2, Zenon
  <2>2. n + 1 \in Nat
    BY <1>c
  <2> QED BY <1>1, <2>1, <2>2, TempsFacts
<1>6. runs' = [runs EXCEPT ![1] = q] /\ stackPtr' = low
  <2>1. stackPtr' = low
    BY <1>2, Zenon
  <2>2. runs' = [runs EXCEPT ![1].sp = low, ![1].area = area, ![1].pc = offset,
                             ![1].at = "special", ![1].passed = n, ![1].oldArea = run.area]
    BY <1>2, Zenon
  <2> HIDE DEF low, area
  <2>3. runs' = [runs EXCEPT ![1] = q]
    BY <1>3, <2>2
  <2> QED BY <2>1, <2>3
<1>7. /\ q.sp = low /\ q.area = area /\ q.proc = run.proc /\ q.env = run.env /\ q.old = run.old
      /\ q.at = "special" /\ q.passed = n /\ q.oldArea = A /\ q.pc = offset
  BY <1>1, <1>3 DEF Run
<1>8. Top.area = A /\ Top.proc = run.proc
  BY DEF Top
<1>9. /\ \A a \in sp + 1 .. F : memory[a] \in Datums
      /\ \E fs : Links(memory, fs, old) /\ fs[1] = Top
  BY <1>1, TopFacts DEF TempsHold
<1> HIDE DEF sp, low, area, F, E, A, old
<1>10. /\ low \in -1 .. StackTop /\ low \in 0 .. StackTop /\ area \in 0 .. StackTop
       /\ low + n <= F /\ low >= 0
  BY <1>4, <1>5, <1>c
<1>11. q \in Run
  BY <1>3, <1>10, <1>c DEF Run, A
<1> HIDE DEF q
<1>12. AtInv(memory', q, Top)
  <2>1. \A a \in q.sp + 1 .. F : memory'[a] \in Datums
    <3> SUFFICES ASSUME NEW a \in q.sp + 1 .. F PROVE memory'[a] \in Datums
      OBVIOUS
    <3>1. a \in sp + 1 .. F
      BY <1>4, <1>7
    <3> QED BY <1>9, <1>b, <3>1
  <2> QED BY <1>4, <1>7, <1>8, <1>10, <2>1 DEF AtInv, F
<1>13. RunInv(memory', q)
  BY <1>7, <1>9, <1>12, <1>b DEF RunInv, old
<1>14. KeepsUp(memory, memory', run.old)
  BY <1>b DEF KeepsUp
<1>15. TypeOK'
  <2>1. runs' \in Seq(Run) /\ Len(runs') = Len(runs)
    BY <1>3, <1>6, <1>11
  <2> QED BY <1>b, <1>3, <1>6, <1>10, <2>1 DEF TypeOK, StackInv, Datums
<1> QED BY <1>1, <1>6, <1>7, <1>13, <1>14, <1>15, TopStep

\* The result of a special function.
LEMMA SpecialReturnsStep == ASSUME StackInv, SpecialReturns PROVE StackInv'
<1>1. /\ runs # << >> /\ run.at \in {"special", "specialTail"}
      /\ stackPtr' = stackPtr /\ result' = result
  BY DEF SpecialReturns
<1>2. PICK value \in {Datum(v) : v \in Values} \cup {result} :
        \/ /\ run.at = "special"
           /\ LET sp == run.sp + run.passed - 1 IN
                 /\ memory' = [memory EXCEPT ![sp + 1] = value]
                 /\ runs' = [runs EXCEPT ![1].sp = sp, ![1].area = run.oldArea,
                                         ![1].at = "instruction",
                                         ![1].passed = 0, ![1].oldArea = Null]
        \/ /\ run.at = "specialTail"
           /\ memory' = [memory EXCEPT ![run.sp] = value]
           /\ runs' = [runs EXCEPT ![1].sp = run.sp - 1, ![1].at = "return"]
  BY Zenon DEF SpecialReturns
<1>3. /\ memory \in [0 .. StackTop -> Slots] /\ stackPtr \in 0 .. StackTop
      /\ runs \in Seq(Run) /\ run \in Run /\ run = runs[1] /\ 1 \in 1 .. Len(runs)
      /\ result \in Datums /\ RunInv(memory, run)
  BY <1>1, RunsFacts DEF StackInv, TypeOK, Datums
<1>4. value \in Datums /\ value \in Slots
  BY <1>3, Stack DEF Datums
<1>5. PICK fs : Links(memory, fs, run.old) /\ AtInv(memory, run, fs[1])
  BY <1>3 DEF RunInv
<1> DEFINE f == fs[1]
           sp == run.sp
           n == run.passed
           F == FrameFloor(f)
           E == End(f)
           A == f.area
           old == run.old
<1>6. /\ f \in FrameType /\ F \in Int /\ E \in Int /\ A \in Nat
      /\ F < A - 3 /\ A - 1 <= E /\ E < old
  BY <1>3, <1>5, RunFacts, LinksFacts
<1>7. /\ sp \in Int /\ n \in Nat /\ old \in Nat /\ old <= StackTop /\ StackTop \in Nat
  BY <1>3, RunFacts, Stack
<1>8. /\ run.proc = f.proc /\ run.env = EnvOf[f.proc]
      /\ run.at = "special" => /\ run.oldArea = A /\ sp >= 0 /\ sp + n <= F
                               /\ \A a \in sp + 1 .. F : memory[a] \in Datums
      /\ run.at = "specialTail" => run.area = A /\ sp = run.area - 3 - 1 /\ sp >= 1
                                   /\ n = NumArgs[run.proc]
  BY <1>5 DEF AtInv, SlotCount
<1> HIDE DEF f, sp, n, F, E, A, old
\* What a write below the chain of f leaves.
<1>9. ASSUME NEW x \in 0 .. StackTop, x < A - 3, memory' = [memory EXCEPT ![x] = value]
      PROVE  /\ memory' \in [0 .. StackTop -> Slots]
             /\ KeepsUp(memory, memory', run.old) /\ Links(memory', fs, run.old)
             /\ memory'[x] = value /\ \A a \in 0 .. StackTop : a # x => memory'[a] = memory[a]
  <2>1. /\ memory' \in [0 .. StackTop -> Slots]
        /\ memory'[x] = value /\ \A a \in 0 .. StackTop : a # x => memory'[a] = memory[a]
    BY <1>3, <1>4, <1>9
  <2>2. A <= old
    BY <1>6, <1>7
  <2>3. \A a \in old + 1 .. StackTop : a \in 0 .. StackTop /\ a # x
    BY <1>6, <1>7, <1>9, <2>2
  <2>4. \A a \in A - 3 .. old - 1 : a \in 0 .. StackTop /\ a # x
    <3> SUFFICES ASSUME NEW a \in A - 3 .. old - 1 PROVE a \in 0 .. StackTop /\ a # x
      OBVIOUS
    <3>1. x \in Nat /\ x < A - 3
      BY <1>9
    <3>2. a \in Int /\ x < a /\ a <= StackTop
      BY <1>6, <1>7, <3>1
    <3> QED BY <1>7, <3>1, <3>2
  <2>5. KeepsUp(memory, memory', run.old)
    BY <2>1, <2>3 DEF KeepsUp, old
  <2>6. Keeps(memory, memory', fs[1], run.old - 1)
    BY <2>1, <2>4 DEF Keeps, old, A, f
  <2>7. Links(memory', fs, run.old)
    BY <1>3, <1>5, <2>6, RunFacts, LinksWritten
  <2> QED BY <2>1, <2>5, <2>7
<1>10. ASSUME NEW q \in Run, runs' = [runs EXCEPT ![1] = q], q.old = run.old, q.at \in {"instruction", "return"},
              memory' \in [0 .. StackTop -> Slots], KeepsUp(memory, memory', run.old),
              Links(memory', fs, run.old), AtInv(memory', q, f)
       PROVE  StackInv'
  <2>1. runs' \in Seq(Run) /\ Len(runs') = Len(runs)
    BY <1>3, <1>10
  <2>2. TypeOK'
    BY <1>1, <1>3, <1>10, <2>1 DEF TypeOK, StackInv, Datums
  <2>3. RunInv(memory', q)
    BY <1>10 DEF RunInv, f
  <2> QED BY <1>1, <1>10, <2>2, <2>3, TopStep
<1>11. CASE run.at = "special"
  <2> DEFINE low == run.sp + run.passed - 1
             q == [run EXCEPT !.sp = low, !.area = run.oldArea, !.at = "instruction",
                              !.passed = 0, !.oldArea = Null]
  <2>1. /\ memory' = [memory EXCEPT ![low + 1] = value]
        /\ runs' = [runs EXCEPT ![1].sp = low, ![1].area = run.oldArea, ![1].at = "instruction",
                                ![1].passed = 0, ![1].oldArea = Null]
    BY <1>2, <1>11, Zenon
  <2>2. low = sp + n - 1
    BY DEF sp, n
  <2> HIDE DEF low
  <2>3. runs' = [runs EXCEPT ![1] = q]
    BY <1>3, <2>1
  <2>4. /\ q.sp = low /\ q.area = A /\ q.proc = run.proc /\ q.env = run.env /\ q.old = run.old
        /\ q.at = "instruction"
    BY <1>3, <1>8, <1>11 DEF Run
  <2>5. /\ low + 1 \in 0 .. StackTop /\ low + 1 <= F /\ low \in -1 .. StackTop /\ low + 1 < A - 3
        /\ low \in Int /\ low <= F /\ low + 1 >= sp
    BY <1>6, <1>7, <1>8, <1>11, <2>2
  <2>6. q \in Run
    BY <1>3, <2>5, Stack DEF Run, Null
  <2> HIDE DEF q
  <2>7. /\ memory' \in [0 .. StackTop -> Slots]
        /\ KeepsUp(memory, memory', run.old) /\ Links(memory', fs, run.old)
        /\ memory'[low + 1] = value /\ \A a \in 0 .. StackTop : a # low + 1 => memory'[a] = memory[a]
    BY <1>9, <2>1, <2>5
  <2>8. ASSUME NEW a \in low + 1 .. F PROVE memory'[a] \in Datums
    <3>1. CASE a = low + 1
      BY <1>4, <2>7, <3>1
    <3>2. CASE a # low + 1
      <4>1. a \in sp + 1 .. F /\ F <= StackTop
        <5>1. a >= sp + 1 /\ a <= F /\ a \in Int
          BY <1>6, <1>7, <2>5, <3>2
        <5> QED BY <1>6, <1>7, <5>1
      <4>2. a \in 0 .. StackTop
        BY <1>6, <1>7, <1>8, <1>11, <4>1
      <4> QED BY <1>8, <1>11, <2>7, <3>2, <4>1, <4>2
    <3> QED BY <3>1, <3>2
  <2>9. AtInv(memory', q, f)
    BY <1>8, <2>4, <2>5, <2>8 DEF AtInv, F, A
  <2> QED BY <1>10, <2>3, <2>4, <2>6, <2>7, <2>9
<1>12. CASE run.at = "specialTail"
  <2> DEFINE q == [run EXCEPT !.sp = run.sp - 1, !.at = "return"]
  <2>1. /\ memory' = [memory EXCEPT ![sp] = value]
        /\ runs' = [runs EXCEPT ![1].sp = run.sp - 1, ![1].at = "return"]
    BY <1>2, <1>12, Zenon DEF sp
  <2>2. runs' = [runs EXCEPT ![1] = q]
    BY <1>3, <2>1
  <2>3. /\ q.sp = sp - 1 /\ q.area = A /\ q.proc = run.proc /\ q.env = run.env /\ q.old = run.old
        /\ q.at = "return" /\ q.passed = n
    BY <1>3, <1>8, <1>12 DEF Run, sp, n
  <2>4. /\ sp \in 0 .. StackTop /\ sp < A - 3 /\ sp - 1 \in -1 .. StackTop /\ sp - 1 >= 0
        /\ sp - 1 = A - 3 - 2 /\ sp - 1 + 1 = sp
    BY <1>6, <1>7, <1>8, <1>12
  <2>5. q \in Run
    BY <1>3, <2>4 DEF Run, sp
  <2> HIDE DEF q
  <2>6. /\ memory' \in [0 .. StackTop -> Slots]
        /\ KeepsUp(memory, memory', run.old) /\ Links(memory', fs, run.old)
        /\ memory'[sp] = value
    BY <1>9, <2>1, <2>4
  <2>7. AtInv(memory', q, f)
    BY <1>4, <1>8, <1>12, <2>3, <2>4, <2>6 DEF AtInv, A, SlotCount
  <2> QED BY <1>10, <2>2, <2>3, <2>5, <2>6, <2>7
<1> QED BY <1>1, <1>11, <1>12

-----------------------------------------------------------------------------
(* Tail calls.                                                             *)

\* The chain of the frame and the new arguments are where those of the frame were.
LEMMA ReplacedFacts ==
    ASSUME StackInv, runs # << >>, run.at = "instruction", NEW n \in Nat, run.sp + 1 >= 2,
           Temps >= n + 1, ArgSlot(n) >= 3
    PROVE  /\ Replaced(n) \in [0 .. StackTop -> Slots]
           /\ ArgSlot(n) \in 0 .. StackTop /\ ArgSlot(n) + n - 1 = End(Top)
           /\ SameChain(Replaced(n), [area |-> ArgSlot(n), proc |-> Null], memory, Top)
           /\ \A a \in ArgSlot(n) .. End(Top) : Replaced(n)[a] \in Datums
           /\ \A a \in End(Top) + 1 .. StackTop : Replaced(n)[a] = memory[a]
           /\ \A i \in 1 .. n : Replaced(n)[ArgSlot(n) + i - 1] = memory[run.sp + 1 + i]
<1> DEFINE sp == run.sp + 1
           A == run.area
           S == ArgSlot(n)
           F == FrameFloor(Top)
           E == End(Top)
           chain == [i \in 1 .. SlotCount |-> memory[run.area - PcChain + i - 1]]
           moved == Overwrite(sp - 2, chain)
           new == Replaced(n)
<1>1. /\ memory \in [0 .. StackTop -> Slots] /\ run.old <= StackTop /\ run.old \in Nat /\ StackTop \in Nat
  BY TopFacts, Stack DEF StackInv, TypeOK
<1>2. /\ sp \in Int /\ F \in Int /\ F < A - 3 /\ A \in Nat /\ E \in Int /\ A - 1 <= E
      /\ E < StackTop
  <2>1. E < run.old /\ E \in Int
    BY TopFacts
  <2>2. E < StackTop
    <3> HIDE DEF E
    <3> QED BY <1>1, <2>1
  <2>3. F \in Int /\ F < A - 3 /\ A \in Nat /\ A - 1 <= E
    BY TopFacts
  <2>4. sp \in Int
    <3>1. run.sp \in Int
      BY TopFacts
    <3> QED BY <3>1
  <2> HIDE DEF sp, F, A, E
  <2> QED BY <2>1, <2>2, <2>3, <2>4
<1>3. sp >= 2 /\ sp + n <= F
  <2> DEFINE x == run.sp
  <2>1. x + (n + 1) <= F /\ x \in Int /\ x + 1 >= 2 /\ sp = x + 1
    BY TempsFacts, TopFacts
  <2> HIDE DEF x, sp, F
  <2> QED BY <1>2, <2>1
<1>4. S + n - 1 = E
  <2> DEFINE x == NumArgs[run.proc]
  <2>1. E = A + x - 1 /\ x \in Nat /\ S = A + x - n
    BY TopFacts DEF ArgSlot
  <2> HIDE DEF x, E, A, S
  <2> QED BY <1>2, <2>1
<1>5. S \in Int /\ S >= 3
  <2> DEFINE x == NumArgs[run.proc]
  <2>1. S = A + x - n /\ x \in Nat
    BY TopFacts DEF ArgSlot
  <2> HIDE DEF S, A, x
  <2> QED BY <1>2, <2>1 DEF S
<1>6. \A a \in sp .. F : memory[a] \in Datums
  BY TopFacts DEF TempsHold
<1>7. chain \in Seq(Slots) /\ Len(chain) = 3 /\ \A i \in 1 .. 3 : chain[i] = memory[A - 4 + i]
  <2>1. chain = [i \in 1 .. 3 |-> memory[A - 3 + i - 1]]
    BY DEF PcChain, SlotCount
  <2> HIDE DEF chain, A, E, F
  <2>2. A - 3 \in Int /\ A - 3 >= 0 /\ A <= StackTop
    BY <1>1, <1>2, <1>3
  <2>3. ASSUME NEW i \in 1 .. 3 PROVE A - 3 + i - 1 \in 0 .. StackTop /\ A - 3 + i - 1 = A - 4 + i
    BY <1>1, <1>2, <2>2
  <2>4. \A i \in 1 .. 3 : memory[A - 3 + i - 1] \in Slots
    BY <1>1, <2>3
  <2> QED BY <2>1, <2>3, <2>4
<1> HIDE DEF chain
<1>8. /\ moved \in [0 .. StackTop -> Slots]
      /\ \A a \in 0 .. StackTop :
            /\ a < sp - 2 \/ a >= sp - 2 + Len(chain) => moved[a] = memory[a]
            /\ sp - 2 <= a /\ a < sp - 2 + Len(chain) => moved[a] = chain[a - (sp - 2) + 1]
  <2> DEFINE b == sp - 2
  <2>1. b \in Int /\ b = sp - 2
    <3> HIDE DEF sp
    <3> QED BY <1>2
  <2> HIDE DEF b, sp
  <2>2. /\ Overwrite(b, chain) \in [0 .. StackTop -> Slots]
        /\ \A a \in 0 .. StackTop :
              /\ a < b \/ a >= b + Len(chain) => Overwrite(b, chain)[a] = memory[a]
              /\ b <= a /\ a < b + Len(chain) => Overwrite(b, chain)[a] = chain[a - b + 1]
    BY <1>1, <1>7, <2>1, OverwriteFacts
  <2>3. moved = Overwrite(b, chain)
    BY Zenon DEF b
  <2> HIDE DEF moved
  <2> QED BY <2>1, <2>2, <2>3
<1>9. new = [a \in 0 .. StackTop |-> IF a \in S - 3 .. S + n - 1 THEN moved[sp + 1 + a - S] ELSE moved[a]]
  <2>1. new = [a \in DOMAIN memory |->
                 IF a \in S - PcChain .. S + n - 1 THEN moved[sp + 1 + a - S] ELSE moved[a]]
    BY DEF Replaced, chain, moved, sp
  <2> HIDE DEF moved, sp, S, new
  <2> QED BY <1>1, <2>1 DEF PcChain
<1> HIDE DEF sp, A, S, F, E, moved, new
<1>10. ASSUME NEW a \in 0 .. StackTop, a \in S - 3 .. S + n - 1
       PROVE  sp + 1 + a - S \in 0 .. StackTop
  <2>1. sp - 2 <= sp + 1 + a - S
    BY <1>2, <1>5, <1>10
  <2>2. sp + 1 + a - S <= sp + n
    BY <1>2, <1>5, <1>10
  <2>3. sp + n <= StackTop
    <3>1. F < StackTop
      BY <1>1, <1>2
    <3> QED BY <1>1, <1>2, <1>3, <3>1
  <2>4. sp + 1 + a - S \in Int
    BY <1>2, <1>5
  <2> QED BY <1>1, <1>2, <1>3, <2>1, <2>2, <2>3, <2>4
<1>11. new \in [0 .. StackTop -> Slots]
  <2>1. ASSUME NEW a \in 0 .. StackTop
        PROVE  (IF a \in S - 3 .. S + n - 1 THEN moved[sp + 1 + a - S] ELSE moved[a]) \in Slots
    BY <1>8, <1>10
  <2> QED BY <1>9, <2>1
<1>12. ASSUME NEW c \in 1 .. 3 PROVE new[S - c] = memory[A - c]
  <2>1. S - c \in 0 .. StackTop /\ S - c \in S - 3 .. S + n - 1 /\ sp + 1 + (S - c) - S = sp + 1 - c
    BY <1>1, <1>2, <1>4, <1>5
  <2>2. new[S - c] = moved[sp + 1 - c]
    BY <1>9, <2>1
  <2>3. sp + 1 - c \in 0 .. StackTop /\ sp - 2 <= sp + 1 - c /\ sp + 1 - c < sp - 2 + Len(chain)
        /\ sp + 1 - c - (sp - 2) + 1 = 4 - c /\ 4 - c \in 1 .. 3 /\ A - 4 + (4 - c) = A - c
    <3>1. F <= StackTop
      BY <1>1, <1>2
    <3>2. sp <= StackTop
      BY <1>1, <1>2, <1>3, <3>1
    <3> QED BY <1>1, <1>2, <1>3, <1>7, <3>2
  <2>4. moved[sp + 1 - c] = chain[4 - c]
    <3> DEFINE b == sp + 1 - c
    <3>1. b \in 0 .. StackTop /\ sp - 2 <= b /\ b < sp - 2 + Len(chain) /\ b - (sp - 2) + 1 = 4 - c
      BY <1>2, <2>3
    <3> HIDE DEF b
    <3>2. moved[b] = chain[b - (sp - 2) + 1]
      BY <1>8, <3>1
    <3> QED BY <3>1, <3>2 DEF b
  <2> QED BY <1>7, <2>2, <2>3, <2>4
<1>13. ASSUME NEW a \in S .. E PROVE new[a] \in Datums /\ new[a] = memory[sp + 1 + a - S]
  <2>1. a \in 0 .. StackTop /\ a \in S - 3 .. S + n - 1
    BY <1>1, <1>2, <1>4, <1>5
  <2>2. new[a] = moved[sp + 1 + a - S]
    BY <1>9, <2>1
  <2> DEFINE b == sp + 1 + a - S
  <2>3. b \in 0 .. StackTop
    BY <1>10, <2>1
  <2>4. b \in sp .. F /\ b >= sp - 2 + Len(chain)
    <3>1. b >= sp + 1 /\ b <= sp + n
      BY <1>2, <1>4, <1>5
    <3> HIDE DEF b
    <3>2. b \in Int
      BY <2>3
    <3> QED BY <1>2, <1>3, <1>7, <3>1, <3>2
  <2> HIDE DEF b
  <2>5. moved[b] = memory[b] /\ memory[b] \in Datums
    BY <1>6, <1>8, <2>3, <2>4
  <2> QED BY <2>2, <2>5 DEF b
<1>14. ASSUME NEW a \in E + 1 .. StackTop PROVE new[a] = memory[a]
  <2>1. a \in 0 .. StackTop /\ ~ (a \in S - 3 .. S + n - 1)
    BY <1>1, <1>2, <1>4, <1>5
  <2>2. a >= sp - 2 + Len(chain)
    <3>1. sp + 1 <= a
      BY <1>2, <1>3, <2>1
    <3> QED BY <1>2, <1>7, <2>1, <3>1
  <2> QED BY <1>8, <1>9, <2>1, <2>2
<1>15. S \in 0 .. StackTop
  BY <1>1, <1>2, <1>4, <1>5
<1>16. SameChain(new, [area |-> S, proc |-> Null], memory, Top)
  <2>1. Top.area = A
    BY DEF Top, A
  <2> QED BY <1>12, <2>1 DEF SameChain
<1>17. ASSUME NEW i \in 1 .. n PROVE new[S + i - 1] = memory[sp + i]
  <2>1. S + i - 1 \in S .. E /\ sp + 1 + (S + i - 1) - S = sp + i
    BY <1>2, <1>4, <1>5
  <2> DEFINE a == S + i - 1
  <2>2. a \in S .. E /\ sp + 1 + a - S = sp + i
    BY <2>1
  <2> HIDE DEF a
  <2>3. new[a] = memory[sp + i]
    BY <1>13, <2>2
  <2> QED BY <2>3 DEF a
<1> QED BY <1>4, <1>11, <1>13, <1>14, <1>15, <1>16, <1>17 DEF S, E, new, sp

LEMMA TailCallStep == ASSUME StackInv, TailCall PROVE StackInv'
<1>1. runs # << >> /\ run.at = "instruction" /\ run.sp + 1 >= 2
  BY DEF TailCall, Executing
<1>2. PICK p \in Procedures :
        LET area == ArgSlot(NumArgs[p]) IN
        /\ Temps >= NumArgs[p] + 1
        /\ Floor(area, p) >= 0
        /\ memory' = Replaced(NumArgs[p])
        /\ runs' = [runs EXCEPT ![1].sp = Floor(area, p), ![1].area = area,
                                ![1].proc = p, ![1].pc = 0, ![1].env = EnvOf[p]]
  BY Zenon DEF TailCall
<1>b. stackPtr' = stackPtr /\ result' = result
  BY DEF TailCall
<1> DEFINE n == NumArgs[p]
           area == ArgSlot(n)
           low == Floor(area, p)
           g == [area |-> area, proc |-> p]
           q == [run EXCEPT !.sp = low, !.area = area, !.proc = p, !.pc = 0, !.env = EnvOf[p]]
           E == End(Top)
           old == run.old
<1>3. /\ stackPtr \in 0 .. StackTop /\ runs \in Seq(Run) /\ run \in Run /\ run = runs[1]
      /\ 1 \in 1 .. Len(runs) /\ result \in Datums /\ n \in Nat /\ NumLocals[p] \in Nat
      /\ Len(runs) <= MaxRuns
  BY <1>1, RunsFacts, Stack DEF StackInv, TypeOK, Datums
<1>4. E \in Int /\ E < old /\ old \in Nat /\ old <= StackTop /\ StackTop \in Nat
  BY <1>1, TopFacts, Stack
<1>5. Temps >= n + 1 /\ low >= 0 /\ memory' = Replaced(n)
  BY <1>2, Zenon
<1>6. area \in Int /\ low = area - 4 - NumLocals[p]
  <2>1. area \in Int
    <3> DEFINE x == NumArgs[run.proc]
               y == run.area
    <3>1. x \in Nat /\ y \in Nat /\ area = y + x - n
      BY <1>1, TopFacts DEF ArgSlot
    <3> HIDE DEF x, y, n, area
    <3> QED BY <1>3, <3>1
  <2> HIDE DEF area
  <2> QED BY <1>3, <2>1 DEF Floor, SlotCount
<1>7. runs' = [runs EXCEPT ![1] = q]
  <2>1. runs' = [runs EXCEPT ![1].sp = low, ![1].area = area, ![1].proc = p, ![1].pc = 0,
                             ![1].env = EnvOf[p]]
    BY <1>2, Zenon
  <2> HIDE DEF low, area
  <2> QED BY <1>3, <2>1
<1> HIDE DEF n, low, E, old
<1>8. area >= 3 /\ low < area - 3
  <2> HIDE DEF area
  <2> QED BY <1>3, <1>5, <1>6
<1>9. /\ memory' \in [0 .. StackTop -> Slots] /\ area \in 0 .. StackTop /\ area + n - 1 = E
      /\ SameChain(memory', [area |-> area, proc |-> Null], memory, Top)
      /\ \A a \in area .. E : memory'[a] \in Datums
      /\ \A a \in E + 1 .. StackTop : memory'[a] = memory[a]
  BY <1>1, <1>3, <1>5, <1>8, ReplacedFacts DEF E
<1> HIDE DEF area
<1>10. /\ q.sp = low /\ q.area = area /\ q.proc = p /\ q.env = EnvOf[p] /\ q.old = run.old
       /\ q.at = "instruction" /\ g.area = area /\ g.proc = p
  BY <1>1, <1>3 DEF Run
<1>11. q \in Run /\ g \in FrameType
  <2>0. low \in Int /\ area <= StackTop
    BY <1>3, <1>4, <1>6, <1>9
  <2>1. EnvOf[p] \in {0} \cup Range(EnvOf) /\ low \in -1 .. StackTop
    <3>1. EnvOf[p] \in Range(EnvOf)
      BY Stack
    <3>2. low \in -1 .. StackTop
      BY <1>4, <1>5, <1>6, <1>8, <2>0
    <3> QED BY <3>1, <3>2
  <2> QED BY <1>3, <1>9, <2>1 DEF Run, FrameType
<1> HIDE DEF g, q
<1>12. FrameFloor(g) = low /\ End(g) = E
  BY <1>9, <1>10 DEF FrameFloor, End, n, low
<1>13. PICK fs : Links(memory, fs, old) /\ fs[1] = Top
  BY <1>1, TopFacts DEF old
<1>14. KeepsUp(memory, memory', run.old) /\ KeepsAbove(memory, memory', Top, old)
  <2>1. \A a \in run.old + 1 .. StackTop : a \in E + 1 .. StackTop
    BY <1>4 DEF old
  <2>2. \A a \in E + 1 .. old - 1 : a \in E + 1 .. StackTop
    BY <1>4
  <2> QED BY <1>9, <2>1, <2>2 DEF KeepsUp, KeepsAbove, E
<1>15. Links(memory', [fs EXCEPT ![1] = g], old)
  <2>1. SameChain(memory', g, memory, fs[1])
    BY <1>9, <1>10, <1>13 DEF SameChain
  <2>2. \A a \in g.area .. End(g) : memory'[a] \in Datums
    BY <1>9, <1>10, <1>12
  <2>3. End(g) = End(fs[1]) /\ KeepsAbove(memory, memory', fs[1], old)
    BY <1>12, <1>13, <1>14 DEF E
  <2>4. -1 <= FrameFloor(g) /\ old \in 0 .. StackTop
    BY <1>3, <1>4, <1>5, <1>6, <1>12
  <2> QED BY <1>11, <1>13, <2>1, <2>2, <2>3, <2>4, LinksReplace
<1>16. [fs EXCEPT ![1] = g][1] = g
  <2>1. fs \in Seq(FrameType) /\ 1 \in 1 .. Len(fs)
    <3>1. old \in 0 .. StackTop
      BY <1>4
    <3> QED BY <1>13, <3>1, LinksFacts
  <2> QED BY <2>1
<1>17. AtInv(memory', q, g)
  <2>1. low \in Int /\ low <= low /\ \A a \in low + 1 .. low : FALSE
    BY <1>3, <1>6
  <2> QED BY <1>10, <1>12, <2>1 DEF AtInv
<1>18. RunInv(memory', q)
  BY <1>10, <1>15, <1>16, <1>17 DEF RunInv, old
<1>19. TypeOK'
  <2>1. runs' \in Seq(Run) /\ Len(runs') = Len(runs)
    BY <1>3, <1>7, <1>11
  <2> QED BY <1>b, <1>3, <1>9, <2>1 DEF TypeOK, Datums
<1> QED BY <1>1, <1>7, <1>10, <1>14, <1>18, <1>19, TopStep

\* A tail call that passes as many arguments as its caller has leaves the frame where it is.
LEMMA TailCallSpecialStep ==
    ASSUME StackInv, "mixedArity" \notin Operations, TailCallSpecial PROVE StackInv'
<1>1. runs # << >> /\ run.at = "instruction" /\ run.sp + 1 >= 2
  BY DEF TailCallSpecial, Executing
<1>2. PICK n \in SpecialArgs :
        LET area == ArgSlot(n)
            sp == area - SlotCount - 1
        IN  /\ Temps >= n + 1
            /\ n = NumArgs[run.proc] \/ "mixedArity" \in Operations
            /\ memory' = Replaced(n)
            /\ stackPtr' = sp
            /\ runs' = [runs EXCEPT ![1].sp = sp, ![1].area = area, ![1].pc = 0,
                                    ![1].at = "specialTail", ![1].passed = n]
  BY Zenon DEF TailCallSpecial
<1>b. result' = result
  BY DEF TailCallSpecial
<1> DEFINE area == ArgSlot(n)
           low == area - SlotCount - 1
           q == [run EXCEPT !.sp = low, !.area = area, !.pc = 0, !.at = "specialTail", !.passed = n]
           A == run.area
           F == FrameFloor(Top)
           E == End(Top)
           old == run.old
           s == run.sp
<1>3. /\ runs \in Seq(Run) /\ run \in Run /\ run = runs[1] /\ 1 \in 1 .. Len(runs)
      /\ Len(runs) <= MaxRuns /\ result \in Datums
  BY <1>1, RunsFacts DEF StackInv, TypeOK, Datums
<1>4. /\ s \in Int /\ F \in Int /\ F < A - 3 /\ A \in Nat
      /\ E \in Int /\ E < old /\ old \in Nat /\ old <= StackTop /\ StackTop \in Nat
      /\ run.env = EnvOf[run.proc] /\ -1 <= s
  BY <1>1, TopFacts, Stack
<1>5. n \in Nat /\ n \in SpecialArgs /\ n = NumArgs[run.proc]
  BY <1>2, FramesAssumption, Zenon
<1>6. Temps >= n + 1 /\ memory' = Replaced(n) /\ stackPtr' = low
  BY <1>2, Zenon
<1>7. s + (n + 1) <= F
  <2>1. n + 1 \in Nat
    BY <1>5
  <2> QED BY <1>1, <1>6, <2>1, TempsFacts
<1>8. area = A
  <2>1. area = A + n - n
    BY <1>5 DEF ArgSlot
  <2> HIDE DEF area, A
  <2> QED BY <1>4, <1>5, <2>1
<1>9. runs' = [runs EXCEPT ![1] = q]
  <2>1. runs' = [runs EXCEPT ![1].sp = low, ![1].area = area, ![1].pc = 0,
                             ![1].at = "specialTail", ![1].passed = n]
    BY <1>2, Zenon
  <2> HIDE DEF low, area
  <2> QED BY <1>3, <2>1
<1> HIDE DEF A, F, E, old, s
<1>10. low = A - 3 - 1 /\ low >= 1 /\ area >= 3
  <2>1. low = A - 3 - 1
    BY <1>8 DEF SlotCount
  <2>2. s >= 1
    BY <1>1, <1>4 DEF s
  <2> HIDE DEF low, area
  <2> QED BY <1>4, <1>5, <1>7, <1>8, <2>1, <2>2
<1> HIDE DEF low
<1>11. /\ memory' \in [0 .. StackTop -> Slots] /\ area \in 0 .. StackTop
       /\ SameChain(memory', [area |-> area, proc |-> Null], memory, Top)
       /\ \A a \in area .. E : memory'[a] \in Datums
       /\ \A a \in E + 1 .. StackTop : memory'[a] = memory[a]
  BY <1>1, <1>5, <1>6, <1>10, ReplacedFacts DEF E
<1> HIDE DEF area
<1>12. /\ q.sp = low /\ q.area = A /\ q.proc = run.proc /\ q.env = run.env /\ q.old = run.old
       /\ q.at = "specialTail" /\ q.passed = n
  BY <1>1, <1>3, <1>8 DEF Run
<1>13. low \in 0 .. StackTop /\ low \in -1 .. StackTop
  BY <1>4, <1>8, <1>10, <1>11
<1>14. q \in Run
  BY <1>3, <1>5, <1>11, <1>13 DEF Run
<1> HIDE DEF q
<1>15. Top.area = A /\ Top.proc = run.proc /\ Top \in FrameType /\ -1 <= F
  <2>1. -1 <= F
    BY <1>4, <1>5, <1>7
  <2> QED BY <1>1, <2>1, TopFacts DEF Top, A
<1>16. PICK fs : Links(memory, fs, old) /\ fs[1] = Top
  BY <1>1, TopFacts DEF old
<1>17. KeepsUp(memory, memory', run.old) /\ KeepsAbove(memory, memory', Top, old)
  <2>1. \A a \in run.old + 1 .. StackTop : a \in E + 1 .. StackTop
    BY <1>4 DEF old
  <2>2. \A a \in E + 1 .. old - 1 : a \in E + 1 .. StackTop
    BY <1>4
  <2> QED BY <1>11, <2>1, <2>2 DEF KeepsUp, KeepsAbove, E
<1>18. Links(memory', [fs EXCEPT ![1] = Top], old)
  <2>1. SameChain(memory', Top, memory, fs[1])
    BY <1>8, <1>11, <1>15, <1>16 DEF SameChain
  <2>2. \A a \in Top.area .. End(Top) : memory'[a] \in Datums
    BY <1>8, <1>11, <1>15 DEF E
  <2>3. -1 <= FrameFloor(Top) /\ old \in 0 .. StackTop
    BY <1>4, <1>15 DEF F
  <2> QED BY <1>15, <1>16, <1>17, <2>1, <2>2, <2>3, LinksReplace
<1>19. [fs EXCEPT ![1] = Top][1] = Top
  <2>1. fs \in Seq(FrameType) /\ 1 \in 1 .. Len(fs)
    <3>1. old \in 0 .. StackTop
      BY <1>4
    <3> QED BY <1>16, <3>1, LinksFacts
  <2> QED BY <2>1
<1>20. AtInv(memory', q, Top)
  BY <1>4, <1>5, <1>10, <1>12, <1>15 DEF AtInv, SlotCount
<1>21. RunInv(memory', q)
  BY <1>12, <1>18, <1>19, <1>20 DEF RunInv, old
<1>22. TypeOK'
  <2>1. runs' \in Seq(Run) /\ Len(runs') = Len(runs)
    BY <1>3, <1>9, <1>14
  <2> QED BY <1>b, <1>3, <1>6, <1>11, <1>13, <2>1 DEF TypeOK, Datums
<1>23. stackPtr' = q.sp
  BY <1>6, <1>12
<1> QED BY <1>1, <1>9, <1>12, <1>17, <1>21, <1>22, <1>23, TopStep

-----------------------------------------------------------------------------
(* RETURN.                                                                 *)

LEMMA ReturnStep == ASSUME StackInv, Return PROVE StackInv'
<1> DEFINE lo == run.area + NumArgs[run.proc] - 2
           value == memory[run.sp + 1]
           return == memory[run.area - PcChain]
           s == run.sp
           A == run.area
           old == run.old
<1>1. /\ runs # << >> /\ run.at \in {"return", "instruction"}
      /\ run.at = "return" \/ (run.at = "instruction" /\ Temps >= 1)
  BY Zenon DEF Return
<1>2. /\ memory' = [memory EXCEPT ![lo + 1] = value]
      /\ \/ /\ return.ref # Null
            /\ runs' = [runs EXCEPT
                          ![1].sp = lo, ![1].proc = return.ref, ![1].pc = return.count,
                          ![1].area = memory[run.area - AreaChain].ref,
                          ![1].env = memory[run.area - EnvChain].ref,
                          ![1].at = "instruction", ![1].passed = 0]
            /\ UNCHANGED <<stackPtr, result>>
         \/ /\ return.ref = Null
            /\ runs' = Tail(runs)
            /\ stackPtr' = run.old
            /\ result' = value
  BY Zenon DEF Return
<1>3. /\ memory \in [0 .. StackTop -> Slots] /\ stackPtr \in 0 .. StackTop
      /\ runs \in Seq(Run) /\ run \in Run /\ run = runs[1] /\ 1 \in 1 .. Len(runs)
      /\ Len(runs) <= MaxRuns /\ result \in Datums /\ RunInv(memory, run)
  BY <1>1, RunsFacts DEF StackInv, TypeOK, Datums
<1>4. PICK fs : Links(memory, fs, run.old) /\ AtInv(memory, run, fs[1])
  BY <1>3 DEF RunInv
<1> DEFINE f == fs[1]
           E == End(f)
           F == FrameFloor(f)
<1>5. /\ f \in FrameType /\ F \in Int /\ E \in Int /\ A \in Nat /\ f.area = A /\ f.proc = run.proc
      /\ F < A - 3 /\ A - 1 <= E /\ E < old /\ -1 <= F
  <2>1. f \in FrameType /\ F \in Int /\ E \in Int /\ f.area \in Nat
        /\ F < f.area - 3 /\ f.area - 1 <= E /\ E < old /\ -1 <= F
    BY <1>3, <1>4, RunFacts, LinksFacts
  <2>2. f.area = A /\ f.proc = run.proc
    BY <1>1, <1>4 DEF AtInv
  <2> QED BY <2>1, <2>2
<1>6. /\ s \in Int /\ -1 <= s /\ old \in Nat /\ old <= StackTop /\ StackTop \in Nat
      /\ old \in 0 .. StackTop
  BY <1>3, RunFacts, Stack
<1>7. lo + 1 = E /\ lo = E - 1
  <2> DEFINE x == NumArgs[run.proc]
  <2>1. E = A + x - 1 /\ lo = A + x - 2 /\ x \in Nat
    BY <1>3, <1>5, RunFacts DEF End
  <2> HIDE DEF x, A, E, lo
  <2> QED BY <1>5, <2>1
<1>8. value \in Datums /\ value \in Slots
  <2>1. CASE run.at = "return"
    BY <1>4, <2>1, Stack DEF AtInv
  <2>2. CASE run.at = "instruction" /\ Temps >= 1
    <3>1. s <= F /\ \A a \in s + 1 .. F : memory[a] \in Datums
      BY <1>4, <2>2 DEF AtInv
    <3>2. Temps = F - s
      BY <1>5 DEF Temps, FrameFloor
    <3>3. s + 1 \in s + 1 .. F
      <4> HIDE DEF F, s
      <4> QED BY <1>5, <1>6, <2>2, <3>2
    <3> QED BY <3>1, <3>3, Stack
  <2> QED BY <1>1, <2>1, <2>2
<1> HIDE DEF lo, value, s, A, old, E, F
<1>9. E \in 0 .. StackTop
  BY <1>5, <1>6
<1>10. /\ memory' \in [0 .. StackTop -> Slots] /\ memory'[E] = value
       /\ \A a \in 0 .. StackTop : a # E => memory'[a] = memory[a]
  <2>0. memory' = [memory EXCEPT ![lo + 1] = value]
    BY <1>2, Zenon
  <2>1. memory' = [memory EXCEPT ![E] = value]
    BY <1>7, <2>0
  <2> QED BY <1>3, <1>8, <1>9, <2>1
<1>11. KeepsUp(memory, memory', run.old)
  <2>1. \A a \in old + 1 .. StackTop : a \in 0 .. StackTop /\ a # E
    BY <1>5, <1>6
  <2> QED BY <1>10, <2>1 DEF KeepsUp, old
<1>12. CASE Len(fs) > 1
  <2> DEFINE g == fs[2]
             G == FrameFloor(g)
             q == [run EXCEPT !.sp = lo, !.proc = return.ref, !.pc = return.count,
                              !.area = memory[run.area - AreaChain].ref,
                              !.env = memory[run.area - EnvChain].ref,
                              !.at = "instruction", !.passed = 0]
  <2>1. Links(memory, Tail(fs), old) /\ Tail(fs)[1] = g /\ 2 \in 2 .. Len(fs) /\ 2 \in 1 .. Len(fs)
    <3>1. 2 \in 2 .. Len(fs) => 2 \in 1 .. Len(fs)
      BY <1>4, <1>6, LinksFacts DEF old
    <3> QED BY <1>4, <1>6, <1>12, <3>1, LinksTail DEF old
  <2>2. /\ g \in FrameType /\ G \in Int /\ E <= G /\ G < g.area - 3 /\ g.area \in Nat
        /\ g.proc \in Procedures /\ End(g) < old /\ g.area - 1 <= End(g) /\ End(g) \in Int
    BY <1>4, <1>6, <2>1, LinksFacts DEF old, E, f
  <2>3. Linked(memory, f, g) /\ \A a \in E + 1 .. G : memory[a] \in Datums
    <3>1. Linked(memory, fs[2 - 1], fs[2])
          /\ \A a \in End(fs[2 - 1]) + 1 .. FrameFloor(fs[2]) : memory[a] \in Datums
      BY <1>4, <2>1 DEF Links
    <3> QED BY <3>1 DEF E
  <2>4. PICK offset \in Offsets : memory[run.area - PcChain] = ReturnAddress(g.proc, offset)
    BY <1>5, <2>3 DEF Linked, A
  <2>5. /\ return.ref = g.proc /\ return.count = offset
        /\ memory[run.area - EnvChain].ref = EnvOf[g.proc]
        /\ memory[run.area - AreaChain].ref = g.area
    BY <1>5, <2>3, <2>4 DEF Linked, A, ReturnAddress, Environment, Area, Slot
  <2>6. return.ref # Null
    BY <2>2, <2>5, Stack
  <2>7. /\ runs' = [runs EXCEPT
                      ![1].sp = lo, ![1].proc = return.ref, ![1].pc = return.count,
                      ![1].area = memory[run.area - AreaChain].ref,
                      ![1].env = memory[run.area - EnvChain].ref,
                      ![1].at = "instruction", ![1].passed = 0]
        /\ stackPtr' = stackPtr /\ result' = result
    BY <1>2, <2>6, Zenon
  <2>8. runs' = [runs EXCEPT ![1] = q]
    <3> HIDE DEF return
    <3> QED BY <1>3, <2>7
  <2>9. /\ q.sp = lo /\ q.proc = g.proc /\ q.pc = offset /\ q.area = g.area /\ q.env = EnvOf[g.proc]
        /\ q.old = run.old /\ q.at = "instruction"
    <3> HIDE DEF return, g
    <3> QED BY <1>3, <2>5 DEF Run
  <2>10. q \in Run
    <3>1. lo \in -1 .. StackTop
      BY <1>5, <1>6, <1>7
    <3>2. g.area \in 0 .. StackTop /\ EnvOf[g.proc] \in Range(EnvOf) /\ g.proc \in Procedures
      BY <2>2, Stack DEF FrameType
    <3> HIDE DEF return, g
    <3> QED BY <1>3, <2>5, <3>1, <3>2 DEF Run
  <2> HIDE DEF q, return, G
  <2>11. Links(memory', Tail(fs), old)
    <3>1. \A a \in g.area - 3 .. old - 1 : a \in 0 .. StackTop /\ a # E
      <4> SUFFICES ASSUME NEW a \in g.area - 3 .. old - 1 PROVE a \in 0 .. StackTop /\ a # E
        OBVIOUS
      <4> HIDE DEF g
      <4>1. E < a /\ a \in Int /\ a <= StackTop /\ E >= 0
        BY <1>6, <1>9, <2>2
      <4> QED BY <1>9, <4>1
    <3>2. Keeps(memory, memory', Tail(fs)[1], old - 1)
      BY <1>10, <2>1, <3>1 DEF Keeps
    <3> QED BY <1>6, <2>1, <3>2, LinksWritten
  <2>12. ASSUME NEW a \in q.sp + 1 .. G PROVE memory'[a] \in Datums
    <3>1. a \in E .. G
      BY <1>7, <2>9
    <3>2. CASE a = E
      BY <1>8, <1>10, <3>2
    <3>3. CASE a # E
      <4> HIDE DEF g
      <4>1. a \in E + 1 .. G /\ a \in 0 .. StackTop
        <5>1. a >= E + 1 /\ a <= G /\ a \in Int
          BY <1>9, <2>2, <3>1, <3>3
        <5>2. G <= StackTop /\ a >= 0
          BY <1>6, <1>9, <2>2, <5>1
        <5> QED BY <1>6, <1>9, <2>2, <5>1, <5>2
      <4> QED BY <1>10, <2>3, <3>3, <4>1
    <3> QED BY <3>2, <3>3
  <2>13. q.sp <= G
    BY <1>5, <1>7, <2>2, <2>9
  <2>14. AtInv(memory', q, g)
    BY <2>9, <2>12, <2>13 DEF AtInv, G
  <2>15. RunInv(memory', q)
    BY <2>1, <2>9, <2>11, <2>14 DEF RunInv, old
  <2>16. TypeOK'
    <3>1. runs' \in Seq(Run) /\ Len(runs') = Len(runs)
      BY <1>3, <2>8, <2>10
    <3> QED BY <1>3, <1>10, <2>7, <3>1 DEF TypeOK, Datums
  <2> QED BY <1>1, <1>11, <2>8, <2>9, <2>15, <2>16, TopStep
<1>13. CASE Len(fs) = 1
  <2>1. memory[run.area - PcChain] = ReturnAddress(Null, Null)
    BY <1>4, <1>5, <1>13 DEF Links, A
  <2>2. return.ref = Null
    BY <2>1 DEF ReturnAddress, Slot
  <2>3. runs' = Tail(runs) /\ stackPtr' = run.old /\ result' = value
    BY <1>2, <2>2, Zenon
  <2>4. TypeOK'
    <3>1. runs' \in Seq(Run) /\ Len(runs') = Len(runs) - 1 /\ Len(runs) \in Nat
      BY <1>1, <1>3, <2>3
    <3>2. Len(runs') <= MaxRuns
      BY <1>3, <3>1, Stack
    <3>3. stackPtr' \in 0 .. StackTop
      BY <1>6, <2>3 DEF old
    <3> QED BY <1>8, <1>10, <2>3, <3>1, <3>2, <3>3 DEF TypeOK, Datums
  <2> QED BY <1>1, <1>11, <2>3, <2>4, TopPop
<1>14. Len(fs) > 1 \/ Len(fs) = 1
  <2> DEFINE l == Len(fs)
  <2>1. l \in Nat /\ 1 \in 1 .. l
    BY <1>4, <1>6, LinksFacts DEF old
  <2> HIDE DEF l
  <2>2. l > 1 \/ l = 1
    BY <2>1
  <2> QED BY <2>2 DEF l
<1> QED BY <1>12, <1>13, <1>14

-----------------------------------------------------------------------------
(* The invariant.                                                          *)

\* Programs that leave out what vm.c gets wrong: tail calls of special functions with
\* another number of arguments, and evil_apply of procedures of other environments.
Sound == "mixedArity" \notin Operations /\ "applyClosure" \notin Operations

LEMMA StackInit == Init => StackInv
<1> SUFFICES ASSUME Init PROVE StackInv
  OBVIOUS
<1>1. runs = << >> /\ stackPtr = StackTop /\ result = Datum(0)
      /\ memory = [a \in 0 .. StackTop |-> Zero]
  BY DEF Init
<1>2. Len(runs) = 0 /\ runs \in Seq(Run)
  BY <1>1
<1>3. memory \in [0 .. StackTop -> Slots]
  <2>1. Zero \in Slots
    BY DEF Slots
  <2> QED BY <1>1, <2>1
<1>4. TypeOK
  <2>1. 0 \in Values
    BY FramesAssumption
  <2>2. 0 <= MaxRuns /\ StackTop \in 0 .. StackTop
    BY Stack
  <2> QED BY <1>1, <1>2, <1>3, <2>1, <2>2 DEF TypeOK
<1>5. \A i \in 1 .. Len(runs) : FALSE
  BY <1>2
<1> QED BY <1>1, <1>4, <1>5 DEF StackInv, NestInv

LEMMA StackNext == ASSUME Sound, StackInv, [Next]_vars PROVE StackInv'
<1>1. CASE EnterRun
  BY <1>1, EnterRunStep
<1>2. CASE ApplyProcedure
  BY <1>2, ApplyProcedureStep DEF Sound
<1>3. CASE PushValue
  BY <1>3, PushValueStep
<1>4. CASE LoadSlot
  BY <1>4, LoadSlotStep
<1>5. CASE StoreSlot
  BY <1>5, StoreSlotStep
<1>6. CASE Pop
  BY <1>6, PopStep
<1>7. CASE Binop
  BY <1>7, BinopStep
<1>8. CASE LoadString
  BY <1>8, LoadStringStep
<1>9. CASE PushString
  BY <1>9, PushStringStep
<1>10. CASE Call
  BY <1>10, CallStep
<1>11. CASE CallSpecial
  BY <1>11, CallSpecialStep
<1>12. CASE TailCall
  BY <1>12, TailCallStep
<1>13. CASE TailCallSpecial
  BY <1>13, TailCallSpecialStep DEF Sound
<1>14. CASE SpecialReturns
  BY <1>14, SpecialReturnsStep
<1>15. CASE Return
  BY <1>15, ReturnStep
<1>16. CASE UNCHANGED vars
  <2>1. memory' = memory /\ stackPtr' = stackPtr /\ runs' = runs /\ result' = result
    BY <1>16 DEF vars
  <2>2. TypeOK'
    BY <2>1 DEF StackInv, TypeOK
  <2>3. NestInv'
    BY <2>1 DEF StackInv, NestInv
  <2> QED BY <2>1, <2>2, <2>3 DEF StackInv
<1> QED BY <1>1, <1>2, <1>3, <1>4, <1>5, <1>6, <1>7, <1>8, <1>9, <1>10, <1>11, <1>12, <1>13,
           <1>14, <1>15, <1>16 DEF Next

\* Whatever its procedures do, a machine whose program is sound keeps the invariant.
THEOREM StackIsKept == Sound => (Spec => []StackInv)
<1> SUFFICES ASSUME Sound PROVE Spec => []StackInv
  OBVIOUS
<1>1. StackInv /\ [Next]_vars => StackInv'
  BY StackNext
<1> QED BY StackInit, <1>1, PTL DEF Spec

\* No call, tail call, return or nested run moves the stack pointer or program_area of
\* vm_run out of the stack, or makes a return address of anything else.
THEOREM StackTypes == Sound => (Spec => []TypeOK)
<1>1. StackInv => TypeOK
  BY DEF StackInv
<1> QED BY StackIsKept, <1>1, PTL

\* A collection during a special function scans every slot the frames use.
THEOREM SpecialsAreScanned == Sound => (Spec => []SpecialsSeeRoots)
<1>1. StackInv => SpecialsSeeRoots
  <2> SUFFICES ASSUME StackInv, runs # << >>, run.at \in {"special", "specialTail"}
               PROVE  stackPtr <= run.sp
    BY DEF SpecialsSeeRoots
  <2>1. run = runs[1] /\ run \in Run
    BY RunsFacts
  <2>2. stackPtr = run.sp /\ run.sp \in Int
    BY <2>1, RunFacts DEF StackInv, NestInv
  <2> QED BY <2>2
<1> QED BY StackIsKept, <1>1, PTL
-----------------------------------------------------------------------------
(***************************************************************************)
(* The frames the stack of vm.c stands for, which Callers reads back from  *)
(* the chains that CALL and TAILCALL leave in it.                          *)
(***************************************************************************)

-----------------------------------------------------------------------------
(* Callers is defined by recursion up the stack.                           *)

Places == (0 .. StackTop) \X Int

CallerProc(m, x) == m[x[1] - PcChain].ref

CallerArea(m, x) == m[x[1] - AreaChain].ref

HasCaller(m, x) == CallerProc(m, x) \in Procedures /\ CallerArea(m, x) \in x[1] + 1 .. StackTop

CallerPlace(m, x) == <<CallerArea(m, x), CallerArea(m, x) + NumArgs[CallerProc(m, x)] - 1>>

CallerFrame(m, x) ==
    Frame(m, CallerProc(m, x), m[x[1] - PcChain].count, m[x[1] - EnvChain].ref, CallerArea(m, x), x[2])

\* What Callers makes of x when c is what it makes of the places above.
CallersBody(m, c, x) == IF HasCaller(m, x) THEN <<CallerFrame(m, x)>> \o c[CallerPlace(m, x)] ELSE << >>

LEMMA CallersExist == ASSUME NEW m PROVE \E c : c = [x \in Places |-> CallersBody(m, c, x)]
<1> DEFINE Above(n) == {x \in Places : StackTop - x[1] < n}
           G == {n \in Nat : \E c : c = [x \in Above(n) |-> CallersBody(m, c, x)]}
<1>1. StackTop \in Nat
  BY Stack
<1>2. 0 \in G
  <2>1. Above(0) = {}
    BY <1>1 DEF Places
  <2> DEFINE c == [x \in {} |-> 0]
  <2>2. c = [x \in {} |-> CallersBody(m, c, x)]
    OBVIOUS
  <2> HIDE DEF c, CallersBody, Above
  <2> QED BY <2>1, <2>2
<1>3. ASSUME NEW n \in G PROVE n + 1 \in G
  <2>1. PICK c : c = [x \in Above(n) |-> CallersBody(m, c, x)]
    BY <1>3
  <2> DEFINE d == [x \in Above(n + 1) |-> CallersBody(m, c, x)]
  <2>2. ASSUME NEW x \in Above(n + 1) PROVE CallersBody(m, c, x) = CallersBody(m, d, x)
    <3>1. CASE HasCaller(m, x)
      <4> DEFINE y == CallerPlace(m, x)
      <4>1. y \in Above(n) /\ y \in Above(n + 1)
        <5>1. x \in Places /\ StackTop - x[1] < n + 1 /\ n \in Nat
          BY <1>3
        <5> DEFINE b == CallerArea(m, x)
                   e == b + NumArgs[CallerProc(m, x)] - 1
                   a == x[1]
        <5>2. b \in a + 1 .. StackTop /\ NumArgs[CallerProc(m, x)] \in Nat
              /\ a \in 0 .. StackTop
          BY <3>1, <5>1, Stack DEF HasCaller, Places
        <5>3. e \in Int
          <6> HIDE DEF b
          <6> QED BY <1>1, <5>2
        <5>4. y = <<b, e>>
          BY DEF CallerPlace
        <5> HIDE DEF a, b, e
        <5>5. b \in 0 .. StackTop /\ StackTop - b < n
          BY <1>1, <5>1, <5>2 DEF a
        <5>6. StackTop - b < n + 1
          BY <1>1, <5>1, <5>2, <5>5
        <5> HIDE DEF y
        <5>7. y \in Places /\ y[1] = b
          BY <5>3, <5>4, <5>5 DEF Places
        <5> QED BY <5>5, <5>6, <5>7
      <4>2. d[y] = CallersBody(m, c, y) /\ c[y] = CallersBody(m, c, y)
        <5> HIDE DEF y, CallersBody, Above
        <5> QED BY <2>1, <4>1
      <4> HIDE DEF d
      <4> QED BY <3>1, <4>2 DEF CallersBody
    <3>2. CASE ~ HasCaller(m, x)
      BY <3>2 DEF CallersBody
    <3> QED BY <3>1, <3>2
  <2>3. d = [x \in Above(n + 1) |-> CallersBody(m, d, x)]
    <3> HIDE DEF CallersBody, Above
    <3> QED BY <2>2
  <2> HIDE DEF d, CallersBody, Above
  <2> QED BY <1>3, <2>3
<1>4. StackTop + 1 \in G
  <2>1. G = Nat
    <3> HIDE DEF G
    <3>1. G \in SUBSET Nat
      BY DEF G
    <3> QED BY <1>2, <1>3, <3>1, SetInduction
  <2> HIDE DEF G
  <2> QED BY <1>1, <2>1
<1>5. Above(StackTop + 1) = Places
  BY <1>1 DEF Places
<1> HIDE DEF CallersBody, Above
<1> QED BY <1>4, <1>5

LEMMA CallersUnfold == ASSUME NEW m PROVE Callers(m) = [x \in Places |-> CallersBody(m, Callers(m), x)]
BY CallersExist DEF Callers, CallersBody, HasCaller, CallerFrame, CallerPlace, CallerProc, CallerArea, Places

-----------------------------------------------------------------------------
(* TotalSize adds up the sizes of frames.                                  *)

TotalBody(frames, t, j) == IF j = 0 THEN 0 ELSE t[j - 1] + FrameSize(frames[j])

LEMMA TotalsExist ==
    ASSUME NEW frames, NEW len \in Nat
    PROVE  \E t : t = [j \in 0 .. len |-> TotalBody(frames, t, j)]
<1> DEFINE G == {n \in Nat : \E t : t = [j \in 0 .. n |-> TotalBody(frames, t, j)]}
<1>1. 0 \in G
  <2> DEFINE t == [j \in 0 .. 0 |-> 0]
  <2>1. t = [j \in 0 .. 0 |-> TotalBody(frames, t, j)]
    <3>1. \A j \in 0 .. 0 : j = 0
      OBVIOUS
    <3>2. \A j \in 0 .. 0 : TotalBody(frames, t, j) = 0
      BY <3>1 DEF TotalBody
    <3> HIDE DEF TotalBody
    <3> QED BY <3>2
  <2> HIDE DEF t
  <2> QED BY <2>1
<1>2. ASSUME NEW n \in G PROVE n + 1 \in G
  <2>1. PICK t : t = [j \in 0 .. n |-> TotalBody(frames, t, j)]
    BY <1>2
  <2>n. n \in Nat
    BY <1>2
  <2> DEFINE u == [j \in 0 .. n + 1 |-> TotalBody(frames, t, j)]
  <2>2. ASSUME NEW j \in 0 .. n + 1 PROVE TotalBody(frames, t, j) = TotalBody(frames, u, j)
    <3>1. CASE j = 0
      BY <3>1 DEF TotalBody
    <3>2. CASE j # 0
      <4>1. j - 1 \in 0 .. n /\ j - 1 \in 0 .. n + 1
        BY <2>n, <3>2
      <4> DEFINE i == j - 1
      <4>2. u[i] = TotalBody(frames, t, i) /\ t[i] = TotalBody(frames, t, i)
        <5> HIDE DEF i
        <5>1. i \in 0 .. n /\ i \in 0 .. n + 1
          BY <4>1 DEF i
        <5> QED BY <2>1, <5>1
      <4> HIDE DEF u
      <4> QED BY <3>2, <4>2 DEF TotalBody
    <3> QED BY <3>1, <3>2
  <2>3. u = [j \in 0 .. n + 1 |-> TotalBody(frames, u, j)]
    BY <2>2
  <2> HIDE DEF u
  <2> QED BY <2>3, <2>n
<1>3. G = Nat
  <2> HIDE DEF G
  <2>1. G \in SUBSET Nat
    BY DEF G
  <2> QED BY <1>1, <1>2, <2>1, SetInduction
<1> QED BY <1>3

Totals(frames) == CHOOSE t : t = [j \in 0 .. Len(frames) |-> TotalBody(frames, t, j)]

LEMMA TotalsUnfold ==
    ASSUME NEW frames, Len(frames) \in Nat
    PROVE  /\ Totals(frames) = [j \in 0 .. Len(frames) |-> TotalBody(frames, Totals(frames), j)]
           /\ TotalSize(frames) = Totals(frames)[Len(frames)]
<1>1. Totals(frames) = [j \in 0 .. Len(frames) |-> TotalBody(frames, Totals(frames), j)]
  BY TotalsExist DEF Totals
<1>2. TotalSize(frames) = Totals(frames)[Len(frames)]
  BY DEF TotalSize, Totals, TotalBody
<1> QED BY <1>1, <1>2

LEMMA TotalEmpty == TotalSize(<< >>) = 0
<1>1. Len(<< >>) = 0 /\ 0 \in 0 .. 0
  OBVIOUS
<1>2. TotalSize(<< >>) = TotalBody(<< >>, Totals(<< >>), 0)
  BY <1>1, TotalsUnfold
<1> QED BY <1>2 DEF TotalBody

LEMMA TotalCons ==
    ASSUME NEW S, NEW s \in Seq(S), NEW x \in S, \A y \in S : FrameSize(y) \in Int
    PROVE  /\ TotalSize(s) \in Int
           /\ TotalSize(<<x>> \o s) = FrameSize(x) + TotalSize(s)
<1> DEFINE u == <<x>> \o s
           l == Len(s)
           T == Totals(u)
           R == Totals(s)
           G == {n \in Nat : n <= l => R[n] \in Int /\ T[n + 1] = FrameSize(x) + R[n]}
<1>1. /\ u \in Seq(S) /\ Len(u) = l + 1 /\ l \in Nat /\ u[1] = x
      /\ \A i \in 1 .. l : u[1 + i] = s[i] /\ s[i] \in S
  BY ConcatFacts
<1>2. /\ \A j \in 0 .. l : R[j] = TotalBody(s, R, j)
      /\ \A j \in 0 .. l + 1 : T[j] = TotalBody(u, T, j)
      /\ TotalSize(s) = R[l] /\ TotalSize(u) = T[l + 1]
  <2>1. /\ R = [j \in 0 .. Len(s) |-> TotalBody(s, R, j)]
        /\ T = [j \in 0 .. Len(u) |-> TotalBody(u, T, j)]
        /\ TotalSize(s) = R[l] /\ TotalSize(u) = T[Len(u)]
    <3>1. Len(u) \in Nat
      BY <1>1
    <3> HIDE DEF u
    <3> QED BY <1>1, <3>1, TotalsUnfold
  <2> HIDE DEF R, T, u
  <2> QED BY <1>1, <2>1
<1> HIDE DEF u, l, R, T
<1>3. 0 \in G
  <2>1. 0 \in 0 .. l /\ 0 \in 0 .. l + 1 /\ 1 \in 0 .. l + 1
    BY <1>1
  <2>2. R[0] = 0 /\ T[0] = 0
    BY <1>2, <2>1 DEF TotalBody
  <2>3. T[1] = T[0] + FrameSize(x)
    <3>1. T[1] = T[1 - 1] + FrameSize(u[1])
      BY <1>2, <2>1 DEF TotalBody
    <3> QED BY <1>1, <3>1
  <2> HIDE DEF FrameSize
  <2>4. FrameSize(x) \in Int
    OBVIOUS
  <2> QED BY <2>2, <2>3, <2>4
<1>4. ASSUME NEW n \in G PROVE n + 1 \in G
  <2>0. n \in Nat
    BY <1>4
  <2> SUFFICES ASSUME n + 1 <= l
               PROVE  R[n + 1] \in Int /\ T[n + 1 + 1] = FrameSize(x) + R[n + 1]
    BY <2>0
  <2>1. /\ n + 1 \in 0 .. l /\ n + 1 + 1 \in 0 .. l + 1 /\ n + 1 \in 1 .. l /\ n <= l
        /\ n + 1 # 0 /\ n + 1 + 1 # 0 /\ n + 1 - 1 = n /\ n + 1 + 1 - 1 = n + 1
        /\ 1 + (n + 1) = n + 1 + 1
    BY <1>1, <2>0
  <2> DEFINE i == n + 1
             k == n + 1 + 1
  <2>2. R[i] = R[i - 1] + FrameSize(s[i]) /\ T[k] = T[k - 1] + FrameSize(u[k])
    <3>1. i \in 0 .. l /\ k \in 0 .. l + 1 /\ i # 0 /\ k # 0
      BY <2>1
    <3> HIDE DEF i, k
    <3> QED BY <1>2, <3>1 DEF TotalBody
  <2>3. R[i - 1] = R[n] /\ T[k - 1] = T[i] /\ u[k] = s[i] /\ s[i] \in S
    BY <1>1, <2>1
  <2>4. R[n] \in Int /\ T[i] = FrameSize(x) + R[n]
    BY <2>1, <1>4
  <2>5. FrameSize(x) \in Int /\ FrameSize(s[i]) \in Int
    BY <2>3
  <2> DEFINE a == FrameSize(x)
             b == FrameSize(s[i])
             r == R[n]
  <2>6. R[i] = r + b /\ T[k] = a + r + b /\ r \in Int /\ a \in Int /\ b \in Int
    BY <2>2, <2>3, <2>4, <2>5
  <2>7. R[i] \in Int /\ T[k] = a + R[i]
    <3> HIDE DEF a, b, r, i, k
    <3> QED BY <2>6
  <2> QED BY <2>7
<1>5. l \in G
  <2>1. G = Nat
    <3> HIDE DEF G
    <3>1. G \in SUBSET Nat
      BY DEF G
    <3> QED BY <1>3, <1>4, <3>1, SetInduction
  <2> HIDE DEF G
  <2> QED BY <1>1, <2>1
<1>6. R[l] \in Int /\ T[l + 1] = FrameSize(x) + R[l]
  BY <1>1, <1>5
<1> QED BY <1>2, <1>6 DEF u

-----------------------------------------------------------------------------
(* The frames of a run.                                                    *)

FrameRecord ==
    [kind : {"procedure", "special", "specialTail", "done"}, proc : {Null} \cup Procedures,
     pc : {0} \cup Offsets, env : {0} \cup Range(EnvOf),
     args : Seq(Slots), locals : Seq(Slots), temps : Seq(Slots)]

\* A frame that has the environment of its procedure.
OwnFrame == {f \in FrameRecord : f.kind = "procedure" => f.env = EnvOf[f.proc]}

LEMMA SlotSeq ==
    ASSUME NEW n \in Nat, NEW s, s = [i \in 1 .. n |-> s[i]], \A i \in 1 .. n : s[i] \in Slots
    PROVE  s \in Seq(Slots) /\ Len(s) = n
OBVIOUS

LEMMA SizeFacts == \A f \in OwnFrame : FrameSize(f) \in Int
<1> SUFFICES ASSUME NEW f \in OwnFrame PROVE FrameSize(f) \in Int
  OBVIOUS
<1>1. Len(f.args) \in Nat /\ Len(f.locals) \in Nat /\ Len(f.temps) \in Nat
  BY DEF OwnFrame, FrameRecord
<1> QED BY <1>1 DEF FrameSize, SlotCount

LEMMA FrameOwn ==
    ASSUME NEW m \in [0 .. StackTop -> Slots], NEW p \in Procedures, NEW offset \in {0} \cup Offsets,
           NEW a \in Nat, NEW low \in Int, -1 <= low, low <= Floor(a, p), a + NumArgs[p] - 1 <= StackTop
    PROVE  /\ Frame(m, p, offset, EnvOf[p], a, low) \in OwnFrame
           /\ FrameSize(Frame(m, p, offset, EnvOf[p], a, low)) = a + NumArgs[p] - 1 - low
<1> DEFINE n == NumArgs[p]
           l == NumLocals[p]
           t == Floor(a, p) - low
           args == [i \in 1 .. n |-> m[a + i - 1]]
           locals == [i \in 1 .. l |-> m[a + SlotIndex(i - 1)]]
           temps == [i \in 1 .. t |-> m[low + i]]
           f == Frame(m, p, offset, EnvOf[p], a, low)
<1>1. /\ n \in Nat /\ l \in Nat /\ EnvOf[p] \in Range(EnvOf) /\ StackTop \in Nat
      /\ Floor(a, p) = a - 4 - l
  BY Stack DEF Floor, SlotCount
<1>2. a + n - 1 <= StackTop /\ t = a - 4 - l - low /\ t \in Nat /\ a <= StackTop + 1
  <2> DEFINE F == Floor(a, p)
  <2>1. F = a - 4 - l /\ t = F - low /\ low <= F
    BY <1>1
  <2> HIDE DEF n, l, F, t
  <2> QED BY <1>1, <2>1 DEF n
<1> HIDE DEF n, l, t
<1>3. args \in Seq(Slots) /\ Len(args) = n
  <2>1. ASSUME NEW i \in 1 .. n PROVE a + i - 1 \in 0 .. StackTop
    BY <1>1, <1>2
  <2>2. \A i \in 1 .. n : args[i] \in Slots
    BY <2>1
  <2> QED BY <1>1, <2>2
<1>4. locals \in Seq(Slots) /\ Len(locals) = l
  <2>1. ASSUME NEW i \in 1 .. l PROVE a + SlotIndex(i - 1) \in 0 .. StackTop
    <3>1. a + SlotIndex(i - 1) = a - i - 3
      BY <1>1 DEF SlotIndex, SlotCount
    <3>2. a - i - 3 \in 0 .. StackTop
      BY <1>1, <1>2
    <3> QED BY <3>1, <3>2
  <2>2. \A i \in 1 .. l : locals[i] \in Slots
    BY <2>1
  <2> QED BY <1>1, <2>2
<1>5. temps \in Seq(Slots) /\ Len(temps) = t
  <2>1. ASSUME NEW i \in 1 .. t PROVE low + i \in 0 .. StackTop
    BY <1>1, <1>2, SMTT(30)
  <2>2. \A i \in 1 .. t : temps[i] \in Slots
    BY <2>1
  <2> QED BY <1>2, <2>2
<1> HIDE DEF args, locals, temps
<1>6. f = [kind |-> "procedure", proc |-> p, pc |-> offset, env |-> EnvOf[p],
           args |-> args, locals |-> locals, temps |-> temps]
  BY DEF Frame, n, l, t, args, locals, temps
<1> HIDE DEF f
<1>7. f \in OwnFrame
  BY <1>1, <1>3, <1>4, <1>5, <1>6 DEF OwnFrame, FrameRecord
<1>8. FrameSize(f) = n + l + t + 3
  BY <1>3, <1>4, <1>5, <1>6 DEF FrameSize, SlotCount
<1>9. n + l + t + 3 = a + n - 1 - low
  BY <1>1, <1>2
<1> QED BY <1>7, <1>8, <1>9 DEF f, n

\* What Callers makes of the frames that Links describes.
LEMMA CallersLast ==
    ASSUME NEW m, NEW fs, NEW old \in 0 .. StackTop, Links(m, fs, old)
    PROVE  Callers(m)[<<fs[Len(fs)].area, End(fs[Len(fs)])>>] = << >>
<1> DEFINE f == fs[Len(fs)]
           x == <<f.area, End(f)>>
<1>1. /\ f.area \in 0 .. StackTop /\ End(f) \in Int
      /\ m[f.area - PcChain] = ReturnAddress(Null, Null)
  BY LinksFacts DEF Links, FrameType
<1>2. x \in Places /\ x[1] = f.area
  BY <1>1 DEF Places
<1> HIDE DEF x
<1>3. CallerProc(m, x) = Null
  BY <1>1, <1>2 DEF CallerProc, ReturnAddress, Slot
<1>4. Callers(m)[x] = << >>
  <2>1. ~ HasCaller(m, x)
    BY <1>3, Stack DEF HasCaller
  <2>2. Callers(m)[x] = CallersBody(m, Callers(m), x)
    <3> HIDE DEF CallersBody
    <3> QED BY <1>2, CallersUnfold
  <2> QED BY <2>1, <2>2, Zenon DEF CallersBody
<1> QED BY <1>4 DEF x

\* The caller of a frame is the next one.
CallerIsNext(m, fs, k) ==
    \E offset \in Offsets :
       /\ m[fs[k - 1].area - PcChain] = ReturnAddress(fs[k].proc, offset)
       /\ Callers(m)[<<fs[k - 1].area, End(fs[k - 1])>>]
             = <<Frame(m, fs[k].proc, offset, EnvOf[fs[k].proc], fs[k].area, End(fs[k - 1]))>>
               \o Callers(m)[<<fs[k].area, End(fs[k])>>]

LEMMA CallersNext ==
    ASSUME NEW m, NEW fs, NEW old \in 0 .. StackTop, Links(m, fs, old), NEW k \in 2 .. Len(fs)
    PROVE  CallerIsNext(m, fs, k)
<1> DEFINE f == fs[k - 1]
           g == fs[k]
           x == <<f.area, End(f)>>
<1>1. k \in 1 .. Len(fs) /\ k - 1 \in 1 .. Len(fs) /\ k - 1 \in 1 .. k - 1
  BY LinksFacts
<1>2. /\ f \in FrameType /\ g \in FrameType /\ f.area \in 0 .. StackTop /\ g.area \in 0 .. StackTop
      /\ End(f) \in Int /\ g.proc \in Procedures /\ FrameFloor(g) \in Int
      /\ FrameFloor(g) < g.area - 3 /\ f.area - 1 <= End(f)
  BY <1>1, LinksFacts DEF FrameType
<1>3. End(f) <= FrameFloor(g) /\ Linked(m, f, g)
  BY <1>1 DEF Links
<1>4. PICK offset \in Offsets : m[f.area - PcChain] = ReturnAddress(g.proc, offset)
  BY <1>3 DEF Linked
<1>5. g.area \in f.area + 1 .. StackTop
  <2> DEFINE a == f.area
             b == g.area
             e == End(f)
             F == FrameFloor(g)
  <2>1. /\ a \in 0 .. StackTop /\ b \in 0 .. StackTop /\ e \in Int /\ F \in Int /\ StackTop \in Nat
        /\ F < b - 3 /\ a - 1 <= e /\ e <= F
    BY <1>2, <1>3, Stack
  <2> HIDE DEF a, b, e, F
  <2>2. b \in a + 1 .. StackTop
    BY <2>1
  <2> QED BY <2>2 DEF a, b
<1>6. x \in Places /\ x[1] = f.area /\ x[2] = End(f)
  BY <1>2 DEF Places
<1> HIDE DEF x
<1>7. /\ CallerProc(m, x) = g.proc /\ CallerArea(m, x) = g.area
      /\ m[x[1] - PcChain].count = offset /\ m[x[1] - EnvChain].ref = EnvOf[g.proc]
  BY <1>3, <1>4, <1>6 DEF CallerProc, CallerArea, Linked, ReturnAddress, Area, Environment, Slot
<1> HIDE DEF f, g
<1>8. HasCaller(m, x) /\ CallerPlace(m, x) = <<g.area, End(g)>>
      /\ CallerFrame(m, x) = Frame(m, g.proc, offset, EnvOf[g.proc], g.area, End(f))
  BY <1>2, <1>5, <1>6, <1>7 DEF HasCaller, CallerPlace, CallerFrame, End
<1>9. Callers(m)[x] = <<CallerFrame(m, x)>> \o Callers(m)[CallerPlace(m, x)]
  BY <1>6, <1>8, CallersUnfold DEF CallersBody
<1> QED BY <1>4, <1>8, <1>9 DEF f, g, x, CallerIsNext

\* The callers of a frame have their own environments and fill the stack above it.
CallersInv(m, fs, old, k) ==
    /\ Callers(m)[<<fs[k].area, End(fs[k])>>] \in Seq(OwnFrame)
    /\ TotalSize(Callers(m)[<<fs[k].area, End(fs[k])>>]) = old - 1 - End(fs[k])

LEMMA CallersFacts ==
    ASSUME NEW m \in [0 .. StackTop -> Slots], NEW fs, NEW old \in 0 .. StackTop,
           Links(m, fs, old)
    PROVE  \A k \in 1 .. Len(fs) : CallersInv(m, fs, old, k)
<1> DEFINE l == Len(fs)
           G == {n \in Nat : n < l => CallersInv(m, fs, old, l - n)}
<1>1. l \in Nat /\ l \in 1 .. l /\ old \in Nat
  BY LinksFacts
<1>2. 0 \in G
  <2>1. End(fs[l]) = old - 1 /\ l - 0 = l
    BY <1>1 DEF Links
  <2>2. Callers(m)[<<fs[l].area, End(fs[l])>>] = << >>
    BY CallersLast
  <2>3. old - 1 - End(fs[l]) = 0
    BY <1>1, <2>1
  <2>4. CallersInv(m, fs, old, l)
    BY <2>2, <2>3, TotalEmpty DEF CallersInv
  <2> QED BY <2>1, <2>4
<1>3. ASSUME NEW n \in G PROVE n + 1 \in G
  <2> HIDE DEF l
  <2>0. n \in Nat
    BY <1>3
  <2> SUFFICES ASSUME n + 1 < l PROVE CallersInv(m, fs, old, l - (n + 1))
    BY <2>0
  <2> DEFINE k == l - n
  <2>1. k \in 2 .. l /\ k \in 1 .. l /\ k - 1 \in 1 .. l /\ l - (n + 1) = k - 1 /\ k - 1 \in 1 .. k - 1
    BY <1>1, <2>0
  <2>2. CallersInv(m, fs, old, k)
    BY <1>3, <2>0, <1>1
  <2> HIDE DEF k
  <2> DEFINE f == fs[k - 1]
             g == fs[k]
  <2>3. PICK offset \in Offsets :
              Callers(m)[<<f.area, End(f)>>]
                    = <<Frame(m, g.proc, offset, EnvOf[g.proc], g.area, End(f))>>
                      \o Callers(m)[<<g.area, End(g)>>]
    <3>1. k \in 2 .. Len(fs)
      BY <2>1 DEF l
    <3>2. CallerIsNext(m, fs, k)
      BY <3>1, CallersNext
    <3> QED BY <3>2, Zenon DEF CallerIsNext
  <2> DEFINE fr == Frame(m, g.proc, offset, EnvOf[g.proc], g.area, End(f))
             c == Callers(m)[<<g.area, End(g)>>]
  <2>4. /\ g.proc \in Procedures /\ g.area \in Nat /\ End(f) \in Int /\ End(g) \in Int /\ End(g) < old
        /\ f.area \in Nat /\ f.area - 1 <= End(f)
    BY <2>1, LinksFacts DEF l
  <2>5. End(f) <= FrameFloor(g) /\ FrameFloor(g) = Floor(g.area, g.proc)
        /\ End(g) = g.area + NumArgs[g.proc] - 1
    BY <2>1 DEF Links, FrameFloor, End, l
  <2>6. fr \in OwnFrame /\ FrameSize(fr) = End(g) - End(f)
    <3>1. offset \in {0} \cup Offsets /\ -1 <= End(f)
      BY <2>4
    <3>2. g.area + NumArgs[g.proc] - 1 <= StackTop
      <4> DEFINE e == End(g)
      <4>1. e \in Int /\ e < old
        BY <2>4
      <4>2. e <= StackTop
        <5> HIDE DEF e
        <5> QED BY <4>1, Stack
      <4> QED BY <2>5, <4>2
    <3> DEFINE p == g.proc
               a == g.area
               e == End(f)
    <3>3. /\ p \in Procedures /\ a \in Nat /\ e \in Int /\ -1 <= e /\ e <= Floor(a, p)
          /\ a + NumArgs[p] - 1 <= StackTop /\ offset \in {0} \cup Offsets
      BY <2>4, <2>5, <3>1, <3>2
    <3> HIDE DEF p, a, e
    <3>4. /\ Frame(m, p, offset, EnvOf[p], a, e) \in OwnFrame
          /\ FrameSize(Frame(m, p, offset, EnvOf[p], a, e)) = a + NumArgs[p] - 1 - e
      BY <3>3, FrameOwn
    <3>5. End(g) = a + NumArgs[p] - 1
      BY <2>5 DEF p, a
    <3>6. FrameSize(Frame(m, p, offset, EnvOf[p], a, e)) = End(g) - e
      <4> DEFINE numArgs == NumArgs[p]
                 s == FrameSize(Frame(m, p, offset, EnvOf[p], a, e))
                 h == End(g)
      <4>1. s = a + numArgs - 1 - e /\ h = a + numArgs - 1 /\ numArgs \in Nat /\ a \in Nat /\ e \in Int
        BY <3>3, <3>4, <3>5, Stack
      <4> HIDE DEF numArgs, s, h
      <4>2. s = h - e
        BY <4>1
      <4> QED BY <4>2 DEF s, h
    <3> QED BY <3>4, <3>6, Zenon DEF p, a, e
  <2>7. c \in Seq(OwnFrame) /\ TotalSize(c) = old - 1 - End(g)
    BY <2>2 DEF CallersInv
  <2> HIDE DEF fr, c, f, g
  <2>8. <<fr>> \o c \in Seq(OwnFrame) /\ TotalSize(<<fr>> \o c) = FrameSize(fr) + TotalSize(c)
    BY <2>6, <2>7, SizeFacts, TotalCons
  <2>9. FrameSize(fr) + TotalSize(c) = old - 1 - End(f)
    BY <1>1, <2>4, <2>6, <2>7
  <2>10. CallersInv(m, fs, old, k - 1)
    BY <2>3, <2>8, <2>9 DEF CallersInv, fr, c, f, g
  <2> QED BY <2>1, <2>10
<1>4. G = Nat
  <2> HIDE DEF G
  <2>1. G \in SUBSET Nat
    BY DEF G
  <2> QED BY <1>2, <1>3, <2>1, SetInduction
<1>5. ASSUME NEW k \in 1 .. l PROVE CallersInv(m, fs, old, k)
  <2>1. l - k \in Nat /\ l - k < l /\ l - (l - k) = k
    BY <1>1
  <2>2. l - k \in G
    BY <1>4, <2>1
  <2> QED BY <2>1, <2>2
<1> QED BY <1>5

LEMMA SpecialOwn ==
    ASSUME NEW kind \in {"special", "specialTail", "done"}, NEW e \in {0} \cup Range(EnvOf),
           NEW args \in Seq(Slots), NEW temps \in Seq(Slots)
    PROVE  /\ Special(kind, e, args, temps) \in OwnFrame
           /\ kind = "special" =>
                 FrameSize(Special(kind, e, args, temps)) = Len(args) + Len(temps)
           /\ kind # "special" =>
                 FrameSize(Special(kind, e, args, temps)) = Len(args) + Len(temps) + 3
<1>1. << >> \in Seq(Slots) /\ Len(<< >>) = 0 /\ Len(args) \in Nat /\ Len(temps) \in Nat
  OBVIOUS
<1>2. Special(kind, e, args, temps) \in OwnFrame
  BY <1>1, FramesAssumption DEF Special, OwnFrame, FrameRecord
<1>3. FrameSize(Special(kind, e, args, temps))
         = Len(args) + 0 + Len(temps) + (IF kind = "special" THEN 0 ELSE SlotCount)
  BY <1>1 DEF Special, FrameSize
<1> QED BY <1>1, <1>2, <1>3 DEF SlotCount

\* What the slots of a run hold is frames, which fill the stack up to old.
LEMMA FramesFacts ==
    ASSUME NEW m \in [0 .. StackTop -> Slots], NEW r \in Run, RunInv(m, r)
    PROVE  Frames(m, r) \in Seq(OwnFrame) /\ TotalSize(Frames(m, r)) = r.old - 1 - r.sp
<1>1. PICK fs : Links(m, fs, r.old) /\ AtInv(m, r, fs[1])
  BY DEF RunInv
<1> DEFINE f == fs[1]
           A == f.area
           E == End(f)
           F == FrameFloor(f)
           c == Callers(m)[<<A, E>>]
           old == r.old
           sp == r.sp
           n == r.passed
<1>2. /\ sp \in Int /\ -1 <= sp /\ n \in Nat /\ old \in 0 .. StackTop /\ old \in Nat /\ old <= StackTop
      /\ StackTop \in Nat /\ r.env \in {0} \cup Range(EnvOf) /\ r.pc \in {0} \cup Offsets
  BY RunFacts, Stack DEF Run
<1>3. /\ f \in FrameType /\ F \in Int /\ E \in Int /\ A \in Nat /\ f.proc \in Procedures
      /\ F < A - 3 /\ A - 1 <= E /\ E < old /\ -1 <= F
  BY <1>1, <1>2, LinksFacts
<1>4. /\ F = Floor(A, f.proc) /\ E = A + NumArgs[f.proc] - 1 /\ NumArgs[f.proc] \in Nat
      /\ r.proc = f.proc /\ r.env = EnvOf[f.proc]
  BY <1>1, <1>3, Stack DEF AtInv, End, FrameFloor
<1>5. c \in Seq(OwnFrame) /\ TotalSize(c) = old - 1 - E
  <2>1. 1 \in 1 .. Len(fs)
    BY <1>1, <1>2, LinksFacts
  <2> QED BY <1>1, <1>2, <2>1, CallersFacts DEF CallersInv
<1>6. ASSUME NEW x \in OwnFrame, Frames(m, r) = <<x>> \o c, FrameSize(x) = E - sp
      PROVE  Frames(m, r) \in Seq(OwnFrame) /\ TotalSize(Frames(m, r)) = old - 1 - sp
  <2> HIDE DEF c, E, sp, old
  <2>1. <<x>> \o c \in Seq(OwnFrame) /\ TotalSize(<<x>> \o c) = FrameSize(x) + TotalSize(c)
    BY <1>5, SizeFacts, TotalCons
  <2>2. FrameSize(x) + TotalSize(c) = old - 1 - sp
    BY <1>2, <1>3, <1>5, <1>6
  <2> QED BY <1>6, <2>1, <2>2
\* The frame of f, when its temporaries start above low.
<1>7. ASSUME NEW low \in Int, -1 <= low, low <= F
      PROVE  /\ Frame(m, f.proc, r.pc, EnvOf[f.proc], A, low) \in OwnFrame
             /\ FrameSize(Frame(m, f.proc, r.pc, EnvOf[f.proc], A, low)) = E - low
  <2> DEFINE p == f.proc
             pc == r.pc
             l == NumArgs[p]
  <2>1. /\ p \in Procedures /\ A \in Nat /\ low <= Floor(A, p) /\ A + l - 1 <= StackTop
        /\ pc \in {0} \cup Offsets /\ E = A + l - 1 /\ l \in Nat
    <3>1. E <= StackTop
      <4> HIDE DEF E, old
      <4> QED BY <1>2, <1>3
    <3> QED BY <1>2, <1>3, <1>4, <1>7, <3>1
  <2> HIDE DEF p, pc, A, E
  <2>2. /\ Frame(m, p, pc, EnvOf[p], A, low) \in OwnFrame
        /\ FrameSize(Frame(m, p, pc, EnvOf[p], A, low)) = A + NumArgs[p] - 1 - low
    BY <1>7, <2>1, FrameOwn
  <2> HIDE DEF l
  <2>3. A + l - 1 - low = E - low
    BY <1>7, <2>1
  <2> QED BY <2>2, <2>3 DEF p, pc, l
<1>8. CASE r.at \in {"instruction", "string"}
  <2>1. sp <= F /\ r.area = A
    BY <1>1, <1>8 DEF AtInv
  <2> DEFINE x == Frame(m, f.proc, r.pc, EnvOf[f.proc], A, sp)
  <2>2. x \in OwnFrame /\ FrameSize(x) = E - sp
    BY <1>2, <1>7, <2>1
  <2>3. Frames(m, r) = <<x>> \o c
    BY <1>4, <1>8, <2>1 DEF Frames
  <2> QED BY <1>6, <2>2, <2>3
\* The arguments of a special function.
<1>9. ASSUME NEW a \in Nat, r.area = a, a + n - 1 <= StackTop
      PROVE  Passed(m, r) \in Seq(Slots) /\ Len(Passed(m, r)) = n
  <2>1. Passed(m, r) = [i \in 1 .. n |-> m[a + i - 1]]
    BY <1>9 DEF Passed
  <2> HIDE DEF n
  <2>2. ASSUME NEW i \in 1 .. n PROVE a + i - 1 \in 0 .. StackTop
    BY <1>2, <1>9
  <2>3. \A i \in 1 .. n : m[a + i - 1] \in Slots
    BY <2>2
  <2> QED BY <1>2, <2>1, <2>3
<1>10. CASE r.at = "special"
  <2>1. r.area = sp + 1 /\ r.oldArea = A /\ sp >= 0 /\ sp + n <= F
    BY <1>1, <1>10 DEF AtInv
  <2> DEFINE x == Special("special", r.env, Passed(m, r), << >>)
             low == r.sp + r.passed
             y == Frame(m, f.proc, r.pc, EnvOf[f.proc], A, low)
  <2>2. /\ low = sp + n /\ low \in Int /\ -1 <= low /\ low <= F /\ sp + 1 \in Nat
        /\ sp + 1 + n - 1 <= StackTop
    <3> HIDE DEF A, E, F, old
    <3>1. low = sp + n
      OBVIOUS
    <3> HIDE DEF low, sp, n
    <3>2. F <= StackTop
      BY <1>2, <1>3
    <3> QED BY <1>2, <1>3, <2>1, <3>1, <3>2
  <2>3. Passed(m, r) \in Seq(Slots) /\ Len(Passed(m, r)) = n
    <3> HIDE DEF sp, n
    <3> QED BY <1>9, <2>1, <2>2
  <2>4. x \in OwnFrame /\ FrameSize(x) = n
    <3>1. << >> \in Seq(Slots) /\ Len(<< >>) = 0
      OBVIOUS
    <3>2. x \in OwnFrame /\ FrameSize(x) = Len(Passed(m, r)) + 0
      BY <1>2, <2>3, <3>1, SpecialOwn
    <3> HIDE DEF x, n
    <3> QED BY <1>2, <2>3, <3>2
  <2>5. y \in OwnFrame /\ FrameSize(y) = E - low
    <3> HIDE DEF low
    <3> QED BY <1>7, <2>2
  <2>6. Frames(m, r) = <<x, y>> \o c
    BY <1>4, <1>10, <2>1 DEF Frames
  <2> HIDE DEF x, y, c, low
  <2>7. <<x, y>> \o c = <<x>> \o (<<y>> \o c)
    BY <1>5, <2>4, <2>5
  <2>8. <<y>> \o c \in Seq(OwnFrame) /\ TotalSize(<<y>> \o c) = FrameSize(y) + TotalSize(c)
    BY <1>5, <2>5, SizeFacts, TotalCons
  <2> DEFINE d == <<y>> \o c
  <2>9. <<x>> \o d \in Seq(OwnFrame) /\ TotalSize(<<x>> \o d) = FrameSize(x) + TotalSize(d)
    <3> HIDE DEF d
    <3>1. d \in Seq(OwnFrame)
      BY <2>8 DEF d
    <3> QED BY <2>4, <3>1, SizeFacts, TotalCons
  <2>10. FrameSize(x) + TotalSize(d) = old - 1 - sp
    <3>1. TotalSize(d) = E - low + (old - 1 - E)
      BY <1>5, <2>5, <2>8
    <3> HIDE DEF d, E, sp, n, old
    <3> QED BY <1>2, <1>3, <2>2, <2>4, <3>1
  <2> QED BY <2>6, <2>7, <2>9, <2>10
<1>11. CASE r.at \in {"specialTail", "return"}
  <2>1. /\ r.area = A /\ n = NumArgs[f.proc]
        /\ r.at = "specialTail" => sp = A - 4
        /\ r.at = "return" => sp = A - 5 /\ sp >= 0
    <3>1. /\ r.area = A /\ n = NumArgs[f.proc]
          /\ r.at = "specialTail" => sp = A - 3 - 1
          /\ r.at = "return" => sp = A - 3 - 2 /\ sp >= 0
      BY <1>1, <1>4, <1>11 DEF AtInv, SlotCount
    <3> HIDE DEF A, sp, n
    <3> QED BY <1>2, <1>3, <3>1
  <2>2. E = A + n - 1 /\ A + n - 1 <= StackTop
    <3>1. E = A + n - 1
      BY <1>4, <2>1
    <3> HIDE DEF A, n, E, old
    <3> QED BY <1>2, <1>3, <3>1
  <2>3. Passed(m, r) \in Seq(Slots) /\ Len(Passed(m, r)) = n
    <3> HIDE DEF n, A
    <3> QED BY <1>3, <1>9, <2>1, <2>2
  <2>4. Callers(m)[<<r.area, r.area + r.passed - 1>>] = c
    BY <2>1, <2>2
  <2>5. CASE r.at = "specialTail"
    <3> DEFINE x == Special("specialTail", r.env, Passed(m, r), << >>)
    <3>1. x \in OwnFrame /\ FrameSize(x) = E - sp
      <4>1. << >> \in Seq(Slots) /\ Len(<< >>) = 0
        OBVIOUS
      <4>2. x \in OwnFrame /\ FrameSize(x) = Len(Passed(m, r)) + 0 + 3
        BY <1>2, <2>3, <4>1, SpecialOwn
      <4> HIDE DEF x, n, A, E, sp
      <4>3. n + 0 + 3 = E - sp
        <5>1. sp = A - 4
          BY <2>1, <2>5
        <5> QED BY <1>2, <1>3, <2>2, <5>1
      <4> QED BY <2>3, <4>2, <4>3
    <3>2. Frames(m, r) = <<x>> \o c
      BY <2>4, <2>5 DEF Frames
    <3> QED BY <1>6, <3>1, <3>2
  <2>6. CASE r.at = "return"
    <3> DEFINE t == <<m[r.sp + 1]>>
               x == Special("done", r.env, Passed(m, r), t)
    <3>1. t \in Seq(Slots) /\ Len(t) = 1
      <4>1. sp + 1 \in 0 .. StackTop
        <5> HIDE DEF sp, A, E, old
        <5>1. A - 5 + 1 <= StackTop
          BY <1>2, <1>3
        <5> QED BY <1>2, <1>3, <2>1, <2>6, <5>1
      <4>2. m[r.sp + 1] \in Slots
        BY <4>1
      <4> QED BY <4>2
    <3> HIDE DEF t
    <3>2. x \in OwnFrame /\ FrameSize(x) = E - sp
      <4>1. x \in OwnFrame /\ FrameSize(x) = Len(Passed(m, r)) + 1 + 3
        <5> DEFINE s == Passed(m, r)
                   e == r.env
                   k == "done"
        <5>1. s \in Seq(Slots) /\ e \in {0} \cup Range(EnvOf) /\ k # "special"
              /\ k \in {"special", "specialTail", "done"}
          BY <1>2, <2>3
        <5> HIDE DEF s, e, k
        <5>2. Special(k, e, s, t) \in OwnFrame /\ FrameSize(Special(k, e, s, t)) = Len(s) + Len(t) + 3
          BY <3>1, <5>1, SpecialOwn
        <5> QED BY <3>1, <5>2 DEF s, e, k
      <4> HIDE DEF x, n, A, E, sp
      <4>2. n + 1 + 3 = E - sp
        <5>1. sp = A - 5
          BY <2>1, <2>6
        <5> QED BY <1>2, <1>3, <2>2, <5>1
      <4> QED BY <2>3, <4>1, <4>2
    <3>3. Frames(m, r) = <<x>> \o c
      BY <2>4, <2>6 DEF Frames, t
    <3> QED BY <1>6, <3>2, <3>3
  <2> QED BY <1>11, <2>5, <2>6
<1>12. r.at \in {"instruction", "string", "special", "specialTail", "return"}
  BY DEF Run
<1> QED BY <1>8, <1>10, <1>11, <1>12

\* A procedure runs in the lexical environment it was made in, and so does the rest of
\* it after every call, tail call and special function, however deep.
THEOREM EnvironmentsAreKept == Sound => (Spec => []OwnEnvironment)
<1>1. StackInv => OwnEnvironment
  <2> SUFFICES ASSUME StackInv, NEW i \in DOMAIN runs, NEW j \in DOMAIN Calls[i]
               PROVE  LET f == Calls[i][j] IN f.kind = "procedure" => f.env = EnvOf[f.proc]
    BY DEF OwnEnvironment
  <2>1. runs[i] \in Run /\ RunInv(memory, runs[i]) /\ memory \in [0 .. StackTop -> Slots]
    BY RunsFacts DEF StackInv, TypeOK
  <2>2. Calls[i] = Frames(memory, runs[i])
    BY DEF Calls
  <2>3. Calls[i] \in Seq(OwnFrame)
    BY <2>1, <2>2, FramesFacts
  <2>4. Calls[i][j] \in OwnFrame
    BY <2>3
  <2> QED BY <2>4 DEF OwnFrame
<1> QED BY StackIsKept, <1>1, PTL

\* The stack holds the frames in progress and nothing else: calls give back what they
\* took, and tail calls take nothing however many are made.
THEOREM NoStackIsLost == Sound => (Spec => []NoStackLost)
<1>1. StackInv => NoStackLost
  <2> SUFFICES ASSUME StackInv, NEW i \in DOMAIN runs
               PROVE  runs[i].old - 1 - runs[i].sp = TotalSize(Calls[i])
    BY DEF NoStackLost, StackInv, NestInv
  <2>1. runs[i] \in Run /\ RunInv(memory, runs[i]) /\ memory \in [0 .. StackTop -> Slots]
    BY RunsFacts DEF StackInv, TypeOK
  <2>2. Calls[i] = Frames(memory, runs[i])
    BY DEF Calls
  <2> QED BY <2>1, <2>2, FramesFacts
<1> QED BY StackIsKept, <1>1, PTL

==============================================================================
