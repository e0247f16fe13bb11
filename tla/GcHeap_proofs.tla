---------------------------- MODULE GcHeap_proofs ----------------------------
(***************************************************************************)
(* Proofs about the heap of gc.c, for every number of buckets, page size,  *)
(* stack depth, aggregate size and set of handles.                         *)
(*                                                                         *)
(* FreeListSound is proved of every program.  What says that reachable     *)
(* memory is kept, that the collector stays with objects and that it       *)
(* clears their flags is proved of the programs that keep no inner         *)
(* reference (Operations = {}): with one, memory may be lost, and a scan   *)
(* may leave its object.  The last part is about MachineHeap.              *)
(***************************************************************************)
EXTENDS MachineHeap, TLAPS, FiniteSetTheorems, SequenceTheorems

-----------------------------------------------------------------------------
(* Flags.                                                                  *)

\* All that is flagged or about to be is reached from the roots, through cells
\* that are flagged already.
MarkReach ==
    \A S \in SUBSET (flag \cup pending) :
        ScanRoots \subseteq S /\ (\A x \in S \cap flag : Scan(x) \subseteq S)
            => flag \cup pending \subseteq S

\* All that is still flagged is reached from the scans still to be made,
\* through cells that are still flagged.
UnmarkReach ==
    \A S \in SUBSET flag :
        pending \subseteq S /\ (\A x \in S : Scan(x) \cap flag \subseteq S)
            => flag \subseteq S

FlagInv ==
    /\ pc \in {"program", "alloc"} => flag = {} /\ pending = {}
    /\ pc \in {"mark", "reclaim"} =>
          /\ ScanRoots \subseteq flag \cup pending
          /\ \A x \in flag : Scan(x) \subseteq flag \cup pending
          /\ MarkReach
    /\ pc = "reclaim" => pending = {}
    /\ pc = "unmark" => pending \subseteq flag /\ UnmarkReach

\* What a collection leaves alone decides what it scans.
LEMMA ScanUnchanged ==
    ASSUME UNCHANGED <<mem, rootVars>>
    PROVE  ScanRoots' = ScanRoots /\ \A x : Scan(x)' = Scan(x)
BY DEF rootVars, ScanRoots, HandleObjects, Scan, ScanValue, Elements, IsVector, LexicalEnvironment

LEMMA FlagInvInit == Init => FlagInv
BY DEF Init, FlagInv

LEMMA FlagInvStep == FlagInv /\ [Next]_vars => FlagInv'
<1> SUFFICES ASSUME FlagInv, [Next]_vars PROVE FlagInv'
  OBVIOUS
<1>1. CASE ProgramStep \/ Bump \/ NextBucket
  <2>1. pc \in {"program", "alloc"} /\ pc' \in {"program", "alloc"} /\ flag' = flag /\ pending' = pending
    BY <1>1 DEF ProgramStep, PushImmediate, LoadSlot, Pop, LoadElement, VectorSet, Define, VectorRef,
       PushReturnAddress, CreateHandle, DuplicateHandle, DestroyHandle, RetargetHandle, CallVector,
       CallBox, Program, HandleStep, Allocate, Bump, NextBucket, gcVars
  <2> QED BY <2>1 DEF FlagInv
<1>2. CASE StartCollection
  <2>1. /\ pc = "alloc" /\ pc' = "mark"
        /\ flag' = flag /\ pending' = ScanRoots \ flag
        /\ UNCHANGED <<mem, rootVars>>
    BY <1>2 DEF StartCollection, memVars
  <2>2. flag' = {} /\ pending' = ScanRoots /\ ScanRoots' = ScanRoots
    BY <2>1, ScanUnchanged DEF FlagInv
  <2> QED BY <2>1, <2>2 DEF FlagInv, MarkReach
<1>3. CASE Mark
  <2> PICK a \in pending :
          /\ flag' = flag \cup {a}
          /\ pending' = (pending \cup Scan(a)) \ flag'
    BY <1>3 DEF Mark
  <2>1. pc = "mark" /\ pc' \in {"mark", "halted"} /\ UNCHANGED <<mem, rootVars>>
    BY <1>3 DEF Mark, memVars
  <2>2. ScanRoots' = ScanRoots /\ \A x : Scan(x)' = Scan(x)
    BY <2>1, ScanUnchanged
  <2>3. flag' \cup pending' = flag \cup pending \cup Scan(a)
    OBVIOUS
  <2>4. /\ ScanRoots' \subseteq flag' \cup pending'
        /\ \A x \in flag' : Scan(x)' \subseteq flag' \cup pending'
    BY <2>1, <2>2, <2>3 DEF FlagInv
  <2>5. MarkReach'
    <3> SUFFICES ASSUME NEW S \in SUBSET (flag' \cup pending'),
                        ScanRoots \subseteq S,
                        \A x \in S \cap flag' : Scan(x) \subseteq S
                 PROVE  flag' \cup pending' \subseteq S
      BY <2>2 DEF MarkReach
    <3> DEFINE T == S \cap (flag \cup pending)
    <3>1. ScanRoots \subseteq T /\ \A x \in T \cap flag : Scan(x) \subseteq T
      BY <2>1 DEF FlagInv
    <3>2. flag \cup pending \subseteq T
      BY <2>1, <3>1 DEF FlagInv, MarkReach
    <3> QED BY <2>3, <3>2
  <2> QED BY <2>1, <2>4, <2>5 DEF FlagInv
<1>4. CASE StartReclaim \/ Reclaim
  <2>1. /\ pc \in {"mark", "reclaim"} /\ pc' = "reclaim"
        /\ pending = {} /\ UNCHANGED <<flag, pending, mem, rootVars>>
    BY <1>4 DEF StartReclaim, Reclaim, memVars, FlagInv
  <2>2. ScanRoots' = ScanRoots /\ \A x : Scan(x)' = Scan(x)
    BY <2>1, ScanUnchanged
  <2> QED BY <2>1, <2>2 DEF FlagInv, MarkReach
<1>5. CASE StartUnmark
  <2>1. /\ pc = "reclaim" /\ pc' = "unmark"
        /\ flag' = flag /\ pending' = ScanRoots \cap flag
        /\ UNCHANGED <<mem, rootVars>>
    BY <1>5 DEF StartUnmark, memVars
  <2>2. ScanRoots' = ScanRoots /\ \A x : Scan(x)' = Scan(x)
    BY <2>1, ScanUnchanged
  <2>3. ScanRoots \subseteq flag /\ \A x \in flag : Scan(x) \subseteq flag
    BY <2>1 DEF FlagInv
  <2>4. UnmarkReach'
    <3> SUFFICES ASSUME NEW S \in SUBSET flag, ScanRoots \subseteq S,
                        \A x \in S : Scan(x) \cap flag \subseteq S
                 PROVE  flag \subseteq S
      BY <2>1, <2>2, <2>3 DEF UnmarkReach
    <3> QED BY <2>1, <2>3 DEF FlagInv, MarkReach
  <2> QED BY <2>1, <2>4 DEF FlagInv
<1>6. CASE Unmark
  <2> PICK a \in pending :
          /\ flag' = flag \ {a}
          /\ pending' = (pending \cup Scan(a)) \cap flag'
    BY <1>6 DEF Unmark
  <2>1. pc = "unmark" /\ pc' = "unmark" /\ UNCHANGED <<mem, rootVars>>
    BY <1>6 DEF Unmark, memVars
  <2>2. \A x : Scan(x)' = Scan(x)
    BY <2>1, ScanUnchanged
  <2>3. UnmarkReach'
    <3> SUFFICES ASSUME NEW S \in SUBSET flag', pending' \subseteq S,
                        \A x \in S : Scan(x) \cap flag' \subseteq S
                 PROVE  flag' \subseteq S
      BY <2>2 DEF UnmarkReach
    <3> DEFINE T == S \cup {a}
    <3>1. T \in SUBSET flag /\ pending \subseteq T
      BY <2>1 DEF FlagInv
    <3>2. \A x \in T : Scan(x) \cap flag \subseteq T
      OBVIOUS
    <3>3. flag \subseteq T
      BY <2>1, <3>1, <3>2 DEF FlagInv, UnmarkReach
    <3> QED BY <3>3
  <2> QED BY <2>1, <2>3 DEF FlagInv
<1>7. CASE FinishCollection
  <2>1. flag = {}
    <3>1. {} \in SUBSET flag /\ pending \subseteq {} /\ \A x \in {} : Scan(x) \cap flag \subseteq {}
      BY <1>7 DEF FinishCollection
    <3> QED BY <1>7, <3>1 DEF FinishCollection, FlagInv, UnmarkReach
  <2>2. pending = {} /\ UNCHANGED gcVars
    BY <1>7 DEF FinishCollection
  <2> QED BY <1>7, <2>1, <2>2 DEF FinishCollection, FlagInv, gcVars
<1>8. CASE Halted \/ UNCHANGED vars
  <2>1. UNCHANGED <<flag, pending, mem, rootVars, pc>>
    BY <1>8 DEF Halted, vars, memVars, gcVars
  <2>2. ScanRoots' = ScanRoots /\ \A x : Scan(x)' = Scan(x)
    BY <2>1, ScanUnchanged
  <2> QED BY <2>1, <2>2 DEF FlagInv, MarkReach, UnmarkReach
<1>9. CASE ScanAstray
  BY <1>9 DEF ScanAstray, FlagInv
<1> QED BY <1>1, <1>2, <1>3, <1>4, <1>5, <1>6, <1>7, <1>8, <1>9 DEF Next, HeapStep

-----------------------------------------------------------------------------
(* The free list.                                                          *)

NoDuplicates(s) == \A i, j \in DOMAIN s : s[i] = s[j] => i = j

FreeListInv ==
    /\ ptr \in [Buckets -> Int] /\ freeList \in Seq(Buckets) /\ current \in Buckets
    /\ request.count \in Nat /\ next \in Nat /\ reclaimed \in Nat
    /\ NoDuplicates(freeList)
    /\ \A i \in DOMAIN freeList : ptr[freeList[i]] = 0
    /\ pc \in {"program", "alloc"} => \A i \in DOMAIN freeList : freeList[i] # current
    /\ pc = "mark" => freeList = << >>
    /\ pc = "reclaim" => \A i \in DOMAIN freeList : freeList[i] < next
    /\ pc \in {"reclaim", "unmark"} => Len(freeList) = reclaimed

\* acquire_bucket: what is left of the list is as sound as the list was.
LEMMA TailKeepsFreeList ==
    ASSUME NEW s \in Seq(Buckets), s # << >>, NoDuplicates(s)
    PROVE  /\ Head(s) \in Buckets /\ Head(s) = s[1] /\ 1 \in DOMAIN s
           /\ Tail(s) \in Seq(Buckets) /\ NoDuplicates(Tail(s))
           /\ \A i \in DOMAIN Tail(s) : /\ i + 1 \in DOMAIN s /\ Tail(s)[i] = s[i + 1]
                                        /\ Tail(s)[i] # Head(s)
BY DEF NoDuplicates

\* reclaim_bucket: a bucket that is not in the list may be put in front.
LEMMA ConsKeepsFreeList ==
    ASSUME NEW s \in Seq(Buckets), NoDuplicates(s), NEW b \in Buckets,
           \A i \in DOMAIN s : s[i] # b
    PROVE  /\ <<b>> \o s \in Seq(Buckets) /\ NoDuplicates(<<b>> \o s)
           /\ Len(<<b>> \o s) = Len(s) + 1
           /\ \A i \in DOMAIN (<<b>> \o s) :
                 \/ (<<b>> \o s)[i] = b
                 \/ \E j \in DOMAIN s : (<<b>> \o s)[i] = s[j]
<1> DEFINE t == <<b>> \o s
<1>1. t \in Seq(Buckets) /\ Len(t) = Len(s) + 1 /\ DOMAIN t = 1 .. Len(s) + 1
  OBVIOUS
<1>2. \A i \in DOMAIN t : t[i] = IF i = 1 THEN b ELSE s[i - 1]
  OBVIOUS
<1>3. \A i \in DOMAIN t : i # 1 => i - 1 \in DOMAIN s
  BY <1>1
<1> HIDE DEF t
<1>4. NoDuplicates(t)
  BY <1>1, <1>2, <1>3 DEF NoDuplicates
<1> QED BY <1>1, <1>2, <1>3, <1>4 DEF t

LEMMA FreeListInvInit == Init => FreeListInv
<1> SUFFICES ASSUME Init PROVE FreeListInv
  OBVIOUS
<1>1. freeList = [i \in 1 .. NumBuckets - 1 |-> NumBuckets - 1 - i]
  BY DEF Init
<1>2. freeList \in Seq(Buckets) /\ Len(freeList) = NumBuckets - 1 /\ DOMAIN freeList = 1 .. NumBuckets - 1
  BY <1>1, SizesAssumption DEF Buckets
<1>3. NoDuplicates(freeList)
  BY <1>1, <1>2, SizesAssumption DEF NoDuplicates
<1>4. \A i \in DOMAIN freeList : ptr[freeList[i]] = 0 /\ freeList[i] # current
  BY <1>1, <1>2, SizesAssumption DEF Init, Buckets
<1>5. ptr \in [Buckets -> Int] /\ current \in Buckets
  BY SizesAssumption DEF Init, Buckets
<1> QED BY <1>2, <1>3, <1>4, <1>5 DEF Init, FreeListInv

LEMMA FreeListInvStep == FreeListInv /\ [Next]_vars => FreeListInv'
<1> SUFFICES ASSUME FreeListInv, [Next]_vars PROVE FreeListInv'
  OBVIOUS
<1>1. CASE UNCHANGED vars \/ Halted
  BY <1>1 DEF Halted, vars, memVars, gcVars, allocVars, FreeListInv
<1>2. CASE CallVector \/ CallBox
  <2>1. PICK n \in Nat, op \in {"vector", "box"} : Allocate(op, n)
    BY <1>2, SizesAssumption DEF CallVector, CallBox
  <2> QED BY <2>1 DEF Allocate, memVars, gcVars, FreeListInv
<1>8. CASE ProgramStep /\ ~(CallVector \/ CallBox)
  <2>1. /\ pc = "program" /\ pc' = "program"
        /\ UNCHANGED <<ptr, freeList, current, next, reclaimed, request>>
    BY <1>8 DEF ProgramStep, PushImmediate, LoadSlot, Pop, LoadElement, VectorSet, Define,
       VectorRef, PushReturnAddress, CreateHandle, DuplicateHandle, DestroyHandle,
       RetargetHandle, Program, HandleStep, memVars, gcVars, allocVars
  <2> QED BY <2>1 DEF FreeListInv
<1>3. CASE Bump
  <2>1. /\ pc = "alloc" /\ pc' = "program"
        /\ ptr' = [ptr EXCEPT ![current] = @ + (1 + request.count)]
        /\ UNCHANGED <<freeList, current, request, next, reclaimed>>
    BY <1>3 DEF Bump, Size, allocVars, gcVars
  <2>2. ptr' \in [Buckets -> Int]
    BY <2>1 DEF FreeListInv
  <2>3. \A i \in DOMAIN freeList : ptr'[freeList[i]] = 0
    BY <2>1 DEF FreeListInv
  <2> QED BY <2>1, <2>2, <2>3 DEF FreeListInv
<1>4. CASE NextBucket
  <2>1. /\ pc = "alloc" /\ pc' = "alloc" /\ freeList # << >>
        /\ current' = Head(freeList) /\ freeList' = Tail(freeList)
        /\ UNCHANGED <<ptr, request, next, reclaimed>>
    BY <1>4 DEF NextBucket, Acquire, gcVars
  <2> QED BY <2>1, TailKeepsFreeList DEF FreeListInv
<1>5. CASE StartCollection \/ Mark \/ StartReclaim \/ StartUnmark \/ Unmark
  <2>1. /\ UNCHANGED <<ptr, freeList, current, request>>
        /\ next' \in Nat /\ reclaimed' \in Nat
        /\ \/ pc = "alloc" /\ freeList = << >> /\ pc' = "mark"
           \/ pc = "mark" /\ pc' \in {"mark", "halted"}
           \/ pc = "mark" /\ pc' = "reclaim" /\ reclaimed' = 0
           \/ pc \in {"reclaim", "unmark"} /\ pc' = "unmark" /\ reclaimed' = reclaimed
    BY <1>5 DEF StartCollection, Mark, StartReclaim, StartUnmark, Unmark, memVars, allocVars, FreeListInv
  <2> QED BY <2>1 DEF FreeListInv
<1>6. CASE Reclaim
  <2>1. /\ pc = "reclaim" /\ pc' = "reclaim" /\ next' = next + 1 /\ next \in Buckets
        /\ UNCHANGED <<current, request>>
    BY <1>6, SizesAssumption DEF Reclaim, allocVars, FreeListInv, Buckets
  <2>2. CASE UNCHANGED <<ptr, freeList, reclaimed>>
    <3>1. \A i \in DOMAIN freeList : freeList[i] < next + 1
      <4>1. \A i \in DOMAIN freeList : freeList[i] \in Int
        BY SMTT(30) DEF FreeListInv, Buckets
      <4> QED BY <2>1, <4>1 DEF FreeListInv
    <3> QED BY <2>1, <2>2, <3>1 DEF FreeListInv
  <2>3. CASE ReclaimBucket(next)
    <3>1. \A i \in DOMAIN freeList : freeList[i] < next /\ freeList[i] # next
      BY <2>1 DEF FreeListInv, Buckets
    <3>2. /\ freeList' \in Seq(Buckets) /\ NoDuplicates(freeList') /\ Len(freeList') = reclaimed'
          /\ \A i \in DOMAIN freeList' :
                freeList'[i] = next \/ \E j \in DOMAIN freeList : freeList'[i] = freeList[j]
      BY <2>1, <2>3, <3>1, ConsKeepsFreeList DEF ReclaimBucket, FreeListInv
    <3>3. /\ ptr' \in [Buckets -> Int] /\ ptr'[next] = 0
          /\ \A j \in DOMAIN freeList : ptr'[freeList[j]] = 0
      BY <2>1, <2>3, <3>1 DEF ReclaimBucket, FreeListInv
    <3>4. \A i \in DOMAIN freeList' : ptr'[freeList'[i]] = 0
      BY <3>2, <3>3
    <3>5. \A i \in DOMAIN freeList' : freeList'[i] < next'
      <4> SUFFICES ASSUME NEW i \in DOMAIN freeList' PROVE freeList'[i] < next + 1
        BY <2>1
      <4>1. CASE freeList'[i] = next
        BY <4>1 DEF FreeListInv
      <4>2. CASE \E j \in DOMAIN freeList : freeList'[i] = freeList[j]
        <5> PICK j \in DOMAIN freeList : freeList'[i] = freeList[j]
          BY <4>2
        <5>1. freeList[j] \in Int
          BY SMTT(30) DEF FreeListInv, Buckets
        <5> QED BY <3>1, <5>1 DEF FreeListInv
      <4> QED BY <3>2, <4>1, <4>2
    <3>6. reclaimed' \in Nat
      BY <2>3 DEF ReclaimBucket, FreeListInv
    <3> QED BY <2>1, <3>2, <3>3, <3>4, <3>5, <3>6 DEF FreeListInv
  <2> QED BY <1>6, <2>2, <2>3 DEF Reclaim
<1>7. CASE FinishCollection
  <2>1. pc = "unmark" /\ UNCHANGED <<ptr, request, next, reclaimed>>
    BY <1>7 DEF FinishCollection, gcVars
  <2>2. CASE reclaimed > 0
    <3>1. /\ pc' = "alloc" /\ freeList # << >>
          /\ current' = Head(freeList) /\ freeList' = Tail(freeList)
      BY <1>7, <2>1, <2>2 DEF FinishCollection, Acquire, FreeListInv
    <3> QED BY <2>1, <3>1, TailKeepsFreeList DEF FreeListInv
  <2>3. CASE ~(reclaimed > 0)
    BY <1>7, <2>1, <2>3 DEF FinishCollection, FreeListInv
  <2> QED BY <2>2, <2>3
<1>9. CASE ScanAstray
  <2>1. pc' = "astray" /\ UNCHANGED <<ptr, freeList, current, request, next, reclaimed>>
    BY <1>9 DEF ScanAstray, memVars, allocVars, gcVars
  <2> QED BY <2>1 DEF FreeListInv
<1> QED BY <1>1, <1>2, <1>3, <1>4, <1>5, <1>6, <1>7, <1>8, <1>9 DEF Next, HeapStep

\* The free list of buckets is sound, whatever the program keeps in its memory.
THEOREM FreeListIsSound == Spec => []FreeListSound
<1>1. FreeListInv => FreeListSound
  BY DEF FreeListInv, FreeListSound, NoDuplicates
<1> QED BY <1>1, FreeListInvInit, FreeListInvStep, PTL DEF Spec

-----------------------------------------------------------------------------
(* Reachability.                                                           *)

\* A value that a program without inner references may hold, when the cells it
\* can reach are those of S.
Good(v, S) ==
    /\ v.tag \in {"value", "reference"}
    /\ v.tag = "reference" => {v.at} \cap Addr \subseteq S

\* S is made of whole objects, the global environment one of them, and is closed
\* under reference.
Whole(S) ==
    /\ S \subseteq Allocated
    /\ LexicalEnvironment \in S /\ mem[LexicalEnvironment] = Header(1)
    /\ \A a \in S :
          IF mem[a].tag = "vector"
          THEN \A e \in Elements(a) : e \in S /\ mem[e].tag # "vector"
          ELSE Good(mem[a], S)

\* S holds all the program reaches.
Sound(S) ==
    /\ Whole(S)
    /\ \A i \in DOMAIN stack : Good(stack[i], S)
    /\ \A h \in active : {object[h]} \cap Addr \subseteq S

ReachInv == \E S \in SUBSET Addr : Sound(S)

\* The request being served is one the stack can serve; the second attempt has
\* an empty bucket, so that only the first one comes to a collection.
RequestInv ==
    /\ pc # "program" => \/ /\ request.op = "vector"
                            /\ request.count <= MaxCount
                            /\ request.count <= Len(stack)
                         \/ request.op = "box" /\ request.count = 0 /\ stack # << >>
    /\ pc = "alloc" /\ try > 0 => ptr[current] = 0
    /\ pc \in {"mark", "reclaim", "unmark"} => try = 0

ProgramInv == TypeOK /\ ReachInv /\ RequestInv

-----------------------------------------------------------------------------
(* Addresses, and what Sound means.                                        *)

LEMMA Sizes ==
    /\ NumBuckets \in Nat /\ NumBuckets > 0 /\ PageSize \in Nat /\ PageSize > 1
    /\ MaxCount \in Nat /\ MaxCount < PageSize
    /\ LexicalEnvironment \in Addr
    /\ LexicalEnvironment = <<NumBuckets - 1, 0>>
    /\ Outside \notin Addr
BY SizesAssumption DEF LexicalEnvironment, Addr, Buckets, Outside

LEMMA SoundHolds ==
    ASSUME TypeOK, NEW S \in SUBSET Addr, Sound(S)
    PROVE  Holds(S)
<1>1. \A i \in DOMAIN stack : UseValue(mem, stack[i]) \subseteq S
  BY DEF Sound, Whole, Good, UseValue
<1>2. Roots \subseteq S
  <2>1. HandleObjects \subseteq S
    BY DEF Sound, Whole, HandleObjects
  <2>2. UNION {UseValue(mem, stack[i]) : i \in DOMAIN stack} \subseteq S
    BY <1>1
  <2>3. LexicalEnvironment \in S
    BY DEF Sound, Whole
  <2> QED BY <2>1, <2>2, <2>3 DEF Roots
<1>3. ASSUME NEW a \in S PROVE Uses(mem, a) \subseteq S
  <2>1. a \in DOMAIN mem
    BY DEF TypeOK
  <2>2. CASE mem[a].tag = "vector"
    BY <2>1, <2>2 DEF Uses, Sound, Whole, Elements
  <2>3. CASE mem[a].tag # "vector"
    BY <2>1, <2>3 DEF Uses, UseValue, Sound, Whole, Good
  <2> QED BY <2>2, <2>3
<1> QED BY <1>2, <1>3 DEF Holds

LEMMA SoundScans ==
    ASSUME TypeOK, NEW S \in SUBSET Addr, Sound(S)
    PROVE  /\ ScanRoots = Roots /\ ScanRoots \subseteq S
           /\ \A a \in S : Scan(a) = Uses(mem, a) /\ Scan(a) \subseteq S
<1>1. \A i \in DOMAIN stack : ScanValue(stack[i]) = UseValue(mem, stack[i])
  BY DEF Sound, Whole, Good, UseValue, ScanValue
<1>2. ScanRoots = Roots
  BY <1>1 DEF ScanRoots, Roots
<1>3. ASSUME NEW a \in S PROVE Scan(a) = Uses(mem, a)
  <2>1. a \in DOMAIN mem
    BY DEF TypeOK
  <2> QED BY <2>1 DEF Uses, UseValue, Sound, Whole, Good, Scan, ScanValue, Elements
<1> QED BY <1>2, <1>3, SoundHolds DEF Holds

LEMMA ReachKeepsLive == TypeOK /\ ReachInv => LiveMemoryKept
<1> SUFFICES ASSUME TypeOK, NEW S \in SUBSET Addr, Sound(S) PROVE LiveMemoryKept
  BY DEF ReachInv
<1>1. Allocated \ (Allocated \ S) = S
  BY DEF Sound, Whole
<1> QED BY <1>1, SoundHolds DEF LiveMemoryKept

-----------------------------------------------------------------------------

LEMMA ProgramInvInit == Init => ProgramInv
<1> SUFFICES ASSUME Init PROVE ProgramInv
  OBVIOUS
<1> DEFINE e == Plus(LexicalEnvironment, 1)
<1>1. e = <<NumBuckets - 1, 1>> /\ e \in Addr /\ e # LexicalEnvironment
  BY Sizes DEF Plus, Addr, Buckets
<1>2. mem[LexicalEnvironment] = Header(1) /\ mem[e] = Value
  BY <1>1, Sizes DEF Init
<1>3. mem \in [Addr -> Cell]
  BY <1>1, Sizes DEF Init, Cell, Tags, Header, Value, Invalid
<1>4. freeList \in Seq(Buckets)
  BY FreeListInvInit DEF FreeListInv
<1>5. TypeOK
  <2>1. ptr \in [Buckets -> 0 .. PageSize] /\ cost \in [Buckets -> Nat] /\ current \in Buckets
    BY Sizes DEF Init, Buckets
  <2>2. stack \in Seq(Cell) /\ object \in [Handles -> Addr \cup {Outside}]
    BY DEF Init
  <2>3. active \subseteq Handles /\ idle \subseteq Handles /\ flag \subseteq Addr /\ pending \subseteq Addr
    BY DEF Init
  <2>4. /\ pc = "program" /\ try = 0 /\ next = 0 /\ reclaimed = 0
        /\ request = [op |-> "none", count |-> 0]
    BY DEF Init
  <2> QED BY <1>3, <1>4, <2>1, <2>2, <2>3, <2>4, Sizes, SMTT(30) DEF TypeOK
<1>6. Sound({LexicalEnvironment, e})
  <2>1. {LexicalEnvironment, e} \subseteq Allocated
    BY <1>1, Sizes DEF Init, Allocated, Buckets
  <2>2. Elements(LexicalEnvironment) = {e}
    BY <1>2 DEF Elements, Header
  <2>3. stack = << >> /\ active = {}
    BY DEF Init
  <2>4. /\ Header(1).tag = "vector" /\ Value.tag = "value"
    BY DEF Header, Value
  <2>5. Good(Value, {LexicalEnvironment, e})
    BY <2>4 DEF Good
  <2>6. mem[LexicalEnvironment].tag = "vector" /\ mem[e].tag = "value"
    BY <1>2, <2>4
  <2>7. \A i \in DOMAIN stack : Good(stack[i], {LexicalEnvironment, e})
    BY <2>3
  <2>8. ASSUME NEW a \in {LexicalEnvironment, e}
        PROVE  IF mem[a].tag = "vector"
               THEN \A x \in Elements(a) : x \in {LexicalEnvironment, e} /\ mem[x].tag # "vector"
               ELSE Good(mem[a], {LexicalEnvironment, e})
    <3>1. CASE a = LexicalEnvironment
      BY <3>1, <2>2, <2>6
    <3>2. CASE a = e
      BY <3>2, <1>2, <2>5, <2>6
    <3> QED BY <3>1, <3>2
  <2> HIDE DEF e
  <2> QED BY <2>1, <2>3, <2>7, <2>8, <1>2 DEF Sound, Whole
<1> QED BY <1>1, <1>5, <1>6, Sizes DEF ProgramInv, ReachInv, RequestInv, Init

-----------------------------------------------------------------------------
(* The steps of the program.                                               *)

LEMMA PushGood ==
    ASSUME NEW S, NEW s \in Seq(Cell), \A i \in DOMAIN s : Good(s[i], S),
           NEW v \in Cell, Good(v, S)
    PROVE  /\ <<v>> \o s \in Seq(Cell)
           /\ \A i \in DOMAIN (<<v>> \o s) : Good((<<v>> \o s)[i], S)
<1> DEFINE t == <<v>> \o s
<1>1. t \in Seq(Cell) /\ DOMAIN t = 1 .. Len(s) + 1 /\ DOMAIN s = 1 .. Len(s)
  OBVIOUS
<1>2. \A i \in DOMAIN t : t[i] = IF i = 1 THEN v ELSE s[i - 1]
  OBVIOUS
<1>3. \A i \in DOMAIN t : i # 1 => i - 1 \in DOMAIN s
  BY <1>1
<1> HIDE DEF t
<1>4. \A i \in DOMAIN t : Good(t[i], S)
  BY <1>2, <1>3
<1> QED BY <1>1, <1>4 DEF t

LEMMA SuffixGood ==
    ASSUME NEW S, NEW s \in Seq(Cell), \A i \in DOMAIN s : Good(s[i], S),
           NEW n \in Nat, n <= Len(s)
    PROVE  /\ SubSeq(s, n + 1, Len(s)) \in Seq(Cell)
           /\ \A i \in DOMAIN SubSeq(s, n + 1, Len(s)) : Good(SubSeq(s, n + 1, Len(s))[i], S)
<1> DEFINE t == SubSeq(s, n + 1, Len(s))
<1>1. t \in Seq(Cell) /\ DOMAIN t = 1 .. Len(s) - n /\ \A i \in DOMAIN t : t[i] = s[n + i]
  BY SubSeqProperties
<1>2. \A i \in DOMAIN t : n + i \in DOMAIN s
  BY <1>1
<1> HIDE DEF t
<1>3. \A i \in DOMAIN t : Good(t[i], S)
  BY <1>1, <1>2
<1> QED BY <1>1, <1>3 DEF t

LEMMA PopGood ==
    ASSUME NEW S, NEW s \in Seq(Cell), \A i \in DOMAIN s : Good(s[i], S), s # << >>
    PROVE  /\ Tail(s) \in Seq(Cell) /\ s[1] \in Cell /\ Good(s[1], S)
           /\ \A i \in DOMAIN Tail(s) : Good(Tail(s)[i], S)
<1>1. Tail(s) \in Seq(Cell) /\ 1 \in DOMAIN s
  OBVIOUS
<1>2. \A i \in DOMAIN Tail(s) : i + 1 \in DOMAIN s /\ Tail(s)[i] = s[i + 1]
  OBVIOUS
<1> QED BY <1>1, <1>2

\* The program moves references about: what it reaches is what it reached.
LEMMA MoveKeepsSound ==
    ASSUME NEW S, Sound(S), UNCHANGED <<mem, ptr>>,
           \A i \in DOMAIN stack' : Good(stack'[i], S),
           \A h \in active' : {object'[h]} \cap Addr \subseteq S
    PROVE  Sound(S)'
BY DEF Sound, Whole, Allocated, Elements

\* Any value that leads to S may be written in an element of an object of S.
LEMMA WriteKeepsWhole ==
    ASSUME TypeOK, NEW S \in SUBSET Addr, Whole(S), UNCHANGED ptr,
           NEW e \in S, mem[e].tag # "vector", NEW v, Good(v, S),
           mem' = [mem EXCEPT ![e] = v]
    PROVE  Whole(S)'
<1>1. mem'[e] = v /\ \A a \in S : a # e => mem'[a] = mem[a]
  BY DEF TypeOK
<1>2. v.tag # "vector"
  BY DEF Good
<1>3. \A a \in S : mem'[a].tag = "vector" <=> mem[a].tag = "vector"
  BY <1>1, <1>2
<1>4. ASSUME NEW a \in S, mem'[a].tag = "vector"
      PROVE  \A x \in Elements(a)' : x \in S /\ mem'[x].tag # "vector"
  <2>1. mem[a].tag = "vector" /\ Elements(a)' = Elements(a)
    BY <1>1, <1>2, <1>4 DEF Elements
  <2> QED BY <1>3, <2>1 DEF Whole
<1>5. ASSUME NEW a \in S, mem'[a].tag # "vector" PROVE Good(mem'[a], S)
  BY <1>1, <1>3, <1>5 DEF Whole
<1>6. mem'[LexicalEnvironment] = Header(1)
  BY <1>1 DEF Whole, Header
<1> QED BY <1>4, <1>5, <1>6 DEF Whole, Allocated

\* The program writes a value that it holds in an element of an object it reaches.
LEMMA WriteKeepsSound ==
    ASSUME TypeOK, NEW S \in SUBSET Addr, Sound(S), UNCHANGED <<ptr, object, active>>,
           NEW e \in S, mem[e].tag # "vector", NEW v, Good(v, S),
           mem' = [mem EXCEPT ![e] = v],
           \A i \in DOMAIN stack' : Good(stack'[i], S)
    PROVE  Sound(S)'
<1>1. Whole(S)'
  BY WriteKeepsWhole DEF Sound
<1> QED BY <1>1 DEF Sound

\* An aggregate that the program holds a reference to: its elements.
LEMMA ElementsGood ==
    ASSUME TypeOK, NEW S \in SUBSET Addr, Sound(S), stack # << >>,
           stack[1].tag = "reference", IsVector(stack[1].at)
    PROVE  \A e \in Elements(stack[1].at) :
              e \in S /\ mem[e] \in Cell /\ mem[e].tag # "vector" /\ Good(mem[e], S)
<1>1. stack[1].at \in S /\ mem[stack[1].at].tag = "vector"
  <2>1. Good(stack[1], S)
    BY DEF Sound, Whole, TypeOK
  <2> QED BY <2>1 DEF Good, IsVector
<1>2. ASSUME NEW e \in Elements(stack[1].at) PROVE e \in S /\ mem[e].tag # "vector"
  BY <1>1 DEF Sound, Whole
<1>3. ASSUME NEW e \in S, mem[e].tag # "vector" PROVE Good(mem[e], S)
  BY <1>3 DEF Sound, Whole
<1> QED BY <1>2, <1>3 DEF TypeOK

LEMMA ProgramKeeps ==
    ASSUME Operations = {}, ProgramInv, ProgramStep
    PROVE  ProgramInv'
<1> PICK S \in SUBSET Addr : Sound(S)
  BY DEF ProgramInv, ReachInv
<1>1. TypeOK /\ RequestInv
  BY DEF ProgramInv
<1>2. /\ stack \in Seq(Cell) /\ object \in [Handles -> Addr \cup {Outside}]
      /\ active \subseteq Handles /\ idle \subseteq Handles
      /\ \A i \in DOMAIN stack : stack[i] \in Cell /\ Good(stack[i], S)
      /\ \A h \in active : {object[h]} \cap Addr \subseteq S
  BY <1>1 DEF TypeOK, Sound, Whole
<1>3. ASSUME \E newStack \in Seq(Cell) :
                Program(newStack) /\ \A i \in DOMAIN newStack : Good(newStack[i], S),
             \/ UNCHANGED memVars
             \/ /\ UNCHANGED <<ptr, freeList, current>>
                /\ \E e \in S, v \in Cell : /\ mem[e].tag # "vector" /\ Good(v, S)
                                           /\ mem' = [mem EXCEPT ![e] = v]
      PROVE  ProgramInv'
  <2>1. /\ stack' \in Seq(Cell) /\ \A i \in DOMAIN stack' : Good(stack'[i], S)
        /\ pc = "program" /\ UNCHANGED <<object, active, idle, pc, allocVars, gcVars>>
    BY <1>3 DEF Program
  <2>2. mem' \in [Addr -> Cell] /\ UNCHANGED <<ptr, freeList, current>>
    BY <1>1, <1>3 DEF TypeOK, memVars
  <2>3. TypeOK'
    BY <1>1, <2>1, <2>2 DEF TypeOK, allocVars, gcVars
  <2>4. Sound(S)'
    <3>1. CASE UNCHANGED memVars
      BY <1>2, <2>1, <3>1, MoveKeepsSound DEF memVars
    <3>2. CASE \E e \in S, v \in Cell : /\ mem[e].tag # "vector" /\ Good(v, S)
                                        /\ mem' = [mem EXCEPT ![e] = v]
      BY <1>1, <2>1, <2>2, <3>2, WriteKeepsSound
    <3> QED BY <1>3, <3>1, <3>2
  <2>5. RequestInv'
    BY <2>1 DEF RequestInv
  <2> QED BY <2>3, <2>4, <2>5 DEF ProgramInv, ReachInv
<1>4. ASSUME HandleStep, object' \in [Handles -> Addr \cup {Outside}],
             active' \subseteq Handles, idle' \subseteq Handles,
             \A h \in active' : {object'[h]} \cap Addr \subseteq S
      PROVE  ProgramInv'
  <2>1. pc = "program" /\ UNCHANGED <<memVars, stack, pc, allocVars, gcVars>>
    BY <1>4 DEF HandleStep
  <2>2. TypeOK'
    BY <1>1, <1>4, <2>1 DEF TypeOK, memVars, allocVars, gcVars
  <2>3. Sound(S)'
    BY <1>2, <1>4, <2>1, MoveKeepsSound DEF memVars
  <2>4. RequestInv'
    BY <2>1 DEF RequestInv
  <2> QED BY <2>2, <2>3, <2>4 DEF ProgramInv, ReachInv
<1>5. ASSUME NEW h \in Handles, NEW o \in Addr \cup {Outside}, {o} \cap Addr \subseteq S,
             Handle(h, o)
      PROVE  /\ object' \in [Handles -> Addr \cup {Outside}]
             /\ active' \subseteq Handles /\ idle' \subseteq Handles
             /\ \A g \in active' : {object'[g]} \cap Addr \subseteq S
  BY <1>2, <1>5 DEF Handle
<1>6. CASE PushImmediate
  <2>1. Value \in Cell /\ Good(Value, S)
    BY DEF Value, Cell, Tags, Good
  <2> QED BY <1>2, <1>3, <1>6, <2>1, PushGood DEF PushImmediate
<1>7. CASE LoadSlot
  BY <1>2, <1>3, <1>7, PushGood DEF LoadSlot
<1>8. CASE Pop
  BY <1>2, <1>3, <1>8, PopGood DEF Pop
<1>9. CASE LoadElement
  <2> PICK e \in Elements(stack[1].at) : Program(<<mem[e]>> \o Tail(stack))
    BY <1>9 DEF LoadElement
  <2>1. mem[e] \in Cell /\ Good(mem[e], S)
    BY <1>1, <1>9, ElementsGood DEF LoadElement
  <2>2. Tail(stack) \in Seq(Cell) /\ \A i \in DOMAIN Tail(stack) : Good(Tail(stack)[i], S)
    BY <1>2, <1>9, PopGood DEF LoadElement
  <2> QED BY <1>3, <1>9, <2>1, <2>2, PushGood DEF LoadElement
<1>10. CASE VectorSet
  <2>1. stack # << >> /\ 2 \in DOMAIN stack
    BY <1>2, <1>10 DEF VectorSet
  <2>2. stack[2] \in Cell /\ Good(stack[2], S)
    BY <1>2, <2>1
  <2>3. PICK e \in Elements(stack[1].at) : mem' = [mem EXCEPT ![e] = stack[2]]
    BY <1>10 DEF VectorSet
  <2>4. e \in S /\ mem[e].tag # "vector"
    BY <1>1, <1>10, <2>1, ElementsGood DEF VectorSet
  <2>5. Tail(stack) \in Seq(Cell) /\ \A i \in DOMAIN Tail(stack) : Good(Tail(stack)[i], S)
    BY <1>2, <2>1, PopGood
  <2> QED BY <1>3, <1>10, <2>2, <2>3, <2>4, <2>5 DEF VectorSet
<1>11. CASE Define
  <2>1. 1 \in DOMAIN stack
    BY <1>2, <1>11 DEF Define
  <2>2. stack[1] \in Cell /\ Good(stack[1], S)
    BY <1>2, <2>1
  <2> DEFINE e == Plus(LexicalEnvironment, 1)
  <2>3. e \in S /\ mem[e].tag # "vector"
    <3>1. LexicalEnvironment \in S /\ mem[LexicalEnvironment] = Header(1)
      BY DEF Sound, Whole
    <3>2. e \in Elements(LexicalEnvironment)
      BY <3>1 DEF Elements, Header
    <3> QED BY <3>1, <3>2 DEF Sound, Whole, Header
  <2> QED BY <1>2, <1>3, <1>11, <2>2, <2>3 DEF Define
<1>12. CASE VectorRef \/ PushReturnAddress
  BY <1>12 DEF VectorRef, PushReturnAddress
<1>13. CASE CreateHandle
  <2> PICK h \in Handles : Handle(h, stack[1].at)
    BY <1>13 DEF CreateHandle
  <2>1. stack[1] \in Cell /\ Good(stack[1], S) /\ stack[1].tag = "reference"
    BY <1>2, <1>13, PopGood DEF CreateHandle
  <2>2. stack[1].at \in Addr \cup {Outside} /\ {stack[1].at} \cap Addr \subseteq S
    BY <2>1 DEF Good, Cell
  <2> QED BY <1>4, <1>5, <1>13, <2>2 DEF CreateHandle
<1>14. CASE DuplicateHandle
  <2> PICK h \in Handles, from \in active : Handle(h, object[from])
    BY <1>14 DEF DuplicateHandle
  <2>1. object[from] \in Addr \cup {Outside} /\ {object[from]} \cap Addr \subseteq S
    BY <1>2
  <2> QED BY <1>4, <1>5, <1>14, <2>1 DEF DuplicateHandle
<1>15. CASE DestroyHandle
  <2> PICK h \in active : /\ object' = [object EXCEPT ![h] = Outside]
                          /\ active' = active \ {h}
                          /\ idle' = idle \cup {h}
    BY <1>15 DEF DestroyHandle
  <2>1. /\ object' \in [Handles -> Addr \cup {Outside}]
        /\ active' \subseteq Handles /\ idle' \subseteq Handles
        /\ \A g \in active' : {object'[g]} \cap Addr \subseteq S
    BY <1>2
  <2> QED BY <1>4, <1>15, <2>1 DEF DestroyHandle
<1>16. CASE RetargetHandle
  <2> PICK h \in active, e \in Elements(stack[1].at) : object' = [object EXCEPT ![h] = e]
    BY <1>16 DEF RetargetHandle
  <2>1. e \in S
    BY <1>1, <1>16, ElementsGood DEF RetargetHandle
  <2>2. /\ object' \in [Handles -> Addr \cup {Outside}]
        /\ \A g \in active : {object'[g]} \cap Addr \subseteq S
    BY <1>2, <2>1
  <2> QED BY <1>2, <1>4, <1>16, <2>2 DEF RetargetHandle
<1>17. CASE CallVector \/ CallBox
  <2>1. PICK n \in Nat, op \in {"vector", "box"} :
           /\ Allocate(op, n)
           /\ \/ op = "vector" /\ n <= MaxCount /\ n <= Len(stack)
              \/ op = "box" /\ n = 0 /\ stack # << >>
    <3>1. CASE CallVector
      BY <3>1, Sizes DEF CallVector
    <3>2. CASE CallBox
      BY <3>2 DEF CallBox
    <3> QED BY <1>17, <3>1, <3>2
  <2>2. /\ pc = "program" /\ pc' = "alloc" /\ request' = [op |-> op, count |-> n] /\ try' = 0
        /\ UNCHANGED <<memVars, rootVars, gcVars>>
    BY <2>1 DEF Allocate
  <2>3. TypeOK'
    BY <1>1, <2>2 DEF TypeOK, memVars, rootVars, gcVars
  <2>4. Sound(S)'
    BY <1>2, <2>2, MoveKeepsSound DEF memVars, rootVars
  <2>5. RequestInv'
    BY <2>1, <2>2 DEF RequestInv, rootVars
  <2> QED BY <2>3, <2>4, <2>5 DEF ProgramInv, ReachInv
<1> QED BY <1>6, <1>7, <1>8, <1>9, <1>10, <1>11, <1>12, <1>13, <1>14, <1>15, <1>16, <1>17
        DEF ProgramStep

-----------------------------------------------------------------------------
(* Allocation.                                                             *)

\* The request never needs more than a page.
LEMMA RequestSize ==
    ASSUME TypeOK, RequestInv, pc = "alloc"
    PROVE  /\ request.count \in Nat /\ Size \in Nat /\ Size > 0 /\ Size <= PageSize
           /\ request.op = "vector" => request.count <= Len(stack)
           /\ ptr[current] \in 0 .. PageSize /\ current \in Buckets
           /\ ptr[current] = 0 => Fits
           /\ try > 0 => Fits
BY Sizes DEF TypeOK, RequestInv, Size, Fits

LEMMA NewCellsAre ==
    ASSUME TypeOK, RequestInv, pc = "alloc", Fits,
           ptr' = [ptr EXCEPT ![current] = @ + Size]
    PROVE  /\ ptr' \in [Buckets -> 0 .. PageSize]
           /\ NewCells \subseteq Addr /\ NewCells \cap Allocated = {}
           /\ Allocated' = Allocated \cup NewCells
           /\ NewObject \in NewCells
           /\ \A a \in NewCells : /\ a[1] = current /\ a[2] - ptr[current] \in 0 .. request.count
                                  /\ a = Plus(NewObject, a[2] - ptr[current])
           /\ \A k \in 1 .. request.count : Plus(NewObject, k) \in NewCells
           /\ \A k \in 0 .. request.count : Plus(NewObject, k)[2] - ptr[current] = k
<1>1. /\ request.count \in Nat /\ Size = 1 + request.count
      /\ ptr[current] \in Nat /\ ptr[current] + Size <= PageSize /\ current \in Buckets
  BY RequestSize, Sizes DEF Fits, Size
<1>2. ptr' \in [Buckets -> 0 .. PageSize]
  BY <1>1, Sizes DEF TypeOK
<1>3. NewCells = {<<current, ptr[current] + k>> : k \in 0 .. request.count}
  BY DEF NewCells, NewObject, Plus
<1>4. NewCells = {a \in Addr : a[1] = current /\ ptr[current] <= a[2] /\ a[2] < ptr[current] + Size}
  <2>1. ASSUME NEW a \in NewCells
        PROVE  a \in Addr /\ a[1] = current /\ ptr[current] <= a[2] /\ a[2] < ptr[current] + Size
    BY <1>1, <1>3, Sizes DEF Addr
  <2>2. ASSUME NEW a \in Addr, a[1] = current, ptr[current] <= a[2], a[2] < ptr[current] + Size
        PROVE  a \in NewCells
    <3>1. a = <<current, ptr[current] + (a[2] - ptr[current])>>
      BY <1>1, <2>2 DEF Addr
    <3>2. a[2] - ptr[current] \in 0 .. request.count
      BY <1>1, <2>2 DEF Addr
    <3> QED BY <1>3, <3>1, <3>2
  <2> QED BY <2>1, <2>2
<1>5. NewCells \cap Allocated = {}
  BY <1>1, <1>4 DEF Allocated, Addr
<1>6. Allocated' = Allocated \cup NewCells
  <2>1. \A b \in Buckets : ptr'[b] = IF b = current THEN ptr[current] + Size ELSE ptr[b]
    BY DEF TypeOK
  <2>2. \A a \in Addr : a[1] \in Buckets /\ a[2] \in Int
    BY Sizes DEF Addr
  <2>3. \A b \in Buckets : ptr[b] \in Int
    BY DEF TypeOK
  <2>4. ASSUME NEW a \in Addr
        PROVE  a[2] < ptr'[a[1]] <=> a \in Allocated \/ a \in NewCells
    BY <1>1, <1>4, <2>1, <2>2, <2>3 DEF Allocated
  <2> QED BY <1>4, <2>4 DEF Allocated
<1>7. NewObject \in NewCells
  BY <1>1, <1>3 DEF NewObject
<1>8. \A a \in NewCells : /\ a[1] = current /\ a[2] - ptr[current] \in 0 .. request.count
                          /\ a = Plus(NewObject, a[2] - ptr[current])
  BY <1>1, <1>3 DEF NewObject, Plus
<1>9. /\ \A k \in 1 .. request.count : Plus(NewObject, k) \in NewCells
      /\ \A k \in 0 .. request.count : Plus(NewObject, k)[2] - ptr[current] = k
  BY <1>1 DEF NewCells, NewObject, Plus
<1> QED BY <1>2, <1>4, <1>5, <1>6, <1>7, <1>8, <1>9

\* The cells of the object that is placed, when the values for it lead to S.
LEMMA ContentsAre ==
    ASSUME TypeOK, RequestInv, pc = "alloc", NEW S,
           request.op = "vector" => \A k \in 1 .. request.count : Good(stack[k], S),
           request.op = "box" => Good(stack[1], S),
           NEW k \in 0 .. request.count
    PROVE  /\ Contents(k) \in Cell
           /\ (k = 0 /\ request.op = "vector") => Contents(k) = Header(request.count)
           /\ (k # 0 \/ request.op # "vector") => Good(Contents(k), S)
<1>1. request.op = "vector" \/ (request.op = "box" /\ request.count = 0 /\ stack # << >>)
  BY DEF RequestInv
<1>2. request.count \in Nat /\ stack \in Seq(Cell)
  BY DEF TypeOK
<1>3. CASE request.op = "vector" /\ k = 0
  <2>1. Header(request.count) \in Cell
    BY <1>2 DEF Header, Cell, Tags
  <2> QED BY <1>3, <2>1 DEF Contents
<1>4. CASE request.op = "vector" /\ k # 0
  <2>1. request.count <= Len(stack)
    BY <1>4, RequestSize
  <2>2. k \in DOMAIN stack /\ k \in 1 .. request.count
    BY <1>2, <1>4, <2>1
  <2> QED BY <1>2, <1>4, <2>2 DEF Contents
<1>5. CASE request.op = "box" /\ stack # << >>
  <2>1. 1 \in DOMAIN stack
    BY <1>2, <1>5
  <2> QED BY <1>2, <1>5, <2>1 DEF Contents
<1> QED BY <1>1, <1>3, <1>4, <1>5

LEMMA BumpKeepsWhole ==
    ASSUME TypeOK, RequestInv, pc = "alloc", Fits,
           ptr' = [ptr EXCEPT ![current] = @ + Size],
           mem' = [a \in Addr |-> IF a \in NewCells THEN Contents(a[2] - ptr[current]) ELSE mem[a]],
           NEW S \in SUBSET Addr, Whole(S),
           request.op = "vector" => \A k \in 1 .. request.count : Good(stack[k], S),
           request.op = "box" => Good(stack[1], S),
           NEW T, T = S \cup NewCells
    PROVE  mem' \in [Addr -> Cell] /\ Whole(T)'
<1> DEFINE n == request.count
<1>1. /\ NewCells \subseteq Addr /\ NewCells \cap Allocated = {}
      /\ Allocated' = Allocated \cup NewCells
      /\ NewObject \in NewCells /\ n \in Nat
      /\ \A a \in NewCells : /\ a[1] = current /\ a[2] - ptr[current] \in 0 .. n
                             /\ a = Plus(NewObject, a[2] - ptr[current])
      /\ \A k \in 1 .. n : Plus(NewObject, k) \in NewCells
      /\ \A k \in 0 .. n : Plus(NewObject, k)[2] - ptr[current] = k
  BY NewCellsAre, RequestSize
<1>2. S \subseteq Allocated /\ T \subseteq Addr /\ T \subseteq Allocated' /\ NewObject \in T
  BY <1>1 DEF Whole
<1>3. \A v : Good(v, S) => Good(v, T)
  BY DEF Good
<1>4. \A a \in S : mem'[a] = mem[a]
  BY <1>1, <1>2
<1>5. \A k \in 0 .. n : /\ Contents(k) \in Cell
                        /\ (k = 0 /\ request.op = "vector") => Contents(k) = Header(n)
                        /\ (k # 0 \/ request.op # "vector") => Good(Contents(k), T)
  BY <1>3, ContentsAre
<1>6. mem' \in [Addr -> Cell]
  BY <1>1, <1>5 DEF TypeOK
<1>7. \A k \in 1 .. n : mem'[Plus(NewObject, k)].tag # "vector"
  <2> SUFFICES ASSUME NEW k \in 1 .. n PROVE mem'[Plus(NewObject, k)].tag # "vector"
    OBVIOUS
  <2>1. mem'[Plus(NewObject, k)] = Contents(k)
    BY <1>1
  <2>2. k \in 0 .. n /\ k # 0
    BY <1>1
  <2>3. Good(Contents(k), T)
    BY <1>5, <2>2
  <2> QED BY <2>1, <2>3 DEF Good
<1>8. ASSUME NEW a \in T
      PROVE  IF mem'[a].tag = "vector"
             THEN \A e \in Elements(a)' : e \in T /\ mem'[e].tag # "vector"
             ELSE Good(mem'[a], T)
  <2>1. CASE a \in S
    <3>1. mem'[a] = mem[a] /\ Elements(a)' = Elements(a)
      BY <1>4, <2>1 DEF Elements
    <3> QED BY <1>3, <1>4, <2>1, <3>1 DEF Whole
  <2>2. CASE a \in NewCells /\ ~(a = NewObject /\ request.op = "vector")
    <3>1. PICK k \in 0 .. n : k = a[2] - ptr[current] /\ a = Plus(NewObject, k)
      BY <1>1, <2>2
    <3>2. mem'[a] = Contents(k)
      BY <1>1, <2>2, <3>1
    <3>3. k # 0 \/ request.op # "vector"
      BY <2>2, <3>1 DEF Plus, NewObject, TypeOK
    <3>4. Good(Contents(k), T)
      BY <1>5, <3>3
    <3> QED BY <3>2, <3>4 DEF Good
  <2>3. CASE a = NewObject /\ request.op = "vector"
    <3>1. a[2] - ptr[current] = 0
      BY <2>3 DEF NewObject, TypeOK
    <3>2. mem'[a] = Header(n)
      BY <1>1, <1>5, <2>3, <3>1
    <3>3. Elements(a)' = {Plus(NewObject, k) : k \in 1 .. n}
      BY <2>3, <3>2 DEF Elements, Header, Plus
    <3> QED BY <1>1, <1>7, <3>2, <3>3 DEF Header
  <2> QED BY <2>1, <2>2, <2>3
<1>9. LexicalEnvironment \in T /\ mem'[LexicalEnvironment] = Header(1)
  BY <1>4 DEF Whole
<1>10. Whole(T)'
  BY <1>2, <1>8, <1>9 DEF Whole
<1> QED BY <1>6, <1>10

LEMMA BumpKeeps ==
    ASSUME ProgramInv, Bump
    PROVE  ProgramInv'
<1> PICK S \in SUBSET Addr : Sound(S)
  BY DEF ProgramInv, ReachInv
<1> DEFINE n == request.count
<1> PICK T : T = S \cup NewCells
  OBVIOUS
<1>1. /\ TypeOK /\ RequestInv /\ pc = "alloc" /\ Fits
      /\ ptr' = [ptr EXCEPT ![current] = @ + Size]
      /\ mem' = [a \in Addr |-> IF a \in NewCells THEN Contents(a[2] - ptr[current]) ELSE mem[a]]
      /\ pc' = "program" /\ Root
      /\ UNCHANGED <<freeList, current, allocVars, gcVars>>
  BY DEF Bump, ProgramInv
<1>2. /\ ptr' \in [Buckets -> 0 .. PageSize] /\ NewCells \subseteq Addr
      /\ NewObject \in NewCells /\ n \in Nat
  BY <1>1, NewCellsAre, RequestSize
<1>3. /\ stack \in Seq(Cell) /\ \A i \in DOMAIN stack : stack[i] \in Cell /\ Good(stack[i], S)
      /\ \A v : Good(v, S) => Good(v, T)
      /\ T \subseteq Addr /\ NewObject \in T /\ {NewObject} \cap Addr \subseteq T
  BY <1>1, <1>2 DEF TypeOK, Sound, Good
<1>4. \/ request.op = "vector" /\ n <= Len(stack)
      \/ request.op = "box" /\ stack # << >>
  BY <1>1 DEF RequestInv
<1>5. mem' \in [Addr -> Cell] /\ Whole(T)'
  <2>1. request.op = "vector" => \A k \in 1 .. n : Good(stack[k], S)
    BY <1>2, <1>3, <1>4
  <2>2. request.op = "box" => Good(stack[1], S)
    BY <1>3, <1>4
  <2> QED BY <1>1, <2>1, <2>2, BumpKeepsWhole DEF Sound
<1>6. /\ stack' \in Seq(Cell) /\ \A i \in DOMAIN stack' : Good(stack'[i], T)
      /\ object' \in [Handles -> Addr \cup {Outside}]
      /\ active' \subseteq Handles /\ idle' \subseteq Handles
      /\ \A h \in active' : {object'[h]} \cap Addr \subseteq T
  <2>1. /\ object \in [Handles -> Addr \cup {Outside}] /\ active \subseteq Handles /\ idle \subseteq Handles
        /\ \A h \in active : {object[h]} \cap Addr \subseteq T
    BY <1>1 DEF TypeOK, Sound
  <2>2. CASE request.op = "vector"
    <3> DEFINE rest == SubSeq(stack, n + 1, Len(stack))
    <3>1. stack' = <<Reference(NewObject)>> \o rest /\ UNCHANGED <<object, active, idle>>
      BY <1>1, <2>2 DEF Root
    <3>2. rest \in Seq(Cell) /\ \A i \in DOMAIN rest : Good(rest[i], T)
      BY <1>2, <1>3, <1>4, <2>2, SuffixGood
    <3>3. Reference(NewObject) \in Cell /\ Good(Reference(NewObject), T)
      BY <1>2, <1>3 DEF Reference, Cell, Tags, Good
    <3> HIDE DEF rest
    <3>4. stack' \in Seq(Cell) /\ \A i \in DOMAIN stack' : Good(stack'[i], T)
      BY <3>1, <3>2, <3>3, PushGood
    <3> QED BY <2>1, <3>1, <3>4
  <2>3. CASE request.op = "box"
    <3>1. (\E h \in Handles : Handle(h, NewObject)) /\ UNCHANGED stack
      BY <1>1, <2>3 DEF Root
    <3> QED BY <1>3, <2>1, <3>1 DEF Handle
  <2> QED BY <1>4, <2>2, <2>3
<1>7. TypeOK'
  BY <1>1, <1>2, <1>5, <1>6 DEF TypeOK, allocVars, gcVars
<1>8. Sound(T)'
  BY <1>5, <1>6 DEF Sound
<1>9. RequestInv'
  BY <1>1 DEF RequestInv
<1> QED BY <1>3, <1>7, <1>8, <1>9 DEF ProgramInv, ReachInv

-----------------------------------------------------------------------------
(* Collection.                                                             *)

\* The collector flags and scans nothing but cells of objects.
ScanInv == flag \cup pending \subseteq Allocated

\* The flagged cells of a bucket.
Flagged(b) == {a \in flag : a[1] = b}

CostInv ==
    /\ pc \in {"mark", "reclaim"} => \A b \in Buckets : cost[b] = Cardinality(Flagged(b))
    /\ pc = "mark" => pending \cap flag = {}

Pinned == \A b \in Buckets : \E a \in Live : a[1] = b

PinnedInv ==
    /\ pc = "reclaim" /\ reclaimed = 0 => \A b \in 0 .. next - 1 : cost[b] # 0
    /\ pc = "unmark" /\ reclaimed = 0 => Pinned
    /\ pc = "halted" => Pinned

CollectInv == ScanInv /\ CostInv /\ PinnedInv

IInv == ProgramInv /\ FlagInv /\ FreeListInv /\ CollectInv

LEMMA FiniteFlags ==
    ASSUME TypeOK
    PROVE  IsFiniteSet(flag) /\ \A b : IsFiniteSet(Flagged(b))
<1>1. IsFiniteSet(Addr)
  <2>1. IsFiniteSet(Buckets) /\ IsFiniteSet(0 .. PageSize - 1)
    BY FS_Interval, Sizes DEF Buckets
  <2> QED BY <2>1, FS_Product DEF Addr
<1>2. flag \subseteq Addr /\ \A b : Flagged(b) \subseteq flag
  BY DEF TypeOK, Flagged
<1> QED BY <1>1, <1>2, FS_Subset

\* What is flagged belongs to every set that holds all the program reaches.
LEMMA MarkedIsHeld ==
    ASSUME TypeOK, ReachInv, FlagInv, pc \in {"mark", "reclaim"}
    PROVE  /\ \A S \in SUBSET Addr : Sound(S) => flag \cup pending \subseteq S
           /\ \A S \in SUBSET Addr : Holds(S) => flag \cup pending \subseteq S
<1> DEFINE M == flag \cup pending
<1>1. ASSUME NEW S \in SUBSET Addr, Roots = ScanRoots,
             Roots \subseteq S, \A x \in S \cap M : Scan(x) \subseteq S
      PROVE  M \subseteq S
  <2>1. ScanRoots \subseteq S \cap M /\ \A x \in (S \cap M) \cap flag : Scan(x) \subseteq S \cap M
    BY <1>1 DEF FlagInv
  <2>2. S \cap M \in SUBSET M
    OBVIOUS
  <2>3. M \subseteq S \cap M
    BY <2>1, <2>2 DEF FlagInv, MarkReach
  <2> QED BY <2>3
<1>2. PICK S0 \in SUBSET Addr : Sound(S0)
  BY DEF ReachInv
<1>3. ScanRoots = Roots
  BY <1>2, SoundScans
<1>4. ASSUME NEW S \in SUBSET Addr, Sound(S) PROVE M \subseteq S
  <2>1. ScanRoots \subseteq S /\ \A x \in S : Scan(x) \subseteq S
    BY <1>4, SoundScans
  <2> QED BY <1>1, <1>3, <2>1
<1>5. ASSUME NEW S \in SUBSET Addr, Holds(S) PROVE M \subseteq S
  <2>1. \A x \in M : Scan(x) = Uses(mem, x)
    BY <1>2, <1>4, SoundScans
  <2> QED BY <1>1, <1>3, <1>5, <2>1 DEF Holds
<1> QED BY <1>4, <1>5

\* When marking ends the flagged cells are all that the program reaches.
LEMMA FlagIsSound ==
    ASSUME TypeOK, ReachInv, FlagInv, pc = "reclaim"
    PROVE  Sound(flag) /\ Live = flag
<1>1. pending = {} /\ ScanRoots \subseteq flag /\ \A x \in flag : Scan(x) \subseteq flag
  BY DEF FlagInv
<1>2. PICK S \in SUBSET Addr : Sound(S)
  BY DEF ReachInv
<1>3. flag \subseteq S
  BY <1>2, MarkedIsHeld
<1>4. ASSUME NEW v, Good(v, S), ScanValue(v) \subseteq flag PROVE Good(v, flag)
  BY <1>4 DEF Good, ScanValue
<1>5. /\ LexicalEnvironment \in flag
      /\ \A i \in DOMAIN stack : ScanValue(stack[i]) \subseteq flag
      /\ \A h \in active : {object[h]} \cap Addr \subseteq flag
  BY <1>1 DEF ScanRoots, HandleObjects
<1>6. \A i \in DOMAIN stack : Good(stack[i], flag)
  BY <1>2, <1>4, <1>5 DEF Sound, Whole
<1>7. ASSUME NEW a \in flag
      PROVE  IF mem[a].tag = "vector"
             THEN \A e \in Elements(a) : e \in flag /\ mem[e].tag # "vector"
             ELSE Good(mem[a], flag)
  <2>1. CASE mem[a].tag = "vector"
    BY <1>1, <1>2, <1>3, <2>1 DEF Sound, Whole, Scan
  <2>2. CASE mem[a].tag # "vector"
    <3>1. Good(mem[a], S) /\ ScanValue(mem[a]) \subseteq flag
      BY <1>1, <1>2, <1>3, <2>2 DEF Sound, Whole, Scan
    <3> QED BY <1>4, <2>2, <3>1
  <2> QED BY <2>1, <2>2
<1>8. Sound(flag)
  BY <1>2, <1>3, <1>5, <1>6, <1>7 DEF Sound, Whole
<1>9. Live = flag
  <2>1. flag \in SUBSET Addr /\ Holds(flag)
    BY <1>8, SoundHolds DEF TypeOK
  <2>2. \A T \in SUBSET Addr : Holds(T) => flag \subseteq T
    BY MarkedIsHeld
  <2> QED BY <2>1, <2>2 DEF Live
<1> QED BY <1>8, <1>9

LEMMA LiveUnchanged ==
    ASSUME UNCHANGED <<mem, rootVars>>
    PROVE  Live' = Live /\ (Pinned => Pinned')
<1>1. Roots' = Roots /\ \A a : Uses(mem, a)' = Uses(mem, a)
  BY DEF rootVars, Roots, HandleObjects, Uses, UseValue, LexicalEnvironment, Plus
<1>2. \A S : Holds(S)' <=> Holds(S)
  BY <1>1 DEF Holds
<1>3. Live' = Live
  BY <1>2 DEF Live
<1> QED BY <1>3 DEF Pinned

LEMMA ReachUnchanged ==
    ASSUME ReachInv, UNCHANGED <<mem, ptr, rootVars>>
    PROVE  ReachInv'
<1> PICK S \in SUBSET Addr : Sound(S)
  BY DEF ReachInv
<1>1. \A i \in DOMAIN stack : Good(stack[i], S)
  BY DEF Sound, Whole
<1>2. \A h \in active : {object[h]} \cap Addr \subseteq S
  BY DEF Sound, Whole
<1>3. Sound(S)'
  BY <1>1, <1>2, MoveKeepsSound DEF rootVars
<1> QED BY <1>3 DEF ReachInv

LEMMA IInvInit == Init => IInv
BY ProgramInvInit, FlagInvInit, FreeListInvInit
   DEF IInv, CollectInv, ScanInv, CostInv, PinnedInv, Init

LEMMA StartCollectionKeeps ==
    ASSUME IInv, StartCollection
    PROVE  ProgramInv' /\ CollectInv'
<1>1. /\ TypeOK /\ ReachInv /\ RequestInv /\ FlagInv /\ FreeListInv
      /\ pc = "alloc" /\ ~Fits /\ try < 2 /\ pc' = "mark"
      /\ cost' = [b \in Buckets |-> 0] /\ pending' = ScanRoots \ flag
      /\ UNCHANGED <<mem, ptr, freeList, current, rootVars, request, try, flag, next, reclaimed>>
  BY DEF IInv, ProgramInv, StartCollection, memVars, allocVars
<1>2. PICK S \in SUBSET Addr : Sound(S) /\ ScanRoots \subseteq S
  BY <1>1, SoundScans DEF ReachInv
<1>3. flag = {} /\ try = 0
  BY <1>1, RequestSize DEF FlagInv, TypeOK
<1>4. pending' \subseteq S /\ S \subseteq Allocated /\ Allocated' = Allocated
  BY <1>1, <1>2 DEF Sound, Whole, Allocated
<1>5. TypeOK'
  BY <1>1, <1>4 DEF TypeOK, rootVars
<1>6. RequestInv'
  BY <1>1, <1>3 DEF RequestInv, rootVars
<1>7. \A b \in Buckets : cost'[b] = Cardinality(Flagged(b)')
  <2>1. \A b : Flagged(b)' = {}
    BY <1>1, <1>3 DEF Flagged
  <2> QED BY <1>1, <2>1, FS_EmptySet
<1>8. CollectInv'
  BY <1>1, <1>3, <1>4, <1>7 DEF CollectInv, ScanInv, CostInv, PinnedInv
<1> QED BY <1>1, <1>5, <1>6, <1>8, ReachUnchanged DEF ProgramInv

\* mark_object adds one to the cost of the bucket of the cell it flags.
LEMMA MarkCounts ==
    ASSUME TypeOK, CostInv, pc = "mark", NEW a \in pending,
           flag' = flag \cup {a}, cost' = [cost EXCEPT ![a[1]] = @ + 1]
    PROVE  \A b \in Buckets : cost'[b] = Cardinality(Flagged(b)')
<1> SUFFICES ASSUME NEW b \in Buckets PROVE cost'[b] = Cardinality(Flagged(b)')
  OBVIOUS
<1>1. cost[b] = Cardinality(Flagged(b)) /\ IsFiniteSet(Flagged(b)) /\ a \notin flag
  BY FiniteFlags DEF CostInv
<1>2. CASE b = a[1]
  <2>1. Flagged(b)' = Flagged(b) \cup {a} /\ a \notin Flagged(b)
    BY <1>1, <1>2 DEF Flagged
  <2>2. cost'[b] = cost[b] + 1
    BY <1>2 DEF TypeOK
  <2> QED BY <1>1, <2>1, <2>2, FS_AddElement
<1>3. CASE b # a[1]
  <2>1. Flagged(b)' = Flagged(b)
    BY <1>3 DEF Flagged
  <2>2. cost'[b] = cost[b]
    BY <1>3 DEF TypeOK
  <2> QED BY <1>1, <2>1, <2>2
<1> QED BY <1>2, <1>3

LEMMA MarkKeeps ==
    ASSUME IInv, Mark
    PROVE  ProgramInv' /\ CollectInv'
<1>1. /\ TypeOK /\ ReachInv /\ RequestInv /\ FlagInv /\ CostInv /\ pc = "mark"
      /\ UNCHANGED <<mem, ptr, freeList, current, rootVars, request, try, next, reclaimed>>
  BY DEF IInv, ProgramInv, CollectInv, Mark, memVars, allocVars
<1>2. PICK a \in pending :
         /\ flag' = flag \cup {a}
         /\ cost' = [cost EXCEPT ![a[1]] = @ + 1]
         /\ pending' = (pending \cup Scan(a)) \ flag'
         /\ pc' = IF mem[a].tag = "invalid" THEN "halted" ELSE "mark"
  BY DEF Mark
<1>3. PICK S \in SUBSET Addr :
         /\ Sound(S) /\ flag \cup pending \subseteq S
         /\ \A x \in S : Scan(x) \subseteq S
  BY <1>1, MarkedIsHeld, SoundScans DEF ReachInv
<1>4. flag' \cup pending' \subseteq S /\ S \subseteq Allocated' /\ a \in S /\ a[1] \in Buckets
  BY <1>1, <1>2, <1>3 DEF Sound, Whole, Allocated, Addr
<1>5. pc' = "mark"
  BY <1>2, <1>3, <1>4 DEF Sound, Whole, Good
<1>6. cost' \in [Buckets -> Nat]
  BY <1>1, <1>2, <1>4 DEF TypeOK
<1>7. TypeOK'
  BY <1>1, <1>3, <1>4, <1>5, <1>6 DEF TypeOK, rootVars
<1>8. RequestInv'
  BY <1>1, <1>5 DEF RequestInv, rootVars
<1>9. \A b \in Buckets : cost'[b] = Cardinality(Flagged(b)')
  BY <1>1, <1>2, MarkCounts
<1>10. CollectInv'
  BY <1>1, <1>2, <1>4, <1>5, <1>9 DEF CollectInv, ScanInv, CostInv, PinnedInv
<1> QED BY <1>1, <1>7, <1>8, <1>10, ReachUnchanged DEF ProgramInv

LEMMA ReclaimKeeps ==
    ASSUME IInv, FreeListInv', Reclaim
    PROVE  ProgramInv' /\ CollectInv'
<1>1. /\ TypeOK /\ ReachInv /\ RequestInv /\ FlagInv /\ FreeListInv
      /\ ScanInv /\ CostInv /\ PinnedInv
      /\ pc = "reclaim" /\ next < NumBuckets /\ next' = next + 1
      /\ UNCHANGED <<mem, current, rootVars, pc, request, try, flag, cost, pending>>
  BY DEF IInv, ProgramInv, CollectInv, Reclaim, allocVars
<1>0. next \in Buckets
  BY <1>1, Sizes DEF TypeOK, Buckets
<1>2. \/ cost[next] = 0 /\ ReclaimBucket(next)
      \/ cost[next] # 0 /\ UNCHANGED <<ptr, freeList, reclaimed>>
  BY DEF Reclaim
<1>3. Sound(flag) /\ flag \in SUBSET Addr /\ pending = {}
  BY <1>1, FlagIsSound DEF TypeOK, FlagInv
<1>4. \A a \in flag : a[1] \in Buckets /\ cost[a[1]] # 0
  <2> SUFFICES ASSUME NEW a \in flag PROVE a[1] \in Buckets /\ cost[a[1]] # 0
    OBVIOUS
  <2>1. a[1] \in Buckets
    BY <1>3 DEF Addr
  <2>2. Flagged(a[1]) # {} /\ IsFiniteSet(Flagged(a[1]))
    BY <1>1, FiniteFlags DEF Flagged
  <2> QED BY <1>1, <2>1, <2>2, FS_EmptySet DEF CostInv
<1>5. ptr' \in [Buckets -> 0 .. PageSize] /\ \A b \in Buckets : cost[b] # 0 => ptr'[b] = ptr[b]
  <2>1. ptr \in [Buckets -> 0 .. PageSize] /\ 0 \in 0 .. PageSize
    BY <1>1, Sizes DEF TypeOK
  <2>2. CASE cost[next] = 0 /\ ptr' = [ptr EXCEPT ![next] = 0]
    BY <1>0, <2>1, <2>2
  <2> QED BY <1>2, <2>1, <2>2 DEF ReclaimBucket
<1>6. flag \subseteq Allocated'
  BY <1>3, <1>4, <1>5 DEF Sound, Whole, Allocated
<1>7. TypeOK'
  <2>1. next' \in 0 .. NumBuckets
    BY <1>0, <1>1, Sizes DEF Buckets
  <2> QED BY <1>1, <1>5, <2>1 DEF TypeOK, FreeListInv, rootVars
<1>8. Sound(flag)'
  <2>1. \A i \in DOMAIN stack : Good(stack[i], flag)
    BY <1>3 DEF Sound, Whole
  <2> QED BY <1>1, <1>3, <1>6 DEF Sound, Whole, Elements, rootVars
<1>9. RequestInv'
  BY <1>1 DEF RequestInv, rootVars
<1>10. ASSUME reclaimed' = 0, NEW b \in 0 .. next' - 1 PROVE cost[b] # 0
  <2>1. reclaimed = 0 /\ cost[next] # 0
    BY <1>0, <1>1, <1>2, <1>10 DEF ReclaimBucket, TypeOK
  <2>2. b = next \/ b \in 0 .. next - 1
    BY <1>0, <1>1 DEF Buckets
  <2> QED BY <1>0, <1>1, <2>1, <2>2 DEF PinnedInv
<1>11. CollectInv'
  BY <1>1, <1>3, <1>6, <1>10 DEF CollectInv, ScanInv, CostInv, Flagged, PinnedInv
<1> QED BY <1>1, <1>3, <1>7, <1>8, <1>9, <1>11 DEF ProgramInv, ReachInv

LEMMA UnmarkKeeps ==
    ASSUME IInv, StartReclaim \/ StartUnmark \/ Unmark
    PROVE  ProgramInv' /\ CollectInv'
<1>1. /\ TypeOK /\ ReachInv /\ RequestInv /\ FlagInv /\ FreeListInv
      /\ ScanInv /\ CostInv /\ PinnedInv
      /\ pc \in {"mark", "reclaim", "unmark"} /\ pc' \in {"reclaim", "unmark"}
      /\ UNCHANGED <<mem, ptr, freeList, current, rootVars, request, try, cost>>
  BY DEF IInv, ProgramInv, CollectInv, StartReclaim, StartUnmark, Unmark, memVars, allocVars
<1>2. /\ flag' \cup pending' \subseteq flag \cup pending
      /\ flag' \cup pending' \subseteq Addr
      /\ next' \in 0 .. NumBuckets /\ reclaimed' \in Nat
  BY <1>1, Sizes DEF StartReclaim, StartUnmark, Unmark, TypeOK
<1>3. TypeOK'
  BY <1>1, <1>2 DEF TypeOK, rootVars
<1>4. ReachInv'
  BY <1>1, ReachUnchanged
<1>5. RequestInv'
  BY <1>1 DEF RequestInv, rootVars
<1>6. ScanInv'
  BY <1>1, <1>2 DEF ScanInv, Allocated
<1>7. CostInv' /\ PinnedInv'
  <2>1. CASE StartReclaim
    <3>1. pc = "mark" /\ pc' = "reclaim" /\ next' = 0 /\ flag' = flag
      BY <2>1 DEF StartReclaim
    <3> QED BY <1>1, <3>1 DEF CostInv, PinnedInv, Flagged
  <2>2. CASE StartUnmark
    <3>1. pc = "reclaim" /\ pc' = "unmark" /\ next = NumBuckets /\ reclaimed' = reclaimed
      BY <2>2 DEF StartUnmark
    <3>2. ASSUME reclaimed = 0 PROVE Pinned
      <4> SUFFICES ASSUME NEW b \in Buckets PROVE \E a \in Live : a[1] = b
        BY DEF Pinned
      <4>1. cost[b] # 0
        BY <1>1, <3>1, <3>2 DEF PinnedInv, Buckets
      <4>2. Flagged(b) # {}
        BY <1>1, <3>1, <4>1, FS_EmptySet DEF CostInv
      <4> QED BY <1>1, <3>1, <4>2, FlagIsSound DEF Flagged
    <3> QED BY <1>1, <3>1, <3>2, LiveUnchanged DEF CostInv, PinnedInv
  <2>3. CASE Unmark
    <3>1. pc = "unmark" /\ pc' = "unmark" /\ reclaimed' = reclaimed
      BY <2>3 DEF Unmark
    <3> QED BY <1>1, <3>1, LiveUnchanged DEF CostInv, PinnedInv
  <2> QED BY <2>1, <2>2, <2>3
<1> QED BY <1>3, <1>4, <1>5, <1>6, <1>7 DEF ProgramInv, CollectInv

LEMMA AcquireKeeps ==
    ASSUME IInv, NextBucket \/ FinishCollection
    PROVE  ProgramInv' /\ CollectInv'
<1>1. /\ TypeOK /\ ReachInv /\ RequestInv /\ FreeListInv /\ PinnedInv /\ ScanInv
      /\ UNCHANGED <<mem, ptr, rootVars, request, flag, cost, pending, next, reclaimed>>
  BY DEF IInv, ProgramInv, CollectInv, NextBucket, FinishCollection, gcVars
<1>2. ReachInv' /\ ScanInv'
  BY <1>1, ReachUnchanged DEF ScanInv, Allocated
<1>3. CASE Acquire /\ pc' = "alloc" /\ try' = try + 1 /\ try < 2 /\ freeList # << >> /\ pc # "program"
  <2>1. current' \in Buckets /\ freeList' \in Seq(Buckets) /\ ptr[current'] = 0
    BY <1>1, <1>3, TailKeepsFreeList DEF Acquire, FreeListInv
  <2>2. TypeOK'
    BY <1>1, <1>3, <2>1, SMTT(30) DEF TypeOK, rootVars
  <2>3. RequestInv'
    BY <1>1, <1>3, <2>1 DEF RequestInv, rootVars
  <2> QED BY <1>2, <1>3, <2>2, <2>3 DEF ProgramInv, CollectInv, CostInv, PinnedInv
<1>4. CASE NextBucket
  BY <1>3, <1>4 DEF NextBucket
<1>5. CASE FinishCollection /\ reclaimed > 0
  <2>1. pc = "unmark" /\ Len(freeList) > 0 /\ try = 0
    BY <1>1, <1>5 DEF FinishCollection, FreeListInv, RequestInv
  <2> QED BY <1>1, <1>3, <1>5, <2>1 DEF FinishCollection, FreeListInv
<1>6. CASE FinishCollection /\ ~(reclaimed > 0)
  <2>1. /\ pc = "unmark" /\ pc' = "halted" /\ reclaimed = 0
        /\ UNCHANGED <<freeList, current, try>>
    BY <1>1, <1>6 DEF FinishCollection, TypeOK
  <2>2. Pinned'
    BY <1>1, <2>1, LiveUnchanged DEF PinnedInv
  <2>3. TypeOK' /\ RequestInv'
    BY <1>1, <2>1 DEF TypeOK, RequestInv, rootVars
  <2> QED BY <1>2, <2>1, <2>2, <2>3 DEF ProgramInv, CollectInv, CostInv, PinnedInv
<1> QED BY <1>4, <1>5, <1>6

LEMMA IInvStep == Operations = {} /\ IInv /\ [Next]_vars => IInv'
<1> SUFFICES ASSUME Operations = {}, IInv, [Next]_vars PROVE IInv'
  OBVIOUS
<1>1. FlagInv' /\ FreeListInv'
  BY FlagInvStep, FreeListInvStep DEF IInv
<1>2. CASE ProgramStep \/ Bump
  <2>1. ProgramInv'
    BY <1>2, ProgramKeeps, BumpKeeps DEF IInv
  <2>2. pc' \in {"program", "alloc"}
    BY <1>2 DEF ProgramStep, PushImmediate, LoadSlot, Pop, LoadElement, VectorSet, Define, VectorRef,
       PushReturnAddress, CreateHandle, DuplicateHandle, DestroyHandle, RetargetHandle, CallVector,
       CallBox, Program, HandleStep, Allocate, Bump
  <2>3. CollectInv'
    BY <1>1, <2>2 DEF FlagInv, CollectInv, ScanInv, CostInv, PinnedInv
  <2> QED BY <1>1, <2>1, <2>3 DEF IInv
<1>3. CASE StartCollection
  BY <1>1, <1>3, StartCollectionKeeps DEF IInv
<1>4. CASE Mark
  BY <1>1, <1>4, MarkKeeps DEF IInv
<1>5. CASE Reclaim
  BY <1>1, <1>5, ReclaimKeeps DEF IInv
<1>6. CASE StartReclaim \/ StartUnmark \/ Unmark
  BY <1>1, <1>6, UnmarkKeeps DEF IInv
<1>7. CASE NextBucket \/ FinishCollection
  BY <1>1, <1>7, AcquireKeeps DEF IInv
<1>8. CASE Halted \/ UNCHANGED vars
  <2>1. UNCHANGED vars
    BY <1>8 DEF Halted
  <2>2. /\ UNCHANGED <<mem, ptr, freeList, current, stack, object, active, idle, rootVars, pc>>
        /\ UNCHANGED <<request, try, flag, cost, pending, next, reclaimed>>
    BY <2>1 DEF vars, memVars, rootVars, allocVars, gcVars
  <2>3. TypeOK' /\ RequestInv' /\ ReachInv'
    BY <2>2, ReachUnchanged DEF IInv, ProgramInv, TypeOK, RequestInv
  <2>4. ScanInv' /\ CostInv' /\ PinnedInv'
    BY <2>2, LiveUnchanged DEF IInv, CollectInv, ScanInv, CostInv, PinnedInv, Flagged, Allocated
  <2> QED BY <1>1, <2>3, <2>4 DEF IInv, ProgramInv, CollectInv
<1>9. CASE ScanAstray
  <2>1. /\ pc = "mark" /\ pc' = "astray" /\ UNCHANGED <<mem, ptr, freeList, current, rootVars>>
        /\ UNCHANGED <<stack, object, active, idle>>
        /\ UNCHANGED <<request, try, flag, cost, pending, next, reclaimed>>
    BY <1>9 DEF ScanAstray, memVars, rootVars, allocVars, gcVars
  <2>2. TypeOK' /\ RequestInv' /\ ReachInv'
    BY <2>1, ReachUnchanged DEF IInv, ProgramInv, TypeOK, RequestInv
  <2>3. ScanInv' /\ CostInv' /\ PinnedInv'
    BY <2>1 DEF IInv, CollectInv, ScanInv, CostInv, PinnedInv, Allocated
  <2> QED BY <1>1, <2>2, <2>3 DEF IInv, ProgramInv, CollectInv
<1> QED BY <1>2, <1>3, <1>4, <1>5, <1>6, <1>7, <1>8, <1>9 DEF Next, HeapStep

-----------------------------------------------------------------------------

\* The inductive invariant, for the programs that keep no inner reference.
THEOREM Invariance == Operations = {} => (Spec => []IInv)
<1> SUFFICES ASSUME Operations = {} PROVE Spec => []IInv
  OBVIOUS
<1>1. IInv /\ [Next]_vars => IInv'
  BY IInvStep
<1> QED BY <1>1, IInvInit, PTL DEF Spec

\* Every variable of gc.c keeps its type.
THEOREM TypeCorrect == Operations = {} => (Spec => []TypeOK)
<1>1. IInv => TypeOK
  BY DEF IInv, ProgramInv
<1> QED BY <1>1, Invariance, PTL

\* reclaim_empty_buckets never reclaims a cell the program can reach.
THEOREM LiveMemoryIsKept == Operations = {} => (Spec => []LiveMemoryKept)
<1>1. IInv => LiveMemoryKept
  BY ReachKeepsLive DEF IInv, ProgramInv
<1> QED BY <1>1, Invariance, PTL

\* scan_object reads and flags nothing but cells of allocated objects.
THEOREM ScanStaysInObjects == Operations = {} => (Spec => []ScansOnlyObjects)
<1>1. IInv => ScansOnlyObjects
  BY DEF IInv, CollectInv, ScanInv, ScansOnlyObjects
<1> QED BY <1>1, Invariance, PTL

\* Every flag a collection sets is cleared before the program goes on.
THEOREM FlagsAreCleared == Operations = {} => (Spec => []FlagsCleared)
<1>1. IInv => FlagsCleared
  BY DEF IInv, FlagInv, FlagsCleared
<1> QED BY <1>1, Invariance, PTL

\* initialize_bucket_costs and mark_object count the reachable cells of a bucket.
THEOREM CostsAreExact == Operations = {} => (Spec => []CostsCountLiveCells)
<1>1. IInv => CostsCountLiveCells
  <2> SUFFICES ASSUME IInv, pc = "reclaim", NEW b \in Buckets
               PROVE  cost[b] = Cardinality({a \in Live : a[1] = b})
    BY DEF CostsCountLiveCells
  <2>1. Live = flag
    BY FlagIsSound DEF IInv, ProgramInv
  <2>2. cost[b] = Cardinality(Flagged(b))
    BY DEF IInv, CollectInv, CostInv
  <2> QED BY <2>1, <2>2 DEF Flagged
<1> QED BY <1>1, Invariance, PTL

\* The second attempt of perform_alloc always finds room.
THEOREM TwoTriesAreEnough == Operations = {} => (Spec => []SecondTryFits)
<1>1. IInv => SecondTryFits
  BY RequestSize DEF IInv, ProgramInv, SecondTryFits
<1> QED BY <1>1, Invariance, PTL

\* gc_collect breaks only when each bucket holds a cell the program can reach.
THEOREM BreakMeansPinned == Operations = {} => (Spec => []BreaksOnlyWhenPinned)
<1>1. IInv => BreaksOnlyWhenPinned
  BY DEF IInv, CollectInv, PinnedInv, Pinned, BreaksOnlyWhenPinned
<1> QED BY <1>1, Invariance, PTL

\* perform_alloc never places an object over a reachable one.
THEOREM AllocationIsSafe == Operations = {} => (Spec => AllocationSparesLive)
<1> SUFFICES ASSUME Operations = {} PROVE Spec => AllocationSparesLive
  OBVIOUS
<1>1. ASSUME IInv, [Next]_vars, pc = "alloc", mem' # mem
      PROVE  \A a \in Live : mem'[a] = mem[a]
  <2>1. Bump
    BY <1>1 DEF Next, ProgramStep, PushImmediate, LoadSlot, Pop, LoadElement, VectorSet, Define,
       VectorRef, PushReturnAddress, CreateHandle, DuplicateHandle, DestroyHandle, RetargetHandle,
       CallVector, CallBox, Program, HandleStep, Allocate, HeapStep, NextBucket, StartCollection,
       Mark, ScanAstray, StartReclaim, Reclaim, StartUnmark, Unmark, FinishCollection, Halted, vars,
       memVars
  <2>2. PICK S \in SUBSET Addr : Sound(S) /\ Holds(S)
    BY <1>1, SoundHolds DEF IInv, ProgramInv, ReachInv
  <2>3. Live \subseteq Allocated /\ Live \subseteq Addr
    BY <2>2 DEF Live, Sound, Whole
  <2>4. NewCells \cap Allocated = {}
    BY <1>1, <2>1, NewCellsAre DEF Bump, IInv, ProgramInv
  <2> QED BY <2>1, <2>3, <2>4 DEF Bump
<1>2. IInv /\ [Next]_vars => [pc = "alloc" /\ mem' # mem => \A a \in Live : mem'[a] = mem[a]]_vars
  BY <1>1
<1> QED BY <1>2, Invariance, PTL DEF Spec, AllocationSparesLive
-----------------------------------------------------------------------------
(***************************************************************************)
(* The heap of gc.c implements ObjectHeap, for programs that keep no inner *)
(* reference: each step of GcHeap is an allocation, a write, a move or a   *)
(* loss of garbage of ObjectHeap, or no step of it at all.                 *)
(***************************************************************************)

\* What stands for the variable store of ObjectHeap.
Store == [a \in Allocated |-> mem[a]]

-----------------------------------------------------------------------------
(* Values, and the roots they make.                                        *)

LEMMA GoodUse ==
    ASSUME NEW S, NEW m, NEW v, Good(v, S)
    PROVE  UseValue(m, v) = IF v.tag = "reference" THEN {v.at} \cap Addr ELSE {}
BY DEF Good, UseValue

\* A value that the program holds leads to nothing but roots.
LEMMA HeldUse ==
    ASSUME NEW S, Sound(S), NEW i \in DOMAIN stack, NEW m
    PROVE  UseValue(m, stack[i]) \subseteq Roots
<1>1. UseValue(m, stack[i]) = UseValue(mem, stack[i])
  BY GoodUse DEF Sound, Whole
<1> QED BY <1>1 DEF Roots

LEMMA RootsWithin ==
    ASSUME NEW X, LexicalEnvironment \in X,
           \A i \in DOMAIN stack' : UseValue(mem', stack'[i]) \subseteq X,
           \A h \in active' : {object'[h]} \cap Addr \subseteq X
    PROVE  Roots' \subseteq X
BY DEF Roots, HandleObjects, LexicalEnvironment

\* The store has the cells of S as the memory does.
LEMMA StoreUses ==
    ASSUME NEW S, Sound(S), TypeOK
    PROVE  \A a \in S : a \in DOMAIN Store /\ Store[a] = mem[a] /\ Uses(Store, a) = Uses(mem, a)
<1> SUFFICES ASSUME NEW a \in S
             PROVE  a \in DOMAIN Store /\ Store[a] = mem[a] /\ Uses(Store, a) = Uses(mem, a)
  OBVIOUS
<1>1. a \in DOMAIN Store /\ a \in DOMAIN mem /\ Store[a] = mem[a]
  BY DEF Sound, Whole, Store, Allocated, TypeOK
<1>2. mem[a].tag # "vector" => UseValue(Store, mem[a]) = UseValue(mem, mem[a])
  BY GoodUse DEF Sound, Whole
<1> QED BY <1>1, <1>2 DEF Uses

LEMMA SoundHoldsInStore ==
    ASSUME NEW S \in SUBSET Addr, Sound(S), TypeOK
    PROVE  S \in SUBSET DOMAIN Store /\ Heap!Holds(S, Store, Roots)
<1>1. Roots \subseteq S /\ \A a \in S : Uses(mem, a) \subseteq S
  BY SoundHolds DEF Holds
<1> QED BY <1>1, StoreUses DEF Heap!Holds

-----------------------------------------------------------------------------
(* The steps.                                                              *)

\* The program comes to hold what every set that holds its reach has.
LEMMA MoveRefines ==
    ASSUME UNCHANGED <<mem, ptr>>,
           \A X \in SUBSET Allocated : Heap!Holds(X, Store, Roots) => Roots' \subseteq X
    PROVE  Heap!Next
<1>1. Store' = Store /\ DOMAIN Store = Allocated
  BY DEF Store, Allocated
<1>2. Heap!Move
  BY <1>1 DEF Heap!Move, Store
<1> QED BY <1>2 DEF Heap!Next

\* What the program finds in an element of an aggregate it holds.
LEMMA ElementReached ==
    ASSUME TypeOK, NEW S \in SUBSET Addr, Sound(S), stack # << >>,
           stack[1].tag = "reference", IsVector(stack[1].at),
           NEW e \in Elements(stack[1].at)
    PROVE  /\ stack[1].at \in Roots /\ e \in Uses(Store, stack[1].at)
           /\ e \in S /\ mem[e].tag # "vector" /\ Uses(Store, e) = UseValue(mem, mem[e])
<1>1. 1 \in DOMAIN stack /\ stack[1].at \in Addr
  BY DEF TypeOK, IsVector
<1>2. stack[1].at \in Roots
  BY <1>1, HeldUse DEF UseValue
<1>3. stack[1].at \in S
  BY <1>1 DEF Sound, Whole, Good
<1>4. e \in Uses(mem, stack[1].at)
  BY <1>1 DEF Uses, Elements, IsVector, TypeOK
<1>5. e \in S /\ mem[e].tag # "vector"
  BY <1>3 DEF Sound, Whole, IsVector
<1>6. Uses(mem, e) = UseValue(mem, mem[e])
  BY <1>5 DEF Uses, TypeOK
<1> QED BY <1>2, <1>3, <1>4, <1>5, <1>6, StoreUses

\* What the program writes, it holds.
LEMMA WriteRefines ==
    ASSUME TypeOK, NEW S \in SUBSET Addr, Sound(S), UNCHANGED <<ptr, object, active>>,
           NEW r \in Roots, NEW e \in S, e \in Uses(Store, r),
           NEW j \in DOMAIN stack, mem' = [mem EXCEPT ![e] = stack[j]],
           \A i \in DOMAIN stack' : \E k \in DOMAIN stack : stack'[i] = stack[k]
    PROVE  Heap!Next
<1>1. e \in Addr /\ mem'[e] = stack[j] /\ \A a \in Addr \ {e} : mem'[a] = mem[a]
  BY DEF TypeOK
<1>2. Allocated' = Allocated /\ Allocated \subseteq Addr /\ e \in Allocated
  BY DEF Allocated, Sound, Whole
<1>3. DOMAIN Store' = DOMAIN Store /\ DOMAIN Store = Allocated
  BY <1>2 DEF Store
<1>4. Store'[e] = stack[j] /\ \A c \in Allocated \ {e} : Store'[c] = Store[c]
  BY <1>1, <1>2 DEF Store
<1>5. Uses(Store', e) \subseteq Roots
  <2>1. stack[j].tag # "vector"
    BY DEF Sound, Whole, Good
  <2>2. Uses(Store', e) = UseValue(Store', stack[j])
    BY <1>2, <1>3, <1>4, <2>1 DEF Uses
  <2> QED BY <2>2, HeldUse
<1>6. Roots' \subseteq Roots
  <2>1. \A i \in DOMAIN stack' : UseValue(mem', stack'[i]) \subseteq Roots
    BY HeldUse
  <2>2. LexicalEnvironment \in Roots /\ \A h \in active' : {object'[h]} \cap Addr \subseteq Roots
    BY DEF Roots, HandleObjects
  <2> QED BY <2>1, <2>2, RootsWithin
<1>7. Heap!Write
  BY <1>3, <1>4, <1>5, <1>6 DEF Heap!Write, Store
<1> QED BY <1>7 DEF Heap!Next

LEMMA HandlesWithin ==
    ASSUME TypeOK, NEW X, \A g \in active : {object[g]} \cap Addr \subseteq X,
           NEW h \in Handles, NEW o, {o} \cap Addr \subseteq X, Handle(h, o)
    PROVE  \A g \in active' : {object'[g]} \cap Addr \subseteq X
<1>1. object \in [Handles -> Addr \cup {Outside}] /\ active \subseteq Handles
  BY DEF TypeOK
<1> QED BY <1>1 DEF Handle

LEMMA ProgramRefines ==
    ASSUME Operations = {}, ProgramInv, ProgramStep
    PROVE  Heap!Next \/ UNCHANGED <<Store, Roots>>
<1> PICK S \in SUBSET Addr : Sound(S)
  BY DEF ProgramInv, ReachInv
<1>1. /\ TypeOK /\ stack \in Seq(Cell) /\ S \subseteq Allocated
      /\ LexicalEnvironment \in Roots
      /\ \A h \in active : {object[h]} \cap Addr \subseteq Roots
      /\ \A i \in DOMAIN stack : \A m : UseValue(m, stack[i]) \subseteq Roots
  BY HeldUse DEF ProgramInv, TypeOK, Sound, Whole, Roots, HandleObjects
\* A step that changes the stack only.
<1>2. ASSUME NEW newStack, Program(newStack), UNCHANGED memVars,
             \A X \in SUBSET Allocated : Heap!Holds(X, Store, Roots) =>
                \A i \in DOMAIN newStack : UseValue(mem, newStack[i]) \subseteq X
      PROVE  Heap!Next
  <2>1. stack' = newStack /\ UNCHANGED <<mem, ptr, object, active>>
    BY <1>2 DEF Program, memVars
  <2>2. ASSUME NEW X \in SUBSET Allocated, Heap!Holds(X, Store, Roots) PROVE Roots' \subseteq X
    <3>1. Roots \subseteq X
      BY <2>2 DEF Heap!Holds
    <3> QED BY <1>1, <1>2, <2>1, <2>2, <3>1, RootsWithin
  <2> QED BY <2>1, <2>2, MoveRefines
\* A step that changes the handles only.
<1>3. ASSUME HandleStep,
             \A X \in SUBSET Allocated : Heap!Holds(X, Store, Roots) =>
                \A h \in active' : {object'[h]} \cap Addr \subseteq X
      PROVE  Heap!Next
  <2>1. UNCHANGED <<mem, ptr, stack>>
    BY <1>3 DEF HandleStep, memVars
  <2>2. ASSUME NEW X \in SUBSET Allocated, Heap!Holds(X, Store, Roots) PROVE Roots' \subseteq X
    <3>1. Roots \subseteq X
      BY <2>2 DEF Heap!Holds
    <3> QED BY <1>1, <1>3, <2>1, <2>2, <3>1, RootsWithin
  <2> QED BY <2>1, <2>2, MoveRefines
<1>4. ASSUME NEW X, Heap!Holds(X, Store, Roots)
      PROVE  Roots \subseteq X /\ \A a \in X : Uses(Store, a) \subseteq X
  BY <1>4 DEF Heap!Holds
<1>5. CASE PushImmediate
  <2>1. Program(<<Value>> \o stack) /\ UNCHANGED memVars
    BY <1>5 DEF PushImmediate
  <2>2. UseValue(mem, Value) = {}
    BY DEF UseValue, Value
  <2>3. \A i \in DOMAIN (<<Value>> \o stack) : UseValue(mem, (<<Value>> \o stack)[i]) \subseteq Roots
    <3> SUFFICES ASSUME NEW i \in DOMAIN (<<Value>> \o stack)
                 PROVE  UseValue(mem, (<<Value>> \o stack)[i]) \subseteq Roots
      OBVIOUS
    <3>1. (<<Value>> \o stack)[i] = IF i = 1 THEN Value ELSE stack[i - 1]
      BY <1>1
    <3>2. i # 1 => i - 1 \in DOMAIN stack
      BY <1>1
    <3> QED BY <1>1, <2>2, <3>1, <3>2
  <2> QED BY <1>2, <1>4, <2>1, <2>3
<1>6. CASE LoadSlot
  <2>1. PICK k \in DOMAIN stack : Program(<<stack[k]>> \o stack) /\ UNCHANGED memVars
    BY <1>6 DEF LoadSlot
  <2>2. \A i \in DOMAIN (<<stack[k]>> \o stack) : \E l \in DOMAIN stack : (<<stack[k]>> \o stack)[i] = stack[l]
    <3> SUFFICES ASSUME NEW i \in DOMAIN (<<stack[k]>> \o stack)
                 PROVE  \E l \in DOMAIN stack : (<<stack[k]>> \o stack)[i] = stack[l]
      OBVIOUS
    <3>1. (<<stack[k]>> \o stack)[i] = IF i = 1 THEN stack[k] ELSE stack[i - 1]
      BY <1>1
    <3>2. i # 1 => i - 1 \in DOMAIN stack
      BY <1>1
    <3> QED BY <3>1, <3>2
  <2>3. \A i \in DOMAIN (<<stack[k]>> \o stack) : UseValue(mem, (<<stack[k]>> \o stack)[i]) \subseteq Roots
    BY <1>1, <2>2
  <2> QED BY <1>2, <1>4, <2>1, <2>3
\* What is left on the stack when its top is taken off was there.
<1>7. stack # << >> =>
         \A i \in DOMAIN Tail(stack) : i + 1 \in DOMAIN stack /\ Tail(stack)[i] = stack[i + 1]
  BY <1>1
<1>8. CASE Pop
  <2>1. Program(Tail(stack)) /\ UNCHANGED memVars /\ stack # << >>
    BY <1>8 DEF Pop
  <2>2. \A i \in DOMAIN Tail(stack) : UseValue(mem, Tail(stack)[i]) \subseteq Roots
    BY <1>1, <1>7, <2>1
  <2> QED BY <1>2, <1>4, <2>1, <2>2
<1>9. CASE LoadElement
  <2>1. /\ stack # << >> /\ stack[1].tag = "reference" /\ IsVector(stack[1].at)
        /\ UNCHANGED memVars
    BY <1>9 DEF LoadElement
  <2>2. PICK e \in Elements(stack[1].at) : Program(<<mem[e]>> \o Tail(stack))
    BY <1>9 DEF LoadElement
  <2>3. /\ stack[1].at \in Roots /\ e \in Uses(Store, stack[1].at)
        /\ Uses(Store, e) = UseValue(mem, mem[e])
    BY <1>1, <2>1, ElementReached
  <2> DEFINE new == <<mem[e]>> \o Tail(stack)
  <2>4. \A i \in DOMAIN new : i # 1 => \E k \in DOMAIN stack : new[i] = stack[k]
    <3> SUFFICES ASSUME NEW i \in DOMAIN new, i # 1
                 PROVE  \E k \in DOMAIN stack : new[i] = stack[k]
      OBVIOUS
    <3>1. new[i] = stack[i] /\ i \in DOMAIN stack
      BY <1>1, <2>1
    <3> QED BY <3>1
  <2>5. new[1] = mem[e]
    BY <1>1, <2>1
  <2> HIDE DEF new
  <2>6. ASSUME NEW X \in SUBSET Allocated, Heap!Holds(X, Store, Roots), NEW i \in DOMAIN new
        PROVE  UseValue(mem, new[i]) \subseteq X
    <3>1. Roots \subseteq X /\ UseValue(mem, mem[e]) \subseteq X
      BY <1>4, <2>3, <2>6
    <3> QED BY <1>1, <2>4, <2>5, <3>1
  <2>7. Program(new)
    BY <2>2 DEF new
  <2> QED BY <1>2, <2>1, <2>6, <2>7
<1>10. CASE VectorSet
  <2>1. /\ stack # << >> /\ 2 \in DOMAIN stack /\ stack[1].tag = "reference"
        /\ IsVector(stack[1].at) /\ UNCHANGED ptr
    BY <1>1, <1>10 DEF VectorSet
  <2>2. stack' = Tail(stack) /\ UNCHANGED <<object, active>>
    BY <1>10 DEF VectorSet, Program
  <2>3. PICK e \in Elements(stack[1].at) : mem' = [mem EXCEPT ![e] = stack[2]]
    BY <1>10 DEF VectorSet
  <2>4. stack[1].at \in Roots /\ e \in Uses(Store, stack[1].at) /\ e \in S
    BY <1>1, <2>1, ElementReached
  <2>5. \A i \in DOMAIN stack' : \E k \in DOMAIN stack : stack'[i] = stack[k]
    BY <1>7, <2>1, <2>2
  <2> QED BY <1>1, <2>1, <2>2, <2>3, <2>4, <2>5, WriteRefines
<1>11. CASE Define
  <2> DEFINE e == Plus(LexicalEnvironment, 1)
  <2>1. /\ stack' = stack /\ 1 \in DOMAIN stack /\ mem' = [mem EXCEPT ![e] = stack[1]]
        /\ UNCHANGED <<ptr, object, active>>
    BY <1>1, <1>11 DEF Define, Program
  <2>2. /\ LexicalEnvironment \in S /\ mem[LexicalEnvironment].tag = "vector"
        /\ mem[LexicalEnvironment].count = 1
    BY DEF Sound, Whole, Header
  <2>3. e \in Elements(LexicalEnvironment)
    BY <2>2 DEF Elements
  <2>4. e \in S
    BY <2>2, <2>3 DEF Sound, Whole
  <2>5. Uses(Store, LexicalEnvironment) = Elements(LexicalEnvironment)
    BY <1>1, <2>2, StoreUses DEF Uses, Elements, TypeOK, Sound, Whole, Allocated
  <2> HIDE DEF e
  <2> QED BY <1>1, <2>1, <2>3, <2>4, <2>5, WriteRefines
<1>12. CASE VectorRef \/ PushReturnAddress
  BY <1>12 DEF VectorRef, PushReturnAddress
<1>13. CASE CreateHandle
  <2>1. PICK h \in Handles : Handle(h, stack[1].at)
    BY <1>13 DEF CreateHandle
  <2>2. 1 \in DOMAIN stack /\ stack[1].tag = "reference"
    BY <1>1, <1>13 DEF CreateHandle
  <2>3. {stack[1].at} \cap Addr \subseteq Roots
    BY <1>1, <2>2 DEF UseValue
  <2>4. \A g \in active' : {object'[g]} \cap Addr \subseteq Roots
    BY <1>1, <2>1, <2>3, HandlesWithin
  <2> QED BY <1>3, <1>4, <1>13, <2>4 DEF CreateHandle
<1>14. CASE DuplicateHandle
  <2>1. PICK h \in Handles, from \in active : Handle(h, object[from])
    BY <1>14 DEF DuplicateHandle
  <2>2. \A g \in active' : {object'[g]} \cap Addr \subseteq Roots
    BY <1>1, <2>1, HandlesWithin DEF TypeOK
  <2> QED BY <1>3, <1>4, <1>14, <2>2 DEF DuplicateHandle
<1>15. CASE DestroyHandle
  <2>1. PICK h \in active : object' = [object EXCEPT ![h] = Outside] /\ active' = active \ {h}
    BY <1>15 DEF DestroyHandle
  <2>2. \A g \in active' : {object'[g]} \cap Addr \subseteq Roots
    BY <1>1, <2>1 DEF TypeOK
  <2> QED BY <1>3, <1>4, <1>15, <2>2 DEF DestroyHandle
<1>16. CASE RetargetHandle
  <2>1. stack # << >> /\ stack[1].tag = "reference" /\ IsVector(stack[1].at) /\ active' = active
    BY <1>16 DEF RetargetHandle
  <2>2. PICK h \in active, e \in Elements(stack[1].at) : object' = [object EXCEPT ![h] = e]
    BY <1>16 DEF RetargetHandle
  <2>3. stack[1].at \in Roots /\ e \in Uses(Store, stack[1].at)
    BY <1>1, <2>1, ElementReached
  <2>4. ASSUME NEW X \in SUBSET Allocated, Heap!Holds(X, Store, Roots), NEW g \in active'
        PROVE  {object'[g]} \cap Addr \subseteq X
    <3>1. Roots \subseteq X /\ e \in X
      BY <1>4, <2>3, <2>4
    <3> QED BY <1>1, <2>1, <2>2, <2>4, <3>1 DEF TypeOK
  <2> QED BY <1>3, <1>16, <2>4 DEF RetargetHandle
<1>17. CASE CallVector \/ CallBox
  BY <1>17 DEF CallVector, CallBox, Allocate, memVars, rootVars, Store, Allocated, Roots, HandleObjects,
     UseValue, LexicalEnvironment, Plus
<1> QED BY <1>5, <1>6, <1>8, <1>9, <1>10, <1>11, <1>12, <1>13, <1>14, <1>15, <1>16, <1>17
        DEF ProgramStep

\* Bump makes new cells, which lead to one another and to what was held.
LEMMA BumpRefines ==
    ASSUME ProgramInv, Bump
    PROVE  Heap!Next
<1> PICK S \in SUBSET Addr : Sound(S)
  BY DEF ProgramInv, ReachInv
<1> DEFINE n == request.count
<1>1. /\ TypeOK /\ RequestInv /\ pc = "alloc" /\ Fits /\ Root
      /\ ptr' = [ptr EXCEPT ![current] = @ + Size]
      /\ mem' = [a \in Addr |-> IF a \in NewCells THEN Contents(a[2] - ptr[current]) ELSE mem[a]]
  BY DEF Bump, ProgramInv
<1>2. /\ NewCells \subseteq Addr /\ NewCells \cap Allocated = {}
      /\ Allocated' = Allocated \cup NewCells
      /\ NewObject \in NewCells /\ n \in Nat
      /\ \A a \in NewCells : /\ a[1] = current /\ a[2] - ptr[current] \in 0 .. n
                             /\ a = Plus(NewObject, a[2] - ptr[current])
      /\ \A k \in 1 .. n : Plus(NewObject, k) \in NewCells
  BY <1>1, NewCellsAre, RequestSize
<1>3. /\ stack \in Seq(Cell) /\ \A i \in DOMAIN stack : Good(stack[i], S)
      /\ \A i \in DOMAIN stack : \A m : UseValue(m, stack[i]) \subseteq Roots
      /\ LexicalEnvironment \in Roots
      /\ \A h \in active : {object[h]} \cap Addr \subseteq Roots
      /\ Allocated \subseteq Addr
  BY <1>1, HeldUse DEF TypeOK, Sound, Whole, Roots, HandleObjects, Allocated
<1>4. \/ request.op = "vector" /\ n <= Len(stack)
      \/ request.op = "box" /\ n = 0 /\ stack # << >>
  BY <1>1 DEF RequestInv
<1>5. DOMAIN Store = Allocated /\ DOMAIN Store' = Allocated'
  BY DEF Store
<1>6. \A a \in Allocated : Store'[a] = Store[a]
  BY <1>1, <1>2, <1>3 DEF Store
<1>7. ASSUME NEW a \in NewCells PROVE Uses(Store', a) \subseteq Roots \cup NewCells
  <2>1. PICK k \in 0 .. n : k = a[2] - ptr[current] /\ a = Plus(NewObject, k)
    BY <1>2
  <2>2. a \in DOMAIN Store' /\ Store'[a] = Contents(k)
    BY <1>1, <1>2, <1>5, <2>1 DEF Store
  <2>3. CASE request.op = "vector" /\ k = 0
    <3>1. Store'[a].tag = "vector" /\ Store'[a].count = n
      BY <2>2, <2>3 DEF Contents, Header
    <3>2. a = NewObject
      BY <1>1, <2>1, <2>3 DEF Plus, NewObject, TypeOK
    <3> QED BY <1>2, <2>2, <3>1, <3>2 DEF Uses
  <2>4. CASE ~(request.op = "vector" /\ k = 0)
    <3>1. \E i \in DOMAIN stack : Contents(k) = stack[i]
      <4>1. CASE request.op = "vector" /\ n <= Len(stack)
        <5>1. k \in DOMAIN stack
          BY <1>2, <1>3, <2>4, <4>1
        <5> QED BY <2>4, <4>1, <5>1 DEF Contents
      <4>2. CASE request.op = "box" /\ stack # << >>
        <5>1. 1 \in DOMAIN stack
          BY <1>3, <4>2
        <5> QED BY <4>2, <5>1 DEF Contents
      <4> QED BY <1>4, <4>1, <4>2
    <3>2. PICK i \in DOMAIN stack : Contents(k) = stack[i]
      BY <3>1
    <3>3. Uses(Store', a) = UseValue(Store', stack[i])
      BY <1>3, <2>2, <3>2 DEF Uses, Good
    <3> QED BY <1>3, <3>3
  <2> QED BY <2>3, <2>4
<1>8. Roots' \subseteq Roots \cup NewCells
  <2>1. CASE request.op = "vector" /\ n <= Len(stack)
    <3> DEFINE rest == SubSeq(stack, n + 1, Len(stack))
    <3>1. stack' = <<Reference(NewObject)>> \o rest /\ UNCHANGED <<object, active>>
      BY <1>1, <2>1 DEF Root
    <3>2. /\ rest \in Seq(Cell)
          /\ \A i \in DOMAIN rest : n + i \in DOMAIN stack /\ rest[i] = stack[n + i]
      <4>1. /\ rest \in Seq(Cell) /\ DOMAIN rest = 1 .. Len(stack) - n
            /\ \A i \in DOMAIN rest : rest[i] = stack[n + i]
        BY <1>2, <1>3, <2>1, SubSeqProperties, SMTT(30)
      <4> HIDE DEF rest
      <4> QED BY <1>2, <1>3, <4>1
    <3> HIDE DEF rest
    <3>3. ASSUME NEW i \in DOMAIN stack' PROVE UseValue(mem', stack'[i]) \subseteq Roots \cup NewCells
      <4>1. CASE i = 1
        <5>1. stack'[i] = Reference(NewObject)
          BY <3>1, <3>2, <4>1
        <5>2. UseValue(mem', Reference(NewObject)) \subseteq {NewObject}
          BY DEF UseValue, Reference
        <5> QED BY <1>2, <5>1, <5>2
      <4>2. CASE i # 1
        <5>1. stack'[i] = rest[i - 1] /\ i - 1 \in DOMAIN rest
          BY <3>1, <3>2, <4>2
        <5> QED BY <1>3, <3>2, <5>1
      <4> QED BY <4>1, <4>2
    <3> QED BY <1>3, <3>1, <3>3, RootsWithin
  <2>2. CASE request.op = "box"
    <3>1. PICK h \in Handles : Handle(h, NewObject) /\ stack' = stack
      BY <1>1, <2>2 DEF Root
    <3>2. PICK X : X = Roots \cup NewCells
      OBVIOUS
    <3>3. {NewObject} \subseteq X /\ \A g \in active : {object[g]} \cap Addr \subseteq X
      BY <1>2, <1>3, <3>2
    <3>4. \A g \in active' : {object'[g]} \cap Addr \subseteq X
      BY <1>1, <3>1, <3>3, HandlesWithin
    <3> QED BY <1>3, <3>1, <3>2, <3>4, RootsWithin
  <2> QED BY <1>4, <2>1, <2>2
<1>9. Heap!Allocate
  <2>1. DOMAIN Store' \ DOMAIN Store = NewCells
    BY <1>2, <1>5
  <2>2. DOMAIN Store \subseteq DOMAIN Store' /\ DOMAIN Store' \subseteq Addr
    BY <1>2, <1>3, <1>5
  <2> QED BY <1>5, <1>6, <1>7, <1>8, <2>1, <2>2 DEF Heap!Allocate, Store
<1> QED BY <1>9 DEF Heap!Next

\* A bucket is reclaimed when nothing reachable is in it.
LEMMA ReclaimRefines ==
    ASSUME ProgramInv, ReachInv', Reclaim
    PROVE  Heap!Next
<1>1. TypeOK /\ UNCHANGED <<mem, rootVars>>
  BY DEF ProgramInv, Reclaim
<1>2. Roots' = Roots
  BY <1>1 DEF rootVars, Roots, HandleObjects, UseValue, LexicalEnvironment, Plus
<1>3. Allocated' \subseteq Allocated
  <2>1. \A b \in Buckets : ptr[b] \in Nat /\ ptr'[b] \in {0, ptr[b]}
    BY <1>1 DEF Reclaim, ReclaimBucket, TypeOK
  <2> QED BY <2>1, Sizes DEF Allocated, Addr, Buckets
<1>4. PICK S \in SUBSET Addr : Sound(S)'
  BY DEF ReachInv
<1>5. Sound(S)
  BY <1>1, <1>3, <1>4 DEF Sound, Whole, Elements, rootVars
<1>6. S \in SUBSET DOMAIN Store' /\ Heap!Holds(S, Store, Roots)
  BY <1>1, <1>4, <1>5, SoundHoldsInStore DEF Sound, Whole, Store
<1>7. DOMAIN Store' \subseteq DOMAIN Store /\ \A a \in DOMAIN Store' : Store'[a] = Store[a]
  BY <1>1, <1>3 DEF Store
<1>8. Heap!Forget
  BY <1>2, <1>6, <1>7 DEF Heap!Forget, Store
<1> QED BY <1>8 DEF Heap!Next

-----------------------------------------------------------------------------

LEMMA InitRefines == Init => Heap!Init
<1> SUFFICES ASSUME Init PROVE Heap!Init
  OBVIOUS
<1>1. PICK S \in SUBSET Addr : Sound(S) /\ TypeOK
  BY ProgramInvInit DEF ProgramInv, ReachInv
<1>2. S \in SUBSET DOMAIN Store /\ Heap!Holds(S, Store, Roots)
  BY <1>1, SoundHoldsInStore
<1>3. DOMAIN Store \subseteq Addr /\ Roots \subseteq Addr
  BY <1>2 DEF Store, Allocated, Heap!Holds
<1> QED BY <1>2, <1>3 DEF Heap!Init, Heap!NothingDangles, Store

LEMMA StepRefines ==
    Operations = {} /\ IInv /\ [Next]_vars => [Heap!Next]_(Heap!vars)
<1> SUFFICES ASSUME Operations = {}, IInv, [Next]_vars
             PROVE  Heap!Next \/ UNCHANGED <<Store, Roots>>
  BY DEF Heap!vars, Store
<1>1. ProgramInv /\ ReachInv'
  BY IInvStep DEF IInv, ProgramInv
<1>2. CASE ProgramStep
  BY <1>1, <1>2, ProgramRefines
<1>3. CASE Bump
  BY <1>1, <1>3, BumpRefines
<1>4. CASE Reclaim
  BY <1>1, <1>4, ReclaimRefines
<1>5. CASE \/ NextBucket \/ StartCollection \/ Mark \/ ScanAstray \/ StartReclaim
           \/ StartUnmark \/ Unmark \/ FinishCollection \/ Halted \/ UNCHANGED vars
  <2>1. UNCHANGED <<mem, ptr, stack, object, active>>
    BY <1>5 DEF NextBucket, StartCollection, Mark, ScanAstray, StartReclaim, StartUnmark, Unmark,
       FinishCollection, Halted, vars, memVars, rootVars
  <2> QED BY <2>1 DEF Store, Allocated, Roots, HandleObjects, UseValue, LexicalEnvironment, Plus
<1> QED BY <1>2, <1>3, <1>4, <1>5 DEF Next, HeapStep

\* gc.c implements a heap that loses nothing the program can reach and changes no
\* object but the one that is written to (ObjectHeap), whatever its sizes.
THEOREM HeapImplementsObjectHeap == Operations = {} => (Spec => ImplementsObjectHeap)
<1> SUFFICES ASSUME Operations = {} PROVE Spec => ImplementsObjectHeap
  OBVIOUS
<1>1. IInv /\ [Next]_vars => [Heap!Next]_(Heap!vars)
  BY StepRefines
<1> QED BY <1>1, InitRefines, Invariance, PTL DEF Spec, ImplementsObjectHeap, Heap!Spec
-----------------------------------------------------------------------------
(***************************************************************************)
(* The collector of MachineHeap scans slots never set, or left by earlier  *)
(* frames.  Until it comes to one that leads into memory taken back since, *)
(* it stays with objects, clears their flags and keeps all that the        *)
(* program can reach from the slots it has set.                            *)
(***************************************************************************)
\* A step of the machine is one of GcHeap, one that changes the stack of a
\* program, or the end of what is known of it, at a slot.
LEMMA MachineStep ==
    ASSUME [MachineNext]_machineVars
    PROVE  \/ [Next]_vars
           \/ UNCHANGED <<memVars, allocVars, gcVars, pc>> /\ pc = "program"
           \/ /\ UNCHANGED <<memVars, rootVars, allocVars, gcVars>>
              /\ pc \in {"alloc", "mark"} /\ pc' \in {"halted", "astray"}
<1>1. CASE ReserveLocals
  BY <1>1 DEF ReserveLocals, Program
<1>2. CASE StoreSlot
  BY <1>2 DEF StoreSlot, Program
<1>3. CASE LoadSetSlot
  BY <1>3 DEF LoadSetSlot, Program
<1>4. CASE PushImmediate \/ Pop \/ LoadElement \/ Define \/ VectorSet
  BY <1>4 DEF Next, ProgramStep
<1>5. ASSUME NEW n \in 0 .. MaxCount, n <= Len(stack), n = 0 => Len(stack) < MaxStack, Allocate("vector", n)
      PROVE  Next
  BY <1>5 DEF Next, ProgramStep, CallVector
<1>6. MachineProgram =>
          \/ ReserveLocals \/ StoreSlot \/ LoadSetSlot
          \/ PushImmediate \/ Pop \/ LoadElement \/ Define \/ VectorSet
          \/ \E n \in 0 .. MaxCount : /\ n <= Len(stack) /\ (n = 0 => Len(stack) < MaxStack)
                                      /\ Allocate("vector", n)
  BY DEF MachineProgram, Operands
<1>7. CASE MachineProgram
  BY <1>1, <1>2, <1>3, <1>4, <1>5, <1>6, <1>7
<1>8. CASE BreakOnSlot \/ ScanStale
  BY <1>8 DEF BreakOnSlot, ScanStale
<1>9. CASE MachineHeapStep /\ ~(BreakOnSlot \/ ScanStale)
  BY <1>9 DEF MachineHeapStep, MachineReclaim, StartScan, MarkedRoots, Next, HeapStep
<1>10. CASE MachineHalted \/ UNCHANGED machineVars
  BY <1>10 DEF MachineHalted, Next, machineVars
<1> QED BY <1>7, <1>8, <1>9, <1>10 DEF MachineNext

LEMMA MachineFlagInv == FlagInv /\ [MachineNext]_machineVars => FlagInv'
<1> SUFFICES ASSUME FlagInv, [MachineNext]_machineVars PROVE FlagInv'
  OBVIOUS
<1>1. CASE [Next]_vars
  BY <1>1, FlagInvStep
<1>2. CASE UNCHANGED <<memVars, allocVars, gcVars, pc>> /\ pc = "program"
  BY <1>2 DEF gcVars, FlagInv
<1>3. CASE pc' \in {"halted", "astray"}
  BY <1>3 DEF FlagInv
<1> QED BY <1>1, <1>2, <1>3, MachineStep

\* Every flag that a collection sets is cleared before the program goes on: what
\* it flagged are objects (MachineScansObjects), also out of slots never set.
THEOREM MachineFlagsAreCleared == MachineSpec => []FlagsCleared
<1>1. MachineInit => FlagInv
  BY FlagInvInit DEF MachineInit
<1>2. FlagInv => FlagsCleared
  BY DEF FlagInv, FlagsCleared
<1> QED BY <1>1, <1>2, MachineFlagInv, PTL DEF MachineSpec

LEMMA MachineFreeListInv == FreeListInv /\ [MachineNext]_machineVars => FreeListInv'
<1> SUFFICES ASSUME FreeListInv, [MachineNext]_machineVars PROVE FreeListInv'
  OBVIOUS
<1>1. CASE [Next]_vars
  BY <1>1, FreeListInvStep
<1>2. CASE /\ UNCHANGED <<memVars, allocVars, gcVars>>
           /\ pc' = pc \/ (pc \in {"alloc", "mark"} /\ pc' \in {"halted", "astray"})
  BY <1>2 DEF memVars, allocVars, gcVars, FreeListInv
<1> QED BY <1>1, <1>2, MachineStep

\* What slots that were not set lead the collector to does not make it put a bucket
\* in the free list twice, or one that is in use.
THEOREM MachineFreeListIsSound == MachineSpec => []FreeListSound
<1>1. MachineInit => FreeListInv
  BY FreeListInvInit DEF MachineInit
<1>2. FreeListInv => FreeListSound
  BY DEF FreeListInv, FreeListSound, NoDuplicates
<1> QED BY <1>1, <1>2, MachineFreeListInv, PTL DEF MachineSpec

-----------------------------------------------------------------------------
(* Reachable memory is kept.                                               *)

\* The slots of the stack are the memory below its top.
SlotsInv ==
    /\ slots \in [1 .. MaxStack -> Cell] /\ Len(stack) <= MaxStack
    /\ \A p \in 1 .. Len(stack) : slots[p] = stack[Len(stack) - p + 1]
    /\ unset \subseteq 1 .. Len(stack)

NoHandles == active = {}

\* The slots that were set lead to S.
SetGood(S) == \A p \in (1 .. Len(stack)) \ unset : Good(slots[p], S)

\* So do the leftovers, until the memory they lead into is taken back.
LeftGood(S) == \A p \in (1 .. MaxStack) \ stale : slots[p].tag = "invalid" \/ Good(slots[p], S)

\* S is all that the machine may still come to.
Leads(S) == Whole(S) /\ SetGood(S) /\ LeftGood(S) /\ flag \cup pending \subseteq S

MachineReachInv == \E S \in SUBSET Addr : Leads(S)

\* The values of the object that is allocated are in slots that were set.
OperandsInv ==
    pc # "program" =>
        /\ request.op = "vector"
        /\ \A p \in Len(stack) - request.count + 1 .. Len(stack) : p \notin unset
        /\ request.count = 0 => Len(stack) < MaxStack

MachineInv ==
    /\ TypeOK /\ RequestInv /\ SlotsInv /\ NoHandles /\ MachineReachInv /\ OperandsInv
    /\ FlagInv /\ FreeListInv /\ CostInv

LEMMA MachineInvInit == MachineInit => MachineInv
<1> SUFFICES ASSUME MachineInit PROVE MachineInv
  OBVIOUS
<1>1. Init /\ slots = [i \in 1 .. MaxStack |-> Invalid] /\ unset = {} /\ stale = {}
  BY DEF MachineInit
<1>2. /\ TypeOK /\ RequestInv /\ FlagInv /\ FreeListInv /\ CostInv
      /\ pc = "program" /\ stack = << >> /\ active = {} /\ flag = {} /\ pending = {}
  BY <1>1, IInvInit DEF IInv, ProgramInv, CollectInv, Init
<1>3. PICK S \in SUBSET Addr : Whole(S)
  BY <1>1, ProgramInvInit DEF ProgramInv, ReachInv, Sound
<1>4. SlotsInv
  <2>1. Invalid \in Cell
    BY DEF Invalid, Cell, Tags
  <2> QED BY <1>1, <1>2, <2>1, LocalsAssumption, SizesAssumption DEF SlotsInv
<1>5. LeftGood(S)
  <2>1. \A p \in 1 .. MaxStack : slots[p] = Invalid
    BY <1>1
  <2> QED BY <2>1 DEF LeftGood, Invalid
<1>6. MachineReachInv /\ OperandsInv /\ NoHandles
  BY <1>2, <1>3, <1>5 DEF MachineReachInv, Leads, SetGood, OperandsInv, NoHandles
<1> QED BY <1>2, <1>4, <1>6 DEF MachineInv

\* A step that keeps the n slots at the bottom and pushes values that lead to S.
LEMMA WrittenKeeps ==
    ASSUME SlotsInv, NEW S, stack \in Seq(Cell), stack' \in Seq(Cell), Written,
           NEW n \in Nat, n <= Len(stack), n <= Len(stack'), Len(stack') <= MaxStack,
           \A p \in 1 .. n : stack'[Len(stack') - p + 1] = stack[Len(stack) - p + 1],
           \A p \in n + 1 .. Len(stack') : Good(stack'[Len(stack') - p + 1], S),
           \A p \in (1 .. n) \ unset : Good(slots[p], S), LeftGood(S)
    PROVE  SlotsInv' /\ SetGood(S)' /\ LeftGood(S)'
<1> DEFINE l == Len(stack)
           m == Len(stack')
<1>1. l \in Nat /\ m \in Nat /\ MaxStack \in Nat
  BY SizesAssumption
<1>2. /\ slots' = [i \in 1 .. MaxStack |-> IF i <= m THEN stack'[m - i + 1] ELSE slots[i]]
      /\ unset' = unset \cap 1 .. m
      /\ stale' = stale \ ((1 .. m) \ unset')
  BY DEF Written
<1>3. /\ slots \in [1 .. MaxStack -> Cell] /\ unset \subseteq 1 .. l
      /\ \A p \in 1 .. l : slots[p] = stack[l - p + 1]
  BY DEF SlotsInv
<1>4. \A p \in 1 .. m : m - p + 1 \in DOMAIN stack' /\ stack'[m - p + 1] \in Cell
  BY <1>1
<1>5. \A p \in 1 .. MaxStack : slots'[p] = IF p <= m THEN stack'[m - p + 1] ELSE slots[p]
  BY <1>2
<1> HIDE DEF l, m
<1>6. ASSUME NEW p \in 1 .. MaxStack
      PROVE  slots'[p] \in Cell /\ (slots'[p] = slots[p] \/ Good(slots'[p], S))
  <2>1. CASE p <= n
    <3>1. p \in 1 .. n /\ p \in 1 .. l /\ p <= m
      BY <1>1, <2>1 DEF l, m
    <3>2. stack'[m - p + 1] = stack[l - p + 1]
      BY <3>1 DEF l, m
    <3>3. slots'[p] = slots[p]
      BY <1>3, <1>5, <3>1, <3>2
    <3> QED BY <1>3, <3>3
  <2>2. CASE p > n /\ p <= m
    BY <1>1, <1>4, <1>5, <2>2, SMTT(30) DEF m
  <2>3. CASE p > m
    BY <1>1, <1>3, <1>5, <2>3 DEF m
  <2> QED BY <1>1, <2>1, <2>2, <2>3
<1>7. ASSUME NEW p \in (1 .. m) \ unset' PROVE Good(slots'[p], S)
  <2>1. CASE p <= n
    <3>1. p \notin unset /\ slots'[p] = slots[p]
      BY <1>1, <1>2, <1>3, <1>5, <2>1 DEF l, m
    <3> QED BY <1>1, <2>1, <3>1
  <2>2. CASE p > n
    <3>1. p \in n + 1 .. m /\ p \in 1 .. MaxStack /\ p <= m
      BY <1>1, <2>2 DEF m
    <3>2. slots'[p] = stack'[m - p + 1]
      BY <1>5, <3>1
    <3> QED BY <3>1, <3>2 DEF m
  <2> QED BY <1>1, <2>1, <2>2
<1>8. SlotsInv'
  <2>1. slots' \in [1 .. MaxStack -> Cell]
    BY <1>2, <1>6
  <2>2. \A p \in 1 .. m : slots'[p] = stack'[m - p + 1]
    BY <1>1, <1>5 DEF m
  <2> QED BY <1>1, <1>2, <2>1, <2>2 DEF SlotsInv, m
<1>9. LeftGood(S)'
  <2> SUFFICES ASSUME NEW p \in (1 .. MaxStack) \ stale'
               PROVE  slots'[p].tag = "invalid" \/ Good(slots'[p], S)
    BY DEF LeftGood
  <2>1. p \in stale => p \in (1 .. m) \ unset'
    BY <1>2
  <2> QED BY <1>6, <1>7, <2>1 DEF LeftGood
<1> QED BY <1>7, <1>8, <1>9 DEF SetGood, m

\* The value in a slot that was set.
LEMMA OperandGood ==
    ASSUME SlotsInv, NEW S, SetGood(S), stack \in Seq(Cell), NEW k \in 1 .. Len(stack),
           Slot(k) \notin unset
    PROVE  stack[k] \in Cell /\ Good(stack[k], S)
<1>1. Slot(k) \in 1 .. Len(stack) /\ Len(stack) - Slot(k) + 1 = k
  BY DEF Slot
<1>2. stack[k] = slots[Slot(k)]
  BY <1>1 DEF SlotsInv
<1> QED BY <1>1, <1>2 DEF SetGood

\* rest is the stack s without some values on top.
BottomOf(rest, s) ==
    /\ rest \in Seq(Cell) /\ Len(rest) <= Len(s)
    /\ \A p \in 1 .. Len(rest) : rest[Len(rest) - p + 1] = s[Len(s) - p + 1]

\* What is left of the stack when some values are popped, with or without a value
\* that is pushed in their place.
LEMMA RestKeeps ==
    ASSUME SlotsInv, NEW S, SetGood(S), LeftGood(S), stack \in Seq(Cell), Written,
           NEW rest, BottomOf(rest, stack),
           NEW T, \A v : Good(v, S) => Good(v, T),
           \/ stack' = rest
           \/ \E v \in Cell : Good(v, T) /\ Len(rest) < MaxStack /\ stack' = <<v>> \o rest
    PROVE  stack' \in Seq(Cell) /\ SlotsInv' /\ SetGood(T)' /\ LeftGood(T)'
<1> DEFINE n == Len(rest)
<1>0. /\ rest \in Seq(Cell) /\ n <= Len(stack)
      /\ \A p \in 1 .. n : rest[n - p + 1] = stack[Len(stack) - p + 1]
  BY DEF BottomOf
<1>1. n \in Nat /\ n <= Len(stack) /\ Len(stack) <= MaxStack /\ MaxStack \in Nat
  BY <1>0, SizesAssumption DEF SlotsInv
<1>2. LeftGood(T) /\ \A p \in (1 .. n) \ unset : Good(slots[p], T)
  BY <1>1 DEF SetGood, LeftGood
<1>3. CASE stack' = rest
  <2>1. stack' \in Seq(Cell) /\ n <= Len(stack') /\ Len(stack') <= MaxStack
    BY <1>0, <1>1, <1>3
  <2>2. \A p \in n + 1 .. Len(stack') : FALSE
    BY <1>1, <1>3
  <2>3. \A p \in 1 .. n : stack'[Len(stack') - p + 1] = stack[Len(stack) - p + 1]
    BY <1>0, <1>3
  <2> HIDE DEF n
  <2> QED BY <1>1, <1>2, <2>1, <2>2, <2>3, WrittenKeeps
<1>4. ASSUME NEW v \in Cell, Good(v, T), n < MaxStack, stack' = <<v>> \o rest
      PROVE  /\ stack' \in Seq(Cell) /\ Len(stack') = n + 1 /\ Len(stack') <= MaxStack
             /\ \A p \in 1 .. n : stack'[Len(stack') - p + 1] = stack[Len(stack) - p + 1]
             /\ \A p \in n + 1 .. Len(stack') : Good(stack'[Len(stack') - p + 1], T)
  <2>1. stack' \in Seq(Cell) /\ Len(stack') = n + 1 /\ stack'[1] = v
    BY <1>0, <1>4
  <2>2. ASSUME NEW p \in 1 .. n PROVE stack'[n + 1 - p + 1] = rest[n - p + 1]
    <3>1. n + 1 - p + 1 \in 2 .. n + 1 /\ n - p + 1 = (n + 1 - p + 1) - 1
      BY <1>1
    <3> QED BY <1>0, <1>1, <1>4, <3>1
  <2>3. \A p \in n + 1 .. n + 1 : n + 1 - p + 1 = 1
    BY <1>1
  <2>4. n + 1 <= MaxStack
    BY <1>1, <1>4
  <2>5. ASSUME NEW p \in 1 .. n PROVE stack'[n + 1 - p + 1] = stack[Len(stack) - p + 1]
    BY <1>0, <2>2
  <2>6. ASSUME NEW p \in n + 1 .. n + 1 PROVE Good(stack'[n + 1 - p + 1], T)
    BY <1>4, <2>1, <2>3
  <2> PICK m : m = n + 1
    OBVIOUS
  <2>7. /\ Len(stack') = m /\ m <= MaxStack
        /\ \A p \in 1 .. n : stack'[m - p + 1] = stack[Len(stack) - p + 1]
        /\ \A p \in n + 1 .. m : Good(stack'[m - p + 1], T)
    BY <2>1, <2>4, <2>5, <2>6
  <2> HIDE DEF n
  <2> QED BY <2>1, <2>7
<1>5. CASE \E v \in Cell : Good(v, T) /\ n < MaxStack /\ stack' = <<v>> \o rest
  <2> HIDE DEF n
  <2>1. PICK v \in Cell : Good(v, T) /\ n < MaxStack /\ stack' = <<v>> \o rest
    BY <1>5
  <2>2. /\ stack' \in Seq(Cell) /\ Len(stack') = n + 1 /\ Len(stack') <= MaxStack
        /\ \A p \in 1 .. n : stack'[Len(stack') - p + 1] = stack[Len(stack) - p + 1]
        /\ \A p \in n + 1 .. Len(stack') : Good(stack'[Len(stack') - p + 1], T)
    BY <1>4, <2>1, Zenon
  <2>3. n <= Len(stack')
    BY <1>1, <2>2
  <2> QED BY <1>1, <1>2, <2>2, <2>3, WrittenKeeps
<1> QED BY <1>3, <1>5

LEMMA RestIs ==
    ASSUME NEW s \in Seq(Cell), NEW c \in Nat, c <= Len(s),
           NEW rest, rest = SubSeq(s, c + 1, Len(s)) \/ (c = 1 /\ rest = Tail(s))
    PROVE  BottomOf(rest, s) /\ Len(rest) = Len(s) - c
<1>1. CASE rest = SubSeq(s, c + 1, Len(s))
  <2>1. /\ rest \in Seq(Cell) /\ Len(rest) = Len(s) - c
        /\ \A i \in 1 .. Len(s) - c : rest[i] = s[c + i]
    BY <1>1, SubSeqProperties
  <2>2. \A p \in 1 .. Len(s) - c : /\ Len(s) - c - p + 1 \in 1 .. Len(s) - c
                                  /\ c + (Len(s) - c - p + 1) = Len(s) - p + 1
    OBVIOUS
  <2> QED BY <2>1, <2>2, SMTT(30) DEF BottomOf
<1>2. CASE c = 1 /\ rest = Tail(s)
  <2>1. rest \in Seq(Cell) /\ Len(rest) = Len(s) - 1
    BY <1>2
  <2>2. ASSUME NEW p \in 1 .. Len(s) - 1 PROVE rest[Len(s) - 1 - p + 1] = s[Len(s) - p + 1]
    <3>1. Len(s) - 1 - p + 1 \in 1 .. Len(s) - 1 /\ Len(s) - 1 - p + 1 + 1 = Len(s) - p + 1
      OBVIOUS
    <3> QED BY <1>2, <3>1
  <2> QED BY <1>2, <2>1, <2>2 DEF BottomOf
<1> QED BY <1>1, <1>2

-----------------------------------------------------------------------------
(* The steps of the program.                                               *)

MachinePart ==
    TypeOK /\ RequestInv /\ SlotsInv /\ NoHandles /\ MachineReachInv /\ OperandsInv /\ CostInv

\* The program moves values about, or writes one in an element of an object.
LEMMA MachineMoveKeeps ==
    ASSUME MachinePart, pc = "program", UNCHANGED <<object, active, idle, pc, allocVars, gcVars>>,
           NEW S \in SUBSET Addr, Whole(S), flag \cup pending \subseteq S,
           stack' \in Seq(Cell), SlotsInv', SetGood(S)', LeftGood(S)',
           \/ UNCHANGED memVars
           \/ /\ UNCHANGED <<ptr, freeList, current>>
              /\ \E e \in S, v \in Cell : /\ mem[e].tag # "vector" /\ Good(v, S)
                                         /\ mem' = [mem EXCEPT ![e] = v]
    PROVE  MachinePart'
<1>1. TypeOK /\ RequestInv /\ NoHandles /\ CostInv
  BY DEF MachinePart
<1>2. mem' \in [Addr -> Cell] /\ UNCHANGED <<ptr, freeList, current>>
  BY <1>1 DEF TypeOK, memVars
<1>3. TypeOK'
  BY <1>1, <1>2 DEF TypeOK, allocVars, gcVars
<1>4. RequestInv' /\ OperandsInv' /\ CostInv'
  BY <1>1 DEF RequestInv, OperandsInv, CostInv
<1>5. Whole(S)'
  <2>1. CASE UNCHANGED memVars
    BY <2>1 DEF memVars, Whole, Allocated, Elements
  <2>2. CASE \E e \in S, v \in Cell : /\ mem[e].tag # "vector" /\ Good(v, S)
                                      /\ mem' = [mem EXCEPT ![e] = v]
    BY <1>1, <1>2, <2>2, WriteKeepsWhole
  <2> QED BY <2>1, <2>2
<1>6. NoHandles' /\ flag' \cup pending' \subseteq S
  BY <1>1 DEF NoHandles, gcVars
<1> QED BY <1>3, <1>4, <1>5, <1>6 DEF MachinePart, MachineReachInv, Leads

\* An aggregate that a slot which was set refers to: its elements.
LEMMA MachineElements ==
    ASSUME TypeOK, NEW S \in SUBSET Addr, Whole(S), NEW v, Good(v, S),
           v.tag = "reference", IsVector(v.at)
    PROVE  \A e \in Elements(v.at) :
              e \in S /\ mem[e] \in Cell /\ mem[e].tag # "vector" /\ Good(mem[e], S)
<1>1. v.at \in S /\ mem[v.at].tag = "vector"
  BY DEF Good, IsVector
<1>2. ASSUME NEW e \in Elements(v.at) PROVE e \in S /\ mem[e].tag # "vector"
  BY <1>1 DEF Whole
<1>3. ASSUME NEW e \in S, mem[e].tag # "vector" PROVE Good(mem[e], S)
  BY <1>3 DEF Whole
<1> QED BY <1>2, <1>3 DEF TypeOK

\* An instruction that pops c values and may push one that leads to S.
LEMMA MachineStackStep ==
    ASSUME MachinePart, NEW S \in SUBSET Addr, Whole(S), SetGood(S), LeftGood(S),
           flag \cup pending \subseteq S, Written,
           NEW newStack, Program(newStack), NEW rest, BottomOf(rest, stack),
           \/ newStack = rest
           \/ \E v \in Cell : Good(v, S) /\ Len(rest) < MaxStack /\ newStack = <<v>> \o rest,
           \/ UNCHANGED memVars
           \/ /\ UNCHANGED <<ptr, freeList, current>>
              /\ \E e \in S, v \in Cell : /\ mem[e].tag # "vector" /\ Good(v, S)
                                         /\ mem' = [mem EXCEPT ![e] = v]
    PROVE  MachinePart'
<1>1. /\ pc = "program" /\ stack' = newStack /\ stack \in Seq(Cell) /\ SlotsInv
      /\ UNCHANGED <<object, active, idle, pc, allocVars, gcVars>>
  BY DEF Program, MachinePart, TypeOK
<1>2. stack' \in Seq(Cell) /\ SlotsInv' /\ SetGood(S)' /\ LeftGood(S)'
  BY <1>1, RestKeeps
<1> QED BY <1>1, <1>2, MachineMoveKeeps

LEMMA OperandIsGood ==
    ASSUME MachinePart, NEW S, SetGood(S), NEW n \in Nat, Operands(n), NEW k \in 1 .. n
    PROVE  k \in 1 .. Len(stack) /\ stack[k] \in Cell /\ Good(stack[k], S)
<1>1. stack \in Seq(Cell) /\ SlotsInv /\ n <= Len(stack) /\ Slot(k) \notin unset
  BY DEF MachinePart, TypeOK, Operands
<1>2. k \in 1 .. Len(stack)
  BY <1>1
<1> QED BY <1>1, <1>2, OperandGood

LEMMA MachineDataKeeps ==
    ASSUME MachinePart, Written,
           \/ PushImmediate \/ LoadSetSlot \/ Pop
           \/ Operands(1) /\ (LoadElement \/ Define)
           \/ Operands(2) /\ VectorSet
    PROVE  MachinePart'
<1> PICK S \in SUBSET Addr : Whole(S) /\ SetGood(S) /\ LeftGood(S) /\ flag \cup pending \subseteq S
  BY DEF MachinePart, MachineReachInv, Leads
<1>1. TypeOK /\ SlotsInv /\ stack \in Seq(Cell) /\ Len(stack) \in Nat /\ Len(stack) <= MaxStack
      /\ MaxStack \in Nat
  BY SizesAssumption, SMTT(30) DEF MachinePart, TypeOK, SlotsInv
<1>0. /\ BottomOf(stack, stack)
      /\ 1 <= Len(stack) => BottomOf(Tail(stack), stack) /\ Len(Tail(stack)) < MaxStack
  BY <1>1, RestIs DEF BottomOf
<1>2. CASE PushImmediate
  <2>1. Value \in Cell /\ Good(Value, S)
    BY DEF Value, Cell, Tags, Good
  <2>2. Len(stack) < MaxStack /\ Program(<<Value>> \o stack) /\ UNCHANGED memVars
    BY <1>1, <1>2 DEF PushImmediate
  <2> QED BY <1>0, <1>1, <2>1, <2>2, MachineStackStep
<1>3. CASE LoadSetSlot
  <2>1. PICK i \in InUse : Slot(i) \notin unset /\ Program(<<stack[i]>> \o stack)
    BY <1>3 DEF LoadSetSlot
  <2>2. stack[i] \in Cell /\ Good(stack[i], S)
    BY <1>0, <1>1, <2>1, OperandGood DEF InUse
  <2>3. Len(stack) < MaxStack /\ UNCHANGED memVars
    BY <1>1, <1>3 DEF LoadSetSlot
  <2> QED BY <1>0, <1>1, <2>1, <2>2, <2>3, MachineStackStep
<1>4. CASE Pop
  <2>1. 1 <= Len(stack)
    BY <1>1, <1>4 DEF Pop
  <2> QED BY <1>0, <1>1, <1>4, <2>1, MachineStackStep DEF Pop
<1>5. CASE Operands(1) /\ LoadElement
  <2>1. 1 <= Len(stack) /\ stack[1] \in Cell /\ Good(stack[1], S)
    BY <1>1, <1>5, OperandIsGood
  <2>2. PICK e \in Elements(stack[1].at) : Program(<<mem[e]>> \o Tail(stack))
    BY <1>5 DEF LoadElement
  <2>3. mem[e] \in Cell /\ Good(mem[e], S)
    BY <1>1, <1>5, <2>1, MachineElements DEF LoadElement
  <2> QED BY <1>0, <1>1, <1>5, <2>1, <2>2, <2>3, MachineStackStep DEF LoadElement
<1>6. CASE Operands(1) /\ Define
  <2>1. stack[1] \in Cell /\ Good(stack[1], S)
    BY <1>1, <1>6, OperandIsGood
  <2> DEFINE e == Plus(LexicalEnvironment, 1)
  <2>2. e \in S /\ mem[e].tag # "vector"
    <3>1. LexicalEnvironment \in S /\ mem[LexicalEnvironment] = Header(1)
      BY DEF Whole
    <3>2. e \in Elements(LexicalEnvironment)
      BY <3>1 DEF Elements, Header
    <3> QED BY <3>1, <3>2 DEF Whole, Header
  <2>3. Program(stack) /\ UNCHANGED <<ptr, freeList, current>> /\ mem' = [mem EXCEPT ![e] = stack[1]]
    BY <1>6 DEF Define
  <2>4. \E x \in S, v \in Cell : mem[x].tag # "vector" /\ Good(v, S) /\ mem' = [mem EXCEPT ![x] = v]
    BY <2>1, <2>2, <2>3
  <2> QED BY <1>0, <1>1, <2>3, <2>4, MachineStackStep
<1>7. CASE Operands(2) /\ VectorSet
  <2>1. /\ 1 <= Len(stack) /\ stack[1] \in Cell /\ Good(stack[1], S)
        /\ stack[2] \in Cell /\ Good(stack[2], S)
    BY <1>1, <1>7, OperandIsGood
  <2>2. PICK e \in Elements(stack[1].at) : mem' = [mem EXCEPT ![e] = stack[2]]
    BY <1>7 DEF VectorSet
  <2>3. e \in S /\ mem[e].tag # "vector"
    BY <1>1, <1>7, <2>1, MachineElements DEF VectorSet
  <2>4. Program(Tail(stack)) /\ UNCHANGED <<ptr, freeList, current>>
    BY <1>7 DEF VectorSet
  <2> QED BY <1>0, <1>1, <2>1, <2>2, <2>3, <2>4, MachineStackStep
<1> QED BY <1>2, <1>3, <1>4, <1>5, <1>6, <1>7

\* CALL moves the top of the stack over slots that nothing is said of.
LEMMA ReserveKeeps ==
    ASSUME MachinePart, ReserveLocals
    PROVE  MachinePart'
<1> PICK S \in SUBSET Addr : Whole(S) /\ SetGood(S) /\ LeftGood(S) /\ flag \cup pending \subseteq S
  BY DEF MachinePart, MachineReachInv, Leads
<1> DEFINE l == Len(stack)
<1>1. /\ stack \in Seq(Cell) /\ l \in Nat /\ MaxStack \in Nat /\ l <= MaxStack
      /\ slots \in [1 .. MaxStack -> Cell] /\ unset \subseteq 1 .. l
      /\ \A p \in 1 .. l : slots[p] = stack[l - p + 1]
  BY SizesAssumption DEF MachinePart, TypeOK, SlotsInv
<1>2. PICK n \in 1 .. MaxLocals :
         /\ l + n <= MaxStack
         /\ Program([i \in 1 .. n |-> slots[l + n - i + 1]] \o stack)
         /\ unset' = unset \cup (l + 1 .. l + n)
         /\ UNCHANGED <<memVars, slots, stale>>
  BY DEF ReserveLocals
<1> DEFINE locals == [i \in 1 .. n |-> slots[l + n - i + 1]]
<1>3. n \in Nat /\ n > 0
  BY LocalsAssumption
<1>4. locals \in Seq(Cell) /\ Len(locals) = n
  <2>1. \A i \in 1 .. n : slots[l + n - i + 1] \in Cell
    BY <1>1, <1>2, <1>3
  <2> QED BY <1>3, <2>1
<1>5. /\ pc = "program" /\ stack' = locals \o stack /\ UNCHANGED slots
      /\ UNCHANGED <<object, active, idle, pc, allocVars, gcVars>>
  BY <1>2 DEF Program
<1> HIDE DEF l
<1>6. stack' \in Seq(Cell) /\ Len(stack') = l + n
  <2> HIDE DEF locals
  <2>1. locals \o stack \in Seq(Cell) /\ Len(locals \o stack) = Len(locals) + Len(stack)
    BY <1>1, <1>4
  <2>2. Len(locals \o stack) = l + n
    BY <1>1, <1>3, <1>4, <2>1 DEF l
  <2> QED BY <1>5, <2>1, <2>2
<1>7. ASSUME NEW p \in 1 .. l + n PROVE stack'[l + n - p + 1] = slots[p]
  <2> DEFINE i == l + n - p + 1
  <2>1. i \in 1 .. l + n
    BY <1>1, <1>3
  <2>2. CASE p <= l
    <3>1. p \in 1 .. l /\ i > n /\ i - n = l - p + 1
      BY <1>1, <1>3, <2>2
    <3>2. (locals \o stack)[i] = stack[i - n]
      <4> HIDE DEF locals
      <4> QED BY <1>1, <1>3, <1>4, <2>1, <3>1 DEF l
    <3> QED BY <1>1, <1>5, <3>1, <3>2
  <2>3. CASE p > l
    <3>1. i \in 1 .. n /\ l + n - i + 1 = p
      BY <1>1, <1>3, <2>3
    <3>2. (locals \o stack)[i] = locals[i]
      <4> HIDE DEF locals
      <4> QED BY <1>1, <1>3, <1>4, <2>1, <3>1 DEF l
    <3> QED BY <1>5, <3>1, <3>2
  <2> QED BY <1>1, <1>3, <2>2, <2>3
<1> HIDE DEF locals
<1>8. SlotsInv'
  <2>1. unset' \subseteq 1 .. l + n
    BY <1>1, <1>2, <1>3
  <2>2. slots' \in [1 .. MaxStack -> Cell] /\ l + n <= MaxStack
    BY <1>1, <1>2, <1>5
  <2>3. \A p \in 1 .. l + n : slots'[p] = stack'[l + n - p + 1]
    BY <1>5, <1>7
  <2> PICK m : m = l + n
    OBVIOUS
  <2>4. Len(stack') = m
    BY <1>6
  <2>5. \A p \in 1 .. m : slots'[p] = stack'[m - p + 1]
    BY <1>1, <1>3, <2>3
  <2> QED BY <2>1, <2>2, <2>4, <2>5 DEF SlotsInv
<1>9. SetGood(S)'
  <2>1. (1 .. l + n) \ unset' = (1 .. l) \ unset
    BY <1>1, <1>2, <1>3
  <2> QED BY <1>5, <1>6, <2>1 DEF SetGood, l
<1>10. LeftGood(S)'
  BY <1>2 DEF LeftGood
<1> QED BY <1>2, <1>5, <1>6, <1>8, <1>9, <1>10, MachineMoveKeeps

LEMMA StoreKeeps ==
    ASSUME MachinePart, StoreSlot
    PROVE  MachinePart'
<1> PICK S \in SUBSET Addr : Whole(S) /\ SetGood(S) /\ LeftGood(S) /\ flag \cup pending \subseteq S
  BY DEF MachinePart, MachineReachInv, Leads
<1> DEFINE l == Len(stack)
<1>1. /\ stack \in Seq(Cell) /\ l \in Nat /\ MaxStack \in Nat /\ l <= MaxStack
      /\ slots \in [1 .. MaxStack -> Cell] /\ unset \subseteq 1 .. l
      /\ \A p \in 1 .. l : slots[p] = stack[l - p + 1]
  BY SizesAssumption DEF MachinePart, TypeOK, SlotsInv
<1>2. PICK k \in 2 .. l :
         /\ Program(Tail([stack EXCEPT ![k] = stack[1]]))
         /\ slots' = [slots EXCEPT ![Slot(k)] = stack[1]]
         /\ unset' = unset \ {Slot(k)}
         /\ stale' = stale \ {Slot(k)}
  BY DEF StoreSlot
<1>3. /\ pc = "program" /\ stack' = Tail([stack EXCEPT ![k] = stack[1]]) /\ UNCHANGED memVars
      /\ UNCHANGED <<object, active, idle, pc, allocVars, gcVars>>
  BY <1>2 DEF Program, StoreSlot
<1>4. Operands(1) /\ stack[1] \in Cell /\ Good(stack[1], S)
  BY OperandIsGood DEF StoreSlot
<1> DEFINE s == [stack EXCEPT ![k] = stack[1]]
<1>5. s \in Seq(Cell) /\ Len(s) = l /\ \A i \in 1 .. l : s[i] = IF i = k THEN stack[1] ELSE stack[i]
  BY <1>1, <1>4
<1> HIDE DEF s
<1>6. /\ stack' \in Seq(Cell) /\ Len(stack') = l - 1
      /\ \A i \in 1 .. l - 1 : stack'[i] = s[i + 1]
  BY <1>1, <1>2, <1>3, <1>5 DEF s
<1>7. Slot(k) = l - k + 1 /\ Slot(k) \in 1 .. l - 1
  BY <1>1, <1>2 DEF Slot
<1>8. unset' \subseteq 1 .. l - 1
  <2>1. l \notin unset
    <3>1. Slot(1) \notin unset
      BY <1>4 DEF Operands
    <3> QED BY <1>1, <3>1 DEF Slot
  <2>2. unset \subseteq 1 .. l - 1
    <3> HIDE DEF l
    <3> QED BY <1>1, <2>1
  <2> QED BY <1>2, <2>2
<1> HIDE DEF l
<1>9. ASSUME NEW p \in 1 .. MaxStack PROVE slots'[p] = IF p = Slot(k) THEN stack[1] ELSE slots[p]
  BY <1>1, <1>2
<1>10. ASSUME NEW p \in 1 .. l - 1 PROVE slots'[p] = stack'[l - 1 - p + 1]
  <2>1. l - 1 - p + 1 \in 1 .. l - 1 /\ l - 1 - p + 1 + 1 = l - p + 1 /\ l - p + 1 \in 1 .. l
    BY <1>1
  <2>2. l - p + 1 = k <=> p = Slot(k)
    BY <1>1, <1>7
  <2>3. stack'[l - 1 - p + 1] = IF p = Slot(k) THEN stack[1] ELSE stack[l - p + 1]
    BY <1>5, <1>6, <2>1, <2>2, SMTT(30)
  <2>4. p \in 1 .. MaxStack /\ p \in 1 .. l
    BY <1>1
  <2> QED BY <1>1, <1>9, <2>3, <2>4
<1>11. SlotsInv'
  <2>1. slots' \in [1 .. MaxStack -> Cell]
    BY <1>1, <1>2, <1>4
  <2>2. l - 1 <= MaxStack
    BY <1>1
  <2> QED BY <1>6, <1>8, <1>10, <2>1, <2>2 DEF SlotsInv
<1>12. SetGood(S)'
  <2> SUFFICES ASSUME NEW p \in (1 .. l - 1) \ unset' PROVE Good(slots'[p], S)
    BY <1>6 DEF SetGood
  <2>1. p \in 1 .. MaxStack /\ p \in 1 .. l
    BY <1>1
  <2>2. CASE p = Slot(k)
    BY <1>4, <1>9, <2>1, <2>2
  <2>3. CASE p # Slot(k)
    <3>1. p \in (1 .. l) \ unset /\ slots'[p] = slots[p]
      BY <1>2, <1>9, <2>1, <2>3
    <3> QED BY <3>1 DEF SetGood, l
  <2> QED BY <2>2, <2>3
<1>13. LeftGood(S)'
  BY <1>2, <1>4, <1>9 DEF LeftGood
<1> QED BY <1>3, <1>6, <1>11, <1>12, <1>13, MachineMoveKeeps

LEMMA MachineAllocateKeeps ==
    ASSUME MachinePart, UNCHANGED slotVars, NEW n \in 0 .. MaxCount, Operands(n),
           n = 0 => Len(stack) < MaxStack, Allocate("vector", n)
    PROVE  MachinePart'
<1>1. /\ TypeOK /\ RequestInv /\ SlotsInv /\ NoHandles /\ MachineReachInv /\ CostInv
      /\ n \in Nat /\ n <= MaxCount /\ n <= Len(stack) /\ Len(stack) \in Nat
      /\ \A k \in 1 .. n : Slot(k) \notin unset
  BY Sizes, SMTT(30) DEF MachinePart, Operands, TypeOK
<1>2. /\ pc = "program" /\ pc' = "alloc" /\ request' = [op |-> "vector", count |-> n] /\ try' = 0
      /\ UNCHANGED <<mem, ptr, freeList, current, stack, object, active, idle>>
      /\ UNCHANGED <<flag, cost, pending, next, reclaimed>>
  BY DEF Allocate, memVars, rootVars, gcVars
<1>3. UNCHANGED <<slots, unset, stale>>
  BY DEF slotVars
<1>4. TypeOK' /\ RequestInv'
  BY <1>1, <1>2 DEF TypeOK, RequestInv
<1>5. SlotsInv' /\ NoHandles' /\ CostInv'
  BY <1>1, <1>2, <1>3 DEF SlotsInv, NoHandles, CostInv
<1>6. MachineReachInv'
  BY <1>1, <1>2, <1>3 DEF MachineReachInv, Leads, SetGood, LeftGood, Whole, Allocated, Elements
<1>7. OperandsInv'
  <2>1. \A p \in Len(stack) - n + 1 .. Len(stack) : p \notin unset
    <3> SUFFICES ASSUME NEW p \in Len(stack) - n + 1 .. Len(stack) PROVE p \notin unset
      OBVIOUS
    <3>1. Len(stack) - p + 1 \in 1 .. n /\ Slot(Len(stack) - p + 1) = p
      BY <1>1 DEF Slot
    <3> QED BY <1>1, <3>1
  <2> QED BY <1>2, <1>3, <2>1 DEF OperandsInv
<1> QED BY <1>4, <1>5, <1>6, <1>7 DEF MachinePart

-----------------------------------------------------------------------------
(* Allocation.                                                             *)

LEMMA MachineBumpKeeps ==
    ASSUME MachinePart, Bump, Written
    PROVE  MachinePart'
<1> PICK S \in SUBSET Addr : Whole(S) /\ SetGood(S) /\ LeftGood(S) /\ flag \cup pending \subseteq S
  BY DEF MachinePart, MachineReachInv, Leads
<1> DEFINE n == request.count
           l == Len(stack)
           rest == SubSeq(stack, n + 1, Len(stack))
<1> PICK T : T = S \cup NewCells
  OBVIOUS
<1>1. /\ TypeOK /\ RequestInv /\ SlotsInv /\ NoHandles /\ pc = "alloc" /\ Fits
      /\ ptr' = [ptr EXCEPT ![current] = @ + Size]
      /\ mem' = [a \in Addr |-> IF a \in NewCells THEN Contents(a[2] - ptr[current]) ELSE mem[a]]
      /\ pc' = "program" /\ Root
      /\ UNCHANGED <<freeList, current, allocVars, gcVars>>
  BY DEF Bump, MachinePart
<1>2. /\ request.op = "vector" /\ (n = 0 => l < MaxStack) /\ \A p \in l - n + 1 .. l : p \notin unset
  BY <1>1 DEF MachinePart, OperandsInv
<1>3. /\ ptr' \in [Buckets -> 0 .. PageSize] /\ NewCells \subseteq Addr /\ NewObject \in NewCells
      /\ n \in Nat /\ n <= l /\ l \in Nat /\ l <= MaxStack /\ MaxStack \in Nat /\ stack \in Seq(Cell)
      /\ \A a \in NewCells : /\ a[2] - ptr[current] \in 0 .. n
                             /\ a = Plus(NewObject, a[2] - ptr[current])
  BY <1>1, <1>2, NewCellsAre, RequestSize, SizesAssumption, SMTT(30) DEF SlotsInv, TypeOK
<1>4. \A k \in 1 .. n : stack[k] \in Cell /\ Good(stack[k], S)
  <2> SUFFICES ASSUME NEW k \in 1 .. n PROVE stack[k] \in Cell /\ Good(stack[k], S)
    OBVIOUS
  <2>1. k \in 1 .. l /\ Slot(k) = l - k + 1 /\ Slot(k) \in l - n + 1 .. l
    BY <1>3 DEF Slot
  <2> QED BY <1>1, <1>2, <1>3, <2>1, OperandGood
<1>5. mem' \in [Addr -> Cell] /\ Whole(T)' /\ T \in SUBSET Addr
  BY <1>1, <1>2, <1>3, <1>4, BumpKeepsWhole
<1>6. stack' = <<Reference(NewObject)>> \o rest /\ UNCHANGED <<object, active, idle>>
  BY <1>1, <1>2 DEF Root
<1>7. stack' \in Seq(Cell) /\ SlotsInv' /\ SetGood(T)' /\ LeftGood(T)'
  <2>1. BottomOf(rest, stack) /\ Len(rest) = l - n
    BY <1>3, RestIs
  <2>2. Reference(NewObject) \in Cell /\ Good(Reference(NewObject), T)
    BY <1>3 DEF Reference, Cell, Tags, Good
  <2>3. Len(rest) < MaxStack
    BY <1>2, <1>3, <2>1
  <2>4. \A v : Good(v, S) => Good(v, T)
    BY DEF Good
  <2> HIDE DEF rest
  <2> QED BY <1>1, <1>3, <1>6, <2>1, <2>2, <2>3, <2>4, RestKeeps
<1>8. NoHandles' /\ flag' \cup pending' \subseteq T
  BY <1>1, <1>6 DEF NoHandles, gcVars
<1>9. TypeOK'
  BY <1>1, <1>3, <1>5, <1>6, <1>7 DEF TypeOK, allocVars, gcVars
<1>10. RequestInv' /\ OperandsInv' /\ CostInv'
  BY <1>1 DEF RequestInv, OperandsInv, CostInv
<1> QED BY <1>5, <1>7, <1>8, <1>9, <1>10 DEF MachinePart, MachineReachInv, Leads

-----------------------------------------------------------------------------
(* Collection.                                                             *)

\* What the collector comes to when no slot in use is stale.
LEMMA ScansStay ==
    ASSUME TypeOK, SlotsInv, NoHandles, NEW S \in SUBSET Addr, Whole(S), LeftGood(S)
    PROVE  /\ InUse \cap stale = {} => ScanRoots \subseteq S
           /\ \A a \in S : Scan(a) \subseteq S
<1>1. ASSUME NEW v, Good(v, S) \/ v.tag = "invalid" PROVE ScanValue(v) \subseteq S
  BY <1>1 DEF ScanValue, Good
<1>2. ASSUME InUse \cap stale = {}, NEW i \in DOMAIN stack PROVE ScanValue(stack[i]) \subseteq S
  <2> DEFINE p == Len(stack) - i + 1
  <2>1. p \in 1 .. Len(stack) /\ Len(stack) - p + 1 = i /\ p \in 1 .. MaxStack
    <3>1. stack \in Seq(Cell) /\ Len(stack) <= MaxStack /\ i \in 1 .. Len(stack) /\ MaxStack \in Nat
      BY SizesAssumption DEF TypeOK, SlotsInv
    <3> QED BY <3>1
  <2>2. stack[i] = slots[p] /\ p \notin stale
    BY <1>2, <2>1 DEF SlotsInv, InUse
  <2> HIDE DEF p
  <2> QED BY <1>1, <2>1, <2>2 DEF LeftGood
<1>3. InUse \cap stale = {} => ScanRoots \subseteq S
  BY <1>2 DEF ScanRoots, HandleObjects, NoHandles, Whole
<1>4. \A a \in S : Scan(a) \subseteq S
  BY <1>1 DEF Scan, Whole
<1> QED BY <1>3, <1>4

\* What a collection does not touch.
LEMMA CollectKeepsSlots ==
    ASSUME MachinePart, pc # "program", UNCHANGED <<mem, rootVars, request, slots, unset>>
    PROVE  SlotsInv' /\ NoHandles' /\ OperandsInv'
BY DEF rootVars, MachinePart, SlotsInv, NoHandles, OperandsInv

LEMMA CollectKeepsReach ==
    ASSUME NEW S \in SUBSET Addr, Leads(S), UNCHANGED <<mem, ptr, rootVars, slotVars>>,
           flag' \cup pending' \subseteq S
    PROVE  MachineReachInv'
<1>1. UNCHANGED <<stack, slots, unset, stale>>
  BY DEF rootVars, slotVars
<1>2. Leads(S)'
  BY <1>1 DEF Leads, SetGood, LeftGood, Whole, Allocated, Elements
<1> QED BY <1>2 DEF MachineReachInv

LEMMA MachineStartKeeps ==
    ASSUME MachinePart, FlagInv, StartScan, UNCHANGED slotVars
    PROVE  MachinePart'
<1> PICK S \in SUBSET Addr : Leads(S)
  BY DEF MachinePart, MachineReachInv
<1>1. /\ TypeOK /\ RequestInv /\ pc = "alloc" /\ ~Fits /\ try < 2 /\ pc' = "mark"
      /\ cost' = [b \in Buckets |-> 0] /\ pending' = ScanRoots \ flag
      /\ UNCHANGED <<mem, ptr, freeList, current, rootVars, request, try, flag, next, reclaimed>>
  BY DEF MachinePart, StartScan, StartCollection, memVars, allocVars
<1>2. flag = {} /\ try = 0 /\ ScanRoots \subseteq S
  <2>1. flag = {}
    BY <1>1 DEF FlagInv
  <2>2. try = 0
    BY <1>1, RequestSize DEF TypeOK
  <2>3. SlotsInv /\ NoHandles /\ Whole(S) /\ LeftGood(S) /\ InUse \cap stale = {}
    BY DEF MachinePart, Leads, StartScan
  <2> QED BY <1>1, <2>1, <2>2, <2>3, ScansStay
<1>3. TypeOK'
  BY <1>1, <1>2 DEF TypeOK, rootVars
<1>4. RequestInv'
  BY <1>1, <1>2 DEF RequestInv, rootVars
<1>5. CostInv'
  <2>1. \A b : Flagged(b)' = {}
    BY <1>1, <1>2 DEF Flagged
  <2> QED BY <1>1, <1>2, <2>1, FS_EmptySet DEF CostInv
<1>6. MachineReachInv' /\ SlotsInv' /\ NoHandles' /\ OperandsInv'
  BY <1>1, <1>2, CollectKeepsSlots, CollectKeepsReach DEF slotVars
<1> QED BY <1>3, <1>4, <1>5, <1>6 DEF MachinePart

LEMMA MachineMarkKeeps ==
    ASSUME MachinePart, Mark, UNCHANGED slotVars
    PROVE  MachinePart'
<1> PICK S \in SUBSET Addr : Leads(S)
  BY DEF MachinePart, MachineReachInv
<1>1. /\ TypeOK /\ RequestInv /\ CostInv /\ pc = "mark"
      /\ UNCHANGED <<mem, ptr, freeList, current, rootVars, request, try, next, reclaimed>>
  BY DEF MachinePart, Mark, memVars, allocVars
<1>2. PICK a \in pending :
         /\ flag' = flag \cup {a}
         /\ cost' = [cost EXCEPT ![a[1]] = @ + 1]
         /\ pending' = (pending \cup Scan(a)) \ flag'
         /\ pc' = IF mem[a].tag = "invalid" THEN "halted" ELSE "mark"
  BY DEF Mark
<1>3. a \in S /\ a[1] \in Buckets /\ Scan(a) \subseteq S
  BY <1>1, ScansStay DEF MachinePart, Leads, Addr
<1>4. cost' \in [Buckets -> Nat]
  BY <1>1, <1>2, <1>3 DEF TypeOK
<1>5. TypeOK'
  BY <1>1, <1>2, <1>3, <1>4 DEF TypeOK, rootVars
<1>6. RequestInv'
  BY <1>1, <1>2 DEF RequestInv, rootVars
<1>7. \A b \in Buckets : cost'[b] = Cardinality(Flagged(b)')
  BY <1>1, <1>2, MarkCounts
<1>8. CostInv'
  BY <1>2, <1>7 DEF CostInv
<1>9. flag' \cup pending' \subseteq S
  BY <1>2, <1>3 DEF Leads
<1>10. MachineReachInv' /\ SlotsInv' /\ NoHandles' /\ OperandsInv'
  BY <1>1, <1>9, CollectKeepsSlots, CollectKeepsReach DEF slotVars
<1> QED BY <1>5, <1>6, <1>8, <1>10 DEF MachinePart

\* The union of sets that are apart from a bucket is apart from it.
LEMMA ApartIs ==
    ASSUME NEW b
    PROVE  /\ \A a \in Apart(b) : a[1] # b /\ Scan(a) \subseteq Apart(b)
           /\ \A S \in SUBSET Addr : (\A a \in S : a[1] # b /\ Scan(a) \subseteq S) => S \subseteq Apart(b)
BY DEF Apart

LEMMA MachineReclaimKeeps ==
    ASSUME MachinePart, FlagInv, FreeListInv', MachineReclaim
    PROVE  MachinePart'
<1>1. /\ TypeOK /\ RequestInv /\ SlotsInv /\ CostInv
      /\ pc = "reclaim" /\ next < NumBuckets /\ next' = next + 1
      /\ UNCHANGED <<mem, current, rootVars, pc, request, try, flag, cost, pending, slots, unset>>
  BY DEF MachinePart, MachineReclaim, Reclaim, allocVars
<1>2. next \in Buckets
  BY <1>1, Sizes DEF TypeOK, Buckets
<1>3. /\ ptr' \in [Buckets -> 0 .. PageSize] /\ reclaimed' \in Nat
      /\ \A b \in Buckets \ {next} : ptr'[b] = ptr[b]
  <2>1. \/ cost[next] = 0 /\ ReclaimBucket(next)
        \/ cost[next] # 0 /\ UNCHANGED <<ptr, freeList, reclaimed>>
    BY DEF MachineReclaim, Reclaim
  <2>2. ptr \in [Buckets -> 0 .. PageSize] /\ 0 \in 0 .. PageSize /\ reclaimed \in Nat
    BY <1>1, Sizes DEF TypeOK
  <2> QED BY <1>2, <2>1, <2>2 DEF ReclaimBucket
<1>4. TypeOK'
  <2>1. next' \in 0 .. NumBuckets
    BY <1>1, <1>2, Sizes DEF Buckets
  <2> QED BY <1>1, <1>3, <2>1 DEF TypeOK, FreeListInv, rootVars
<1>5. RequestInv' /\ CostInv'
  BY <1>1 DEF RequestInv, CostInv, Flagged, rootVars
<1> PICK S \in SUBSET Addr : Leads(S)
  BY DEF MachinePart, MachineReachInv
<1>6. CASE cost[next] # 0
  <2>1. UNCHANGED <<ptr, stale>>
    BY <1>6 DEF MachineReclaim, Reclaim
  <2>2. MachineReachInv'
    BY <1>1, <2>1, CollectKeepsReach DEF Leads, slotVars
  <2> QED BY <1>1, <1>4, <1>5, <2>2, CollectKeepsSlots DEF MachinePart
<1>7. CASE cost[next] = 0
  <2> PICK K : K = S \cap Apart(next)
    OBVIOUS
  <2>1. ScanRoots \subseteq flag /\ (\A a \in flag : Scan(a) \subseteq flag) /\ pending = {}
    BY <1>1 DEF FlagInv
  <2>2. \A a \in flag : a[1] # next
    <3>1. Flagged(next) = {}
      BY <1>1, <1>2, <1>7, FiniteFlags, FS_EmptySet DEF CostInv
    <3> QED BY <3>1 DEF Flagged
  <2>3. flag \subseteq Apart(next) /\ flag \subseteq K
    BY <1>1, <2>1, <2>2, ApartIs DEF TypeOK, Leads
  <2>4. ASSUME NEW v, Good(v, S), ScanValue(v) \subseteq Apart(next) PROVE Good(v, K)
    BY <2>4 DEF Good, ScanValue
  <2>5. K \subseteq Addr /\ K \subseteq Allocated'
    <3>1. \A a \in K : a \in Addr /\ a \in Allocated /\ a[1] \in Buckets /\ a[1] # next
      BY ApartIs DEF Leads, Whole, Addr
    <3> QED BY <1>3, <3>1 DEF Allocated
  <2>6. LexicalEnvironment \in K /\ mem'[LexicalEnvironment] = Header(1)
    BY <1>1, <2>1, <2>3 DEF Leads, Whole, ScanRoots
  <2>7. ASSUME NEW a \in K
        PROVE  IF mem[a].tag = "vector"
               THEN \A e \in Elements(a) : e \in K /\ mem[e].tag # "vector"
               ELSE Good(mem[a], K)
    <3>1. Scan(a) \subseteq Apart(next)
      BY ApartIs
    <3>2. CASE mem[a].tag = "vector"
      BY <3>1, <3>2 DEF Leads, Whole, Scan
    <3>3. CASE mem[a].tag # "vector"
      <4>1. Good(mem[a], S) /\ ScanValue(mem[a]) \subseteq Apart(next)
        BY <3>1, <3>3 DEF Leads, Whole, Scan
      <4> QED BY <2>4, <3>3, <4>1
    <3> QED BY <3>2, <3>3
  <2>8. Whole(K)'
    BY <1>1, <2>5, <2>6, <2>7 DEF Whole, Elements
  <2>9. ASSUME NEW p \in 1 .. Len(stack) PROVE ScanValue(slots[p]) \subseteq Apart(next)
    <3>1. Len(stack) - p + 1 \in DOMAIN stack /\ slots[p] = stack[Len(stack) - p + 1]
      BY <1>1 DEF TypeOK, SlotsInv
    <3>2. ScanValue(slots[p]) \subseteq flag
      BY <2>1, <3>1 DEF ScanRoots
    <3> QED BY <2>3, <3>2
  <2>10. SetGood(K)'
    BY <1>1, <2>4, <2>9 DEF Leads, SetGood, rootVars
  <2>11. LeftGood(K)'
    <3> SUFFICES ASSUME NEW p \in (1 .. MaxStack) \ stale'
                 PROVE  slots[p].tag = "invalid" \/ Good(slots[p], K)
      BY <1>1 DEF LeftGood
    <3>1. p \notin stale /\ (p \in InUse \/ ScanValue(slots[p]) \subseteq Apart(next))
      BY <1>7 DEF MachineReclaim
    <3> QED BY <2>4, <2>9, <3>1 DEF Leads, LeftGood, InUse
  <2>12. MachineReachInv'
    BY <1>1, <2>1, <2>3, <2>5, <2>8, <2>10, <2>11 DEF MachineReachInv, Leads
  <2> QED BY <1>1, <1>4, <1>5, <2>12, CollectKeepsSlots DEF MachinePart
<1> QED BY <1>6, <1>7

LEMMA MachineUnmarkKeeps ==
    ASSUME MachinePart, MarkedRoots \/ StartUnmark \/ Unmark, UNCHANGED slotVars
    PROVE  MachinePart'
<1> PICK S \in SUBSET Addr : Leads(S)
  BY DEF MachinePart, MachineReachInv
<1>1. /\ TypeOK /\ RequestInv /\ CostInv
      /\ pc \in {"mark", "reclaim", "unmark"} /\ pc' \in {"reclaim", "unmark"}
      /\ UNCHANGED <<mem, ptr, freeList, current, rootVars, request, try, cost>>
  BY DEF MachinePart, MarkedRoots, StartReclaim, StartUnmark, Unmark, memVars, allocVars
<1>2. /\ flag' \cup pending' \subseteq flag \cup pending
      /\ next' \in 0 .. NumBuckets /\ reclaimed' \in Nat
  <2>0. next \in 0 .. NumBuckets /\ reclaimed \in Nat /\ 0 \in 0 .. NumBuckets
    BY <1>1, Sizes DEF TypeOK
  <2>1. CASE MarkedRoots
    BY <2>0, <2>1 DEF MarkedRoots, StartReclaim
  <2>2. CASE StartUnmark
    BY <2>0, <2>2 DEF StartUnmark
  <2>3. CASE Unmark
    BY <2>0, <2>3 DEF Unmark
  <2> QED BY <2>1, <2>2, <2>3
<1>3. TypeOK' /\ RequestInv'
  BY <1>1, <1>2 DEF TypeOK, RequestInv, rootVars
<1>4. CostInv'
  <2>1. CASE MarkedRoots
    <3>1. pc = "mark" /\ pc' = "reclaim" /\ flag' = flag
      BY <2>1 DEF MarkedRoots, StartReclaim
    <3> QED BY <1>1, <3>1 DEF CostInv, Flagged
  <2>2. CASE StartUnmark \/ Unmark
    BY <2>2 DEF StartUnmark, Unmark, CostInv
  <2> QED BY <2>1, <2>2
<1>5. MachineReachInv' /\ SlotsInv' /\ NoHandles' /\ OperandsInv'
  BY <1>1, <1>2, CollectKeepsSlots, CollectKeepsReach DEF slotVars, Leads
<1> QED BY <1>3, <1>4, <1>5 DEF MachinePart

LEMMA MachineAcquireKeeps ==
    ASSUME MachinePart, FreeListInv, NextBucket \/ FinishCollection, UNCHANGED slotVars
    PROVE  MachinePart'
<1> PICK S \in SUBSET Addr : Leads(S)
  BY DEF MachinePart, MachineReachInv
<1>1. /\ TypeOK /\ RequestInv /\ pc \in {"alloc", "unmark"} /\ pc' \in {"alloc", "halted"}
      /\ UNCHANGED <<mem, ptr, rootVars, request, flag, cost, pending, next, reclaimed>>
  BY DEF MachinePart, NextBucket, FinishCollection, gcVars
<1>0. MachineReachInv' /\ SlotsInv' /\ NoHandles' /\ OperandsInv'
  BY <1>1, CollectKeepsSlots, CollectKeepsReach DEF slotVars, Leads
<1>2. CASE Acquire /\ pc' = "alloc" /\ try' = try + 1 /\ try < 2 /\ freeList # << >>
  <2>1. current' \in Buckets /\ freeList' \in Seq(Buckets) /\ ptr[current'] = 0
    BY <1>2, TailKeepsFreeList DEF Acquire, FreeListInv
  <2>2. TypeOK' /\ RequestInv'
    BY <1>1, <1>2, <2>1 DEF TypeOK, RequestInv, rootVars
  <2> QED BY <1>0, <1>2, <2>2 DEF MachinePart, CostInv
<1>3. CASE NextBucket
  BY <1>2, <1>3 DEF NextBucket
<1>4. CASE FinishCollection /\ reclaimed > 0
  <2>1. pc = "unmark" /\ Len(freeList) > 0 /\ try = 0
    BY <1>1, <1>4 DEF FinishCollection, FreeListInv, RequestInv
  <2> QED BY <1>1, <1>2, <1>4, <2>1 DEF FinishCollection, FreeListInv
<1>5. CASE FinishCollection /\ ~(reclaimed > 0)
  <2>1. pc' = "halted" /\ UNCHANGED <<freeList, current, try>>
    BY <1>5 DEF FinishCollection
  <2>2. TypeOK' /\ RequestInv'
    BY <1>1, <2>1 DEF TypeOK, RequestInv, rootVars
  <2> QED BY <1>0, <2>1, <2>2 DEF MachinePart, CostInv
<1> QED BY <1>3, <1>4, <1>5

LEMMA MachineInvStep == MachineInv /\ [MachineNext]_machineVars => MachineInv'
<1> SUFFICES ASSUME MachineInv, [MachineNext]_machineVars PROVE MachineInv'
  OBVIOUS
<1>1. MachinePart /\ FlagInv /\ FreeListInv /\ SlotsInv
  BY DEF MachineInv, MachinePart
<1>2. FlagInv' /\ FreeListInv'
  BY <1>1, MachineFlagInv, MachineFreeListInv
<1> SUFFICES MachinePart'
  BY <1>2 DEF MachineInv, MachinePart
<1>3. CASE MachineProgram
  <2>1. CASE ReserveLocals
    BY <1>1, <2>1, ReserveKeeps
  <2>2. CASE StoreSlot
    BY <1>1, <2>2, StoreKeeps
  <2>3. CASE /\ Written
             /\ \/ PushImmediate \/ LoadSetSlot \/ Pop
                \/ Operands(1) /\ (LoadElement \/ Define)
                \/ Operands(2) /\ VectorSet
    BY <1>1, <2>3, MachineDataKeeps
  <2>4. ASSUME UNCHANGED slotVars, NEW n \in 0 .. MaxCount, Operands(n), n = 0 => Len(stack) < MaxStack,
               Allocate("vector", n)
        PROVE  MachinePart'
    BY <1>1, <2>4, MachineAllocateKeeps
  <2> QED BY <1>3, <2>1, <2>2, <2>3, <2>4 DEF MachineProgram
<1>4. CASE Bump /\ Written
  BY <1>1, <1>4, MachineBumpKeeps
<1>5. CASE /\ StartScan \/ Mark \/ MarkedRoots \/ StartUnmark \/ Unmark
              \/ NextBucket \/ FinishCollection
           /\ UNCHANGED slotVars
  BY <1>1, <1>5, MachineStartKeeps, MachineMarkKeeps, MachineUnmarkKeeps, MachineAcquireKeeps
<1>7. CASE MachineReclaim
  BY <1>1, <1>2, <1>7, MachineReclaimKeeps
<1>6. CASE BreakOnSlot \/ ScanStale \/ MachineHalted \/ UNCHANGED machineVars
  <2>1. /\ UNCHANGED <<mem, ptr, freeList, current, rootVars, stack, object, active, idle>>
        /\ UNCHANGED <<request, try, flag, cost, pending, next, reclaimed, slots, unset, stale>>
        /\ pc' = pc \/ (pc \in {"alloc", "mark"} /\ pc' \in {"halted", "astray"})
    BY <1>6 DEF BreakOnSlot, ScanStale, MachineHalted, Halted, machineVars, slotVars, vars, memVars,
       rootVars, allocVars, gcVars
  <2>2. TypeOK' /\ RequestInv' /\ CostInv'
    BY <1>1, <2>1 DEF MachinePart, TypeOK, RequestInv, CostInv, Flagged
  <2>3. SlotsInv' /\ NoHandles' /\ OperandsInv'
    BY <1>1, <2>1 DEF MachinePart, SlotsInv, NoHandles, OperandsInv
  <2>4. MachineReachInv'
    BY <1>1, <2>1 DEF MachinePart, MachineReachInv, Leads, SetGood, LeftGood, Whole, Allocated, Elements
  <2> QED BY <2>2, <2>3, <2>4 DEF MachinePart
<1> QED BY <1>3, <1>4, <1>5, <1>6, <1>7 DEF MachineNext, MachineHeapStep

\* Slots that were not set lead the collector to cells of objects that are still
\* there, as long as it comes to none whose memory was reclaimed.
THEOREM MachineScansObjects == MachineSpec => []ScansOnlyObjects
<1>1. MachineInv => ScansOnlyObjects
  BY DEF MachineInv, MachineReachInv, Leads, Whole, ScansOnlyObjects
<1> QED BY <1>1, MachineInvInit, MachineInvStep, PTL DEF MachineSpec

\* Memory that the program reaches from the slots it has set is never reclaimed by
\* a collection that comes to no slot whose memory was reclaimed.
THEOREM SetSlotsAreKept == MachineSpec => []ReachableIsKept
<1>1. MachineInv => ReachableIsKept
  <2> SUFFICES ASSUME MachineInv PROVE ReachableIsKept
    OBVIOUS
  <2>1. TypeOK /\ SlotsInv /\ MachineReachInv
    BY DEF MachineInv
  <2>2. PICK S \in SUBSET Addr : Whole(S) /\ SetGood(S)
    BY <2>1 DEF MachineReachInv, Leads
  <2>3. S \subseteq Allocated /\ Allocated \ (Allocated \ S) = S
    BY <2>2 DEF Whole
  <2>4. ProgramRoots \subseteq S
    <3>1. ASSUME NEW i \in InUse, Slot(i) \notin unset PROVE UseValue(mem, stack[i]) \subseteq S
      <4>1. Good(stack[i], S)
        BY <2>1, <2>2, <3>1, OperandGood DEF InUse, TypeOK
      <4> QED BY <4>1 DEF Good, UseValue
    <3>2. LexicalEnvironment \in S
      BY <2>2 DEF Whole
    <3> QED BY <3>1, <3>2 DEF ProgramRoots
  <2>5. ASSUME NEW a \in S PROVE Uses(mem, a) \subseteq S
    <3>1. a \in DOMAIN mem
      BY <2>1 DEF TypeOK
    <3>2. CASE mem[a].tag = "vector"
      BY <2>2, <3>1, <3>2 DEF Uses, Whole, Elements
    <3>3. CASE mem[a].tag # "vector"
      BY <2>2, <3>1, <3>3 DEF Uses, UseValue, Whole, Good
    <3> QED BY <3>2, <3>3
  <2> QED BY <2>3, <2>4, <2>5 DEF ReachableIsKept
<1> QED BY <1>1, MachineInvInit, MachineInvStep, PTL DEF MachineSpec

====
