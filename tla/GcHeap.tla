------------------------------- MODULE GcHeap -------------------------------
(***************************************************************************)
(* The garbage-collected heap of gc.c: buckets with bump allocation, the   *)
(* free list, the two-try allocation loop, the mark / reclaim / unmark     *)
(* collection and the object handles, driven by the calls that the virtual *)
(* machine and the builtins make on it.                                    *)
(*                                                                         *)
(* An address is a pair <<bucket, offset>>.  The unit of memory is a cell, *)
(* one struct evil_object_t; an aggregate (vector, pair, procedure) is a   *)
(* header cell followed by its elements, each a cell of its own, which is  *)
(* how scan_object treats them.  The flag, a byte of the cell in the code, *)
(* is a set of cells here.  Both are right as long as every scan begins at *)
(* the start of an object or of an element, which ScansOnlyObjects says.   *)
(* A scan that begins anywhere else writes its flag into whatever lies     *)
(* there and takes the bytes for a tag: the model goes no further then     *)
(* (ScanAstray).                                                           *)
(***************************************************************************)
EXTENDS Integers, Sequences, FiniteSets

CONSTANTS
    NumBuckets,   \* heap->num_buckets
    PageSize,     \* EVIL_PAGE_SIZE, in cells
    MaxStack,     \* bound on the depth of the evaluation stack
    MaxCount,     \* bound on the number of elements of an aggregate
    MaxOffset,    \* bound on the bytecode offset of a return address
    Handles,      \* the object handles the embedding program may come to own
    Operations    \* which of "vector-ref" and "call" the program performs

ASSUME SizesAssumption ==
    /\ NumBuckets \in Nat \ {0}
    /\ PageSize \in Nat
    /\ MaxStack \in Nat /\ MaxCount \in Nat \ {0} /\ MaxOffset \in Nat
    /\ MaxCount < PageSize      \* assert(size < EVIL_PAGE_SIZE)
    /\ Operations \subseteq {"vector-ref", "call"}

Buckets == 0 .. NumBuckets - 1
Addr == Buckets \X (0 .. PageSize - 1)

\* Not an address of the heap: NULL, or an object allocated elsewhere.
Outside == <<NumBuckets, 1>>

Tags == {"invalid", "value", "vector", "reference", "inner"}

Cell == [tag : Tags, count : Nat, at : Addr \cup {Outside}]

Invalid == [tag |-> "invalid", count |-> 0, at |-> Outside]
Value == [tag |-> "value", count |-> 1, at |-> Outside]
Header(n) == [tag |-> "vector", count |-> n, at |-> Outside]
Reference(a) == [tag |-> "reference", count |-> 1, at |-> a]
Inner(a, i) == [tag |-> "inner", count |-> i, at |-> a]

\* The cell k cells after a, in the same object.
Plus(a, k) == <<a[1], a[2] + k>>

VARIABLES
    mem,        \* the cells of the heap
    ptr,        \* bucket->ptr of each bucket, as an offset from bucket->base
    freeList,   \* heap->free_list, first bucket first
    current,    \* heap->current_bucket
    stack,      \* the evaluation stack above stack_ptr, top of stack first
    object,     \* handle->object of each handle
    active,     \* heap->active_object_handles
    idle,       \* heap->free_object_handles
    pc,         \* what the thread is doing
    request,    \* the allocation perform_alloc is serving
    try,        \* the loop counter of perform_alloc
    flag,       \* the cells whose tag_count.flag is FLAG_MARKED
    cost,       \* heap->bucket_costs
    pending,    \* the scan_object calls still to be made
    next,       \* the loop counter of reclaim_empty_buckets
    reclaimed   \* num_reclaimed of gc_collect

memVars == <<mem, ptr, freeList, current>>
rootVars == <<stack, object, active, idle>>
allocVars == <<request, try>>
gcVars == <<flag, cost, pending, next, reclaimed>>
vars == <<memVars, rootVars, pc, allocVars, gcVars>>

-----------------------------------------------------------------------------
(* What the collector follows, and what the program can reach.             *)

IsVector(a) == a \in Addr /\ mem[a].tag = "vector"

Elements(a) == {Plus(a, k) : k \in 1 .. mem[a].count}

\* An inner reference to an aggregate whose count is the index of no element.
IsAstray(v) == v.tag = "inner" /\ IsVector(v.at) /\ v.count >= mem[v.at].count

\* The objects scan_object goes on to from a cell holding v.  An inner
\* reference leads to its parent and, when the parent is an aggregate, to the
\* element VECTOR_BASE(parent) + count, which the code leaves alone when it
\* reached the parent by another way before.
ScanValue(v) ==
    CASE v.tag = "reference" -> {v.at} \cap Addr
      [] v.tag = "inner" ->
            {v.at} \cup (IF IsVector(v.at) /\ ~IsAstray(v) THEN {Plus(v.at, 1 + v.count)} ELSE {})
      [] OTHER -> {}

\* Mutant of Scan: the elements of an aggregate are flagged, not followed.
ScanShallow(a) == IF mem[a].tag = "vector" THEN Elements(a) ELSE {}

Scan(a) == IF mem[a].tag = "vector" THEN Elements(a) ELSE ScanValue(mem[a])

\* The cells an instruction or a builtin gets at through a value v when memory
\* is m.  deref() adds the index of an inner reference to its address; a return
\* address is used for the procedure it names.
UseValue(m, v) ==
    CASE v.tag = "reference" -> {v.at} \cap Addr
      [] v.tag = "inner" ->
            IF v.at \in DOMAIN m /\ m[v.at].tag = "vector" THEN {v.at}
            ELSE {Plus(v.at, v.count)}
      [] OTHER -> {}

Uses(m, a) ==
    IF a \notin DOMAIN m THEN {}
    ELSE IF m[a].tag = "vector" THEN {Plus(a, k) : k \in 1 .. m[a].count}
    ELSE UseValue(m, m[a])

\* The global environment, the first object allocated: one binding.
LexicalEnvironment == <<NumBuckets - 1, 0>>

HandleObjects == {object[h] : h \in active} \cap Addr

\* Mutant of ScanRoots: mark_object_handles is forgotten.
ScanStackOnly ==
    (UNION {ScanValue(stack[i]) : i \in DOMAIN stack}) \cup {LexicalEnvironment}

ScanRoots ==
    (UNION {ScanValue(stack[i]) : i \in DOMAIN stack})
        \cup {LexicalEnvironment} \cup HandleObjects

Roots ==
    (UNION {UseValue(mem, stack[i]) : i \in DOMAIN stack})
        \cup {LexicalEnvironment} \cup HandleObjects

\* The memory handed out by perform_alloc and not reclaimed.
Allocated == {a \in Addr : a[2] < ptr[a[1]]}

-----------------------------------------------------------------------------
(* gc_create, then environment_initialize's first allocation.              *)

Init ==
    /\ mem = [a \in Addr |-> IF a = LexicalEnvironment THEN Header(1)
                             ELSE IF a = Plus(LexicalEnvironment, 1) THEN Value
                             ELSE Invalid]
    /\ ptr = [b \in Buckets |-> IF b = NumBuckets - 1 THEN 2 ELSE 0]
    /\ freeList = [i \in 1 .. NumBuckets - 1 |-> NumBuckets - 1 - i]
    /\ current = NumBuckets - 1
    /\ stack = <<>>
    /\ object = [h \in Handles |-> Outside]
    /\ active = {} /\ idle = {}
    /\ pc = "program"
    /\ request = [op |-> "none", count |-> 0]
    /\ try = 0
    /\ flag = {} /\ pending = {}
    /\ cost = [b \in Buckets |-> 0]
    /\ next = 0 /\ reclaimed = 0

-----------------------------------------------------------------------------
(* The program: instructions and builtins that allocate nothing.           *)

Program(newStack) ==
    /\ pc = "program"
    /\ stack' = newStack
    /\ UNCHANGED <<object, active, idle, pc, allocVars, gcVars>>

\* LDIMM; LDEMPTY too, for the empty pair is no object of the heap.
PushImmediate ==
    /\ Len(stack) < MaxStack
    /\ Program(<<Value>> \o stack)
    /\ UNCHANGED memVars

\* LDSLOT.
LoadSlot ==
    /\ Len(stack) < MaxStack
    /\ \E i \in DOMAIN stack : Program(<<stack[i]>> \o stack)
    /\ UNCHANGED memVars

Pop ==
    /\ stack # <<>>
    /\ Program(Tail(stack))
    /\ UNCHANGED memVars

\* MAKE_REF then LOAD: the element at a constant index of the aggregate on top.
LoadElement ==
    /\ stack # <<>> /\ stack[1].tag = "reference" /\ IsVector(stack[1].at)
    /\ \E e \in Elements(stack[1].at) : Program(<<mem[e]>> \o Tail(stack))
    /\ UNCHANGED memVars

\* evil_vector_set(vector, index, value), whose result is the value.
VectorSet ==
    /\ Len(stack) >= 2 /\ stack[1].tag = "reference" /\ IsVector(stack[1].at)
    /\ \E e \in Elements(stack[1].at) :
          mem' = [mem EXCEPT ![e] = stack[2]]
    /\ Program(Tail(stack))
    /\ UNCHANGED <<ptr, freeList, current>>

\* evil_define: *bind(symbol) = value, whose result is the value.
Define ==
    /\ stack # <<>>
    /\ mem' = [mem EXCEPT ![Plus(LexicalEnvironment, 1)] = stack[1]]
    /\ Program(stack)
    /\ UNCHANGED <<ptr, freeList, current>>

\* evil_vector_ref: an inner reference whose parent is VECTOR_BASE(vector).  Nothing
\* reads through it here; make-vector, filling with it, and SET do in the code.
VectorRef ==
    /\ "vector-ref" \in Operations
    /\ stack # <<>> /\ stack[1].tag = "reference" /\ IsVector(stack[1].at)
    /\ \E i \in 0 .. mem[stack[1].at].count - 1 :
          Program(<<Inner(Plus(stack[1].at, 1), i)>> \o Tail(stack))
    /\ UNCHANGED memVars

\* CALL to a procedure: vm_push_return_address makes an inner reference to the
\* calling procedure whose index is the offset of the next bytecode.
PushReturnAddress ==
    /\ "call" \in Operations
    /\ Len(stack) < MaxStack
    /\ \E i \in DOMAIN stack, offset \in 0 .. MaxOffset :
          /\ stack[i].tag = "reference" /\ IsVector(stack[i].at)
          /\ Program(<<Inner(stack[i].at, offset)>> \o stack)
    /\ UNCHANGED memVars

-----------------------------------------------------------------------------
(* Object handles.                                                         *)

\* A destroyed handle is used again before a new one is allocated.
Takes(h) == IF idle # {} THEN h \in idle ELSE h \notin active

\* evil_create_object_handle.
Handle(h, o) ==
    /\ Takes(h)
    /\ active' = active \cup {h}
    /\ idle' = idle \ {h}
    /\ object' = [object EXCEPT ![h] = o]

HandleStep ==
    /\ pc = "program"
    /\ UNCHANGED <<memVars, stack, pc, allocVars, gcVars>>

\* evil_create_object_handle_from_value of a reference.
CreateHandle ==
    /\ stack # <<>> /\ stack[1].tag = "reference"
    /\ \E h \in Handles : Handle(h, stack[1].at)
    /\ HandleStep

DuplicateHandle ==
    /\ \E h \in Handles, from \in active : Handle(h, object[from])
    /\ HandleStep

DestroyHandle ==
    /\ \E h \in active :
          /\ object' = [object EXCEPT ![h] = Outside]
          /\ active' = active \ {h}
          /\ idle' = idle \cup {h}
    /\ HandleStep

\* vm_run retargets its handle to the FIELD_LEXICAL_ENVIRONMENT element of the
\* procedure it enters: the address of an element, not of an object.
RetargetHandle ==
    /\ stack # <<>> /\ stack[1].tag = "reference" /\ IsVector(stack[1].at)
    /\ \E h \in active, e \in Elements(stack[1].at) :
          object' = [object EXCEPT ![h] = e]
    /\ UNCHANGED <<active, idle>>
    /\ HandleStep

-----------------------------------------------------------------------------
(* Allocation.                                                             *)

Allocate(op, n) ==
    /\ pc = "program"
    /\ pc' = "alloc"
    /\ request' = [op |-> op, count |-> n]
    /\ try' = 0
    /\ UNCHANGED <<memVars, rootVars, gcVars>>

\* evil_vector and evil_cons: a vector of their arguments.
CallVector ==
    /\ \E n \in 0 .. MaxCount :
          /\ n <= Len(stack) /\ (n = 0 => Len(stack) < MaxStack)
          /\ Allocate("vector", n)

\* evil_create_object_handle_from_value of a value, which is boxed.
CallBox ==
    /\ stack # <<>> /\ stack[1].tag \in {"value", "inner"}
    /\ active # Handles
    /\ Allocate("box", 0)

\* The cells of the object perform_alloc places at the head of the bucket,
\* and what its caller writes there before anything else is allocated.
Contents(k) ==
    IF request.op = "vector" /\ k = 0 THEN Header(request.count)
    ELSE IF request.op = "vector" THEN stack[k]
    ELSE stack[1]

Size == 1 + request.count

\* Mutant of Fits: the header is not counted.
FitsWithoutHeader == PageSize - ptr[current] >= request.count

Fits == PageSize - ptr[current] >= Size

NewObject == <<current, ptr[current]>>

NewCells == {Plus(NewObject, k) : k \in 0 .. request.count}

\* Where the caller of the allocation keeps the new object.
Root ==
    \/ /\ request.op = "vector"
       /\ stack' = <<Reference(NewObject)>> \o SubSeq(stack, request.count + 1, Len(stack))
       /\ UNCHANGED <<object, active, idle>>
    \/ /\ request.op = "box"
       /\ \E h \in Handles : Handle(h, NewObject)
       /\ UNCHANGED stack

\* First iteration or second, the request fits in the current bucket.
Bump ==
    /\ pc = "alloc" /\ try < 2
    /\ Fits
    /\ mem' = [a \in Addr |-> IF a \in NewCells THEN Contents(a[2] - ptr[current]) ELSE mem[a]]
    /\ ptr' = [ptr EXCEPT ![current] = @ + Size]
    /\ Root
    /\ pc' = "program"
    /\ UNCHANGED <<freeList, current, allocVars, gcVars>>

\* acquire_bucket, on a free list that is not empty.
Acquire ==
    /\ current' = Head(freeList)
    /\ freeList' = Tail(freeList)

NextBucket ==
    /\ pc = "alloc" /\ try < 2
    /\ ~Fits /\ freeList # <<>>
    /\ Acquire
    /\ try' = try + 1
    /\ UNCHANGED <<mem, ptr, rootVars, pc, request, gcVars>>

-----------------------------------------------------------------------------
(* gc_collect.  The scan_object calls that remain to be made are a set: the  *)
(* recursion makes them in one order, these actions in every order.        *)

\* Mutant of StartCollection: the costs of the last collection are kept.
StartCollectionKeepingCosts ==
    /\ pc = "alloc" /\ try < 2
    /\ ~Fits /\ freeList = <<>>
    /\ pending' = ScanRoots \ flag
    /\ pc' = "mark"
    /\ UNCHANGED <<memVars, rootVars, allocVars, flag, cost, next, reclaimed>>

\* initialize_bucket_costs, then mark_roots(FLAG_MARKED).
StartCollection ==
    /\ pc = "alloc" /\ try < 2
    /\ ~Fits /\ freeList = <<>>
    /\ cost' = [b \in Buckets |-> 0]
    /\ pending' = ScanRoots \ flag
    /\ pc' = "mark"
    /\ UNCHANGED <<memVars, rootVars, allocVars, flag, next, reclaimed>>

\* Mutant of Mark: only aggregates add to the cost of their bucket.
MarkCountingAggregates ==
    /\ pc = "mark"
    /\ \E a \in pending :
          /\ flag' = flag \cup {a}
          /\ cost' = [cost EXCEPT ![a[1]] = IF IsVector(a) THEN @ + 1 ELSE @]
          /\ pending' = (pending \cup Scan(a)) \ flag'
    /\ UNCHANGED <<memVars, rootVars, pc, allocVars, next, reclaimed>>

\* Mutant of Mark: the flag is not set.
MarkWithoutFlag ==
    /\ pc = "mark"
    /\ \E a \in pending :
          /\ cost' = [cost EXCEPT ![a[1]] = 1]
          /\ pending' = (pending \ {a}) \cup Scan(a)
    /\ UNCHANGED <<memVars, rootVars, pc, allocVars, flag, next, reclaimed>>

\* scan_object(FLAG_MARKED) of an object that is not marked: mark_object, then
\* the objects it leads to.  An unknown tag is a BREAK.
Mark ==
    /\ pc = "mark"
    /\ \E a \in pending :
          /\ flag' = flag \cup {a}
          /\ cost' = [cost EXCEPT ![a[1]] = @ + 1]
          /\ pending' = (pending \cup Scan(a)) \ flag'
          /\ pc' = IF mem[a].tag = "invalid" THEN "halted" ELSE "mark"
    /\ UNCHANGED <<memVars, rootVars, allocVars, next, reclaimed>>

\* scan_object of VECTOR_BASE(parent) + count, beyond the elements of the parent.
\* The code comes to it if this reference led it to the parent first, and the
\* walk that clears the flags then takes the same way as this one.
ScanAstray ==
    /\ pc = "mark"
    /\ \E v \in {stack[i] : i \in DOMAIN stack} \cup {mem[a] : a \in flag} : IsAstray(v)
    /\ pc' = "astray"
    /\ UNCHANGED <<memVars, rootVars, allocVars, gcVars>>

StartReclaim ==
    /\ pc = "mark" /\ pending = {}
    /\ pc' = "reclaim"
    /\ next' = 0 /\ reclaimed' = 0
    /\ UNCHANGED <<memVars, rootVars, allocVars, flag, cost, pending>>

\* Mutant of ReclaimBucket: bucket->ptr is not reset.
ReclaimKeepingPtr(b) ==
    /\ freeList' = <<b>> \o freeList
    /\ reclaimed' = reclaimed + 1
    /\ UNCHANGED ptr

\* reclaim_bucket.
ReclaimBucket(b) ==
    /\ ptr' = [ptr EXCEPT ![b] = 0]
    /\ freeList' = <<b>> \o freeList
    /\ reclaimed' = reclaimed + 1

\* Mutant of Reclaim: a bucket with one live cell passes for an empty one.
ReclaimCheap ==
    /\ pc = "reclaim" /\ next < NumBuckets
    /\ IF cost[next] <= 1 THEN ReclaimBucket(next) ELSE UNCHANGED <<ptr, freeList, reclaimed>>
    /\ next' = next + 1
    /\ UNCHANGED <<mem, current, rootVars, pc, allocVars, flag, cost, pending>>

\* One iteration of reclaim_empty_buckets.
Reclaim ==
    /\ pc = "reclaim" /\ next < NumBuckets
    /\ IF cost[next] = 0 THEN ReclaimBucket(next) ELSE UNCHANGED <<ptr, freeList, reclaimed>>
    /\ next' = next + 1
    /\ UNCHANGED <<mem, current, rootVars, pc, allocVars, flag, cost, pending>>

\* mark_roots(FLAG_UNMARKED).
StartUnmark ==
    /\ pc = "reclaim" /\ next = NumBuckets
    /\ pc' = "unmark"
    /\ pending' = ScanRoots \cap flag
    /\ UNCHANGED <<memVars, rootVars, allocVars, flag, cost, next, reclaimed>>

\* Mutant of Unmark: what the object refers to is not scanned.
UnmarkShallow ==
    /\ pc = "unmark"
    /\ \E a \in pending :
          /\ flag' = flag \ {a}
          /\ pending' = pending \cap flag'
    /\ UNCHANGED <<memVars, rootVars, pc, allocVars, cost, next, reclaimed>>

\* scan_object(FLAG_UNMARKED) of an object that is marked.
Unmark ==
    /\ pc = "unmark"
    /\ \E a \in pending :
          /\ flag' = flag \ {a}
          /\ pending' = (pending \cup Scan(a)) \cap flag'
    /\ UNCHANGED <<memVars, rootVars, pc, allocVars, cost, next, reclaimed>>

\* Mutant of FinishCollection: the bucket in use is kept though it may have been
\* reclaimed.
FinishKeepingBucket ==
    /\ pc = "unmark" /\ pending = {}
    /\ IF reclaimed > 0 THEN pc' = "alloc" /\ try' = try + 1 ELSE pc' = "halted" /\ UNCHANGED try
    /\ UNCHANGED <<memVars, rootVars, request, gcVars>>

\* The end of gc_collect: perform_alloc goes on with a bucket that was
\* reclaimed, or BREAK stops the program.
FinishCollection ==
    /\ pc = "unmark" /\ pending = {}
    /\ IF reclaimed > 0
       THEN /\ Acquire
            /\ try' = try + 1
            /\ pc' = "alloc"
       ELSE /\ pc' = "halted"
            /\ UNCHANGED <<freeList, current, try>>
    /\ UNCHANGED <<mem, ptr, rootVars, request, gcVars>>

\* The program has stopped, or nothing more is known of it.
Halted == pc \in {"halted", "astray"} /\ UNCHANGED vars

-----------------------------------------------------------------------------

ProgramStep ==
    \/ PushImmediate \/ LoadSlot \/ Pop \/ LoadElement \/ VectorSet \/ Define
    \/ VectorRef \/ PushReturnAddress
    \/ CreateHandle \/ DuplicateHandle \/ DestroyHandle \/ RetargetHandle
    \/ CallVector \/ CallBox

HeapStep ==
    \/ Bump \/ NextBucket
    \/ StartCollection \/ Mark \/ ScanAstray \/ StartReclaim \/ Reclaim
    \/ StartUnmark \/ Unmark \/ FinishCollection

Next == ProgramStep \/ HeapStep \/ Halted

Spec == Init /\ [][Next]_vars

\* The thread that allocates does nothing else until perform_alloc returns.
FairSpec == Spec /\ WF_vars(HeapStep)

-----------------------------------------------------------------------------
(* Correctness.                                                            *)

TypeOK ==
    /\ mem \in [Addr -> Cell]
    /\ ptr \in [Buckets -> 0 .. PageSize]
    /\ freeList \in Seq(Buckets)
    /\ current \in Buckets
    /\ stack \in Seq(Cell)
    /\ object \in [Handles -> Addr \cup {Outside}]
    /\ active \subseteq Handles /\ idle \subseteq Handles
    /\ pc \in {"program", "alloc", "mark", "reclaim", "unmark", "halted", "astray"}
    /\ request \in [op : {"none", "vector", "box"}, count : Nat]
    /\ try \in 0 .. 2
    /\ flag \subseteq Addr /\ pending \subseteq Addr
    /\ cost \in [Buckets -> Nat]
    /\ next \in 0 .. NumBuckets
    /\ reclaimed \in Nat

Heap == INSTANCE ObjectHeap WITH
            store <- [a \in Allocated |-> mem[a]], roots <- Roots

\* gc.c as a whole: allocation, collection and handles never lose an object that
\* the program can reach, and change no object but the one it writes to.
ImplementsObjectHeap == Heap!Spec

Holds(S) == Roots \subseteq S /\ \A a \in S : Uses(mem, a) \subseteq S

\* The cells the program can reach: every set closed under use holds them.
Live ==
    LET closed == {S \in SUBSET Addr : Holds(S)}
    IN  {a \in Addr : \A S \in closed : a \in S}

\* reclaim_empty_buckets never takes the bucket of a reachable object: all that
\* the program can reach is memory handed out by perform_alloc since.
LiveMemoryKept == \E garbage \in SUBSET Allocated : Holds(Allocated \ garbage)

\* Reclaiming relinks a bucket without looking whether it is linked: the list
\* stays free of duplicates, of the bucket in use and of buckets in part used.
FreeListSound ==
    /\ \A i, j \in DOMAIN freeList : freeList[i] = freeList[j] => i = j
    /\ \A i \in DOMAIN freeList : ptr[freeList[i]] = 0
    /\ pc \in {"program", "alloc"} => \A i \in DOMAIN freeList : freeList[i] # current

\* What mark_roots sets, mark_roots clears: a flag left behind would hide an
\* object and all it refers to from the next collection.
FlagsCleared == pc \in {"program", "alloc"} => flag = {}

\* The collector reads and flags nothing but cells of objects that are still
\* there, so that no flag is written into the middle of a value and every tag read
\* is one: no reference the collector follows outlives what it leads to.
ScansOnlyObjects == pending \subseteq Allocated

\* "A type of reference to the inside of an aggregate object": no scan of an inner
\* reference leaves its object.
InnerReferencesLeadInside == pc # "astray"

\* When reclaim_empty_buckets starts, the cost of a bucket is the number of reachable
\* cells in it: zero exactly for the buckets that hold only garbage.
CostsCountLiveCells ==
    pc = "reclaim" /\ next = 0 =>
        LET live == Live IN
        \A b \in Buckets : cost[b] = Cardinality({a \in live : a[1] = b})

\* perform_alloc makes two attempts.  The second one finds room, whether it
\* follows a bucket taken from the free list or a collection.
SecondTryFits == pc = "alloc" /\ try > 0 => Fits

\* The BREAK of gc_collect means that a reachable object sits in every bucket.
BreaksOnlyWhenPinned ==
    pc = "halted" => LET live == Live IN \A b \in Buckets : \E a \in live : a[1] = b

\* Bump allocation never places an object over one that is reachable.
AllocationSparesLive ==
    [][pc = "alloc" /\ mem' # mem => \A a \in Live : mem'[a] = mem[a]]_vars

\* perform_alloc returns or breaks: the loop and each scan come to an end, as long as
\* the scans stay with objects.
AllocationEnds == pc = "alloc" ~> pc \in {"program", "halted", "astray"}
=============================================================================
