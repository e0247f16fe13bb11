----------------------------- MODULE MachineHeap ----------------------------
(***************************************************************************)
(* The collector of GcHeap scanning the evaluation stack as it lies in     *)
(* memory.  A slot that is popped keeps its contents, and CALL makes room  *)
(* for the locals of a procedure by moving sp over such slots without      *)
(* clearing them: until a let stores into its slot, the collector follows  *)
(* whatever an earlier frame left there.                                   *)
(*                                                                         *)
(* Objects are laid out anew in memory that was reclaimed, so that a       *)
(* leftover which leads there may lead into the middle of one: the scan    *)
(* then takes any bytes for a tag and writes its flag among them.  The     *)
(* model goes no further when a collection comes to such a slot            *)
(* (ScanStale).                                                            *)
(*                                                                         *)
(* A slot is numbered from the top of the stack's memory, where the first  *)
(* value is pushed.  Handles play no part here and are left out.           *)
(***************************************************************************)
EXTENDS GcHeap

CONSTANT MaxLocals      \* bound on the locals reserved by a CALL

ASSUME LocalsAssumption == MaxLocals \in Nat

VARIABLES
    slots,      \* the memory between stack_bottom and stack_top
    unset,      \* the slots reserved for locals that nothing was stored in yet
    stale       \* the slots whose leftovers lead into memory reclaimed since

slotVars == <<slots, unset, stale>>
machineVars == <<vars, slotVars>>

\* The slot of the k-th value of the stack, the top of the stack being first.
Slot(k) == Len(stack) - k + 1

InUse == 1 .. Len(stack)

\* memset(stack, 0, stack_size): every slot has the tag TAG_INVALID.
MachineInit ==
    /\ Init
    /\ slots = [i \in 1 .. MaxStack |-> Invalid]
    /\ unset = {} /\ stale = {}

-----------------------------------------------------------------------------

\* What is pushed is written over what was there; what is popped stays.
Written ==
    /\ slots' = [i \in 1 .. MaxStack |->
                    IF i <= Len(stack') THEN stack'[Len(stack') - i + 1] ELSE slots[i]]
    /\ unset' = unset \cap 1 .. Len(stack')
    /\ stale' = stale \ ((1 .. Len(stack')) \ unset')

\* The k values on top are operands.  Compiled code reads no local before the
\* let that declares it has stored into it.
Operands(k) == k <= Len(stack) /\ \A i \in 1 .. k : Slot(i) \notin unset

\* CALL of a procedure: sp -= vm_extract_num_locals(fn).
ReserveLocals ==
    \E n \in 1 .. MaxLocals :
        /\ Len(stack) + n <= MaxStack
        /\ Program([i \in 1 .. n |-> slots[Len(stack) + n - i + 1]] \o stack)
        /\ unset' = unset \cup (Len(stack) + 1 .. Len(stack) + n)
        /\ UNCHANGED <<memVars, slots, stale>>

\* STSLOT of a let variable: the value on top goes to the slot of the local.
StoreSlot ==
    /\ Operands(1)
    /\ \E k \in 2 .. Len(stack) :
          /\ Program(Tail([stack EXCEPT ![k] = stack[1]]))
          /\ slots' = [slots EXCEPT ![Slot(k)] = stack[1]]
          /\ unset' = unset \ {Slot(k)}
          /\ stale' = stale \ {Slot(k)}
    /\ UNCHANGED memVars

\* Mutant of LoadSetSlot: a local is read before the let that stores into it.
LoadAnySlot ==
    /\ Len(stack) < MaxStack
    /\ \E i \in InUse : Program(<<stack[i]>> \o stack)
    /\ UNCHANGED memVars

\* LDSLOT of a local or an argument that holds a value.
LoadSetSlot ==
    /\ Len(stack) < MaxStack
    /\ \E i \in InUse : Slot(i) \notin unset /\ Program(<<stack[i]>> \o stack)
    /\ UNCHANGED memVars

MachineProgram ==
    \/ ReserveLocals
    \/ StoreSlot
    \/ /\ \/ PushImmediate
          \/ LoadSetSlot
          \/ Pop
          \/ Operands(1) /\ (LoadElement \/ Define)
          \/ Operands(2) /\ VectorSet
       /\ Written
    \/ /\ \E n \in 0 .. MaxCount : Operands(n) /\ (n = 0 => Len(stack) < MaxStack)
                                   /\ Allocate("vector", n)
       /\ UNCHANGED slotVars

\* mark_roots comes to a slot whose leftover leads into reclaimed memory.
ScanStale ==
    /\ pc = "alloc" /\ try < 2
    /\ ~Fits /\ freeList = <<>>
    /\ InUse \cap stale # {}
    /\ pc' = "astray"
    /\ UNCHANGED <<memVars, rootVars, allocVars, gcVars, slotVars>>

StartScan == StartCollection /\ InUse \cap stale = {}

\* scan_object of a slot with the tag TAG_INVALID: the BREAK of its default case.
BreakOnSlot ==
    /\ pc = "mark"
    /\ \E i \in InUse : stack[i].tag = "invalid"
    /\ pc' = "halted"
    /\ UNCHANGED <<memVars, rootVars, allocVars, gcVars, slotVars>>

\* mark_roots ends when every slot has been scanned.
MarkedRoots == StartReclaim /\ \A i \in InUse : stack[i].tag # "invalid"

\* What leads to nothing of bucket b by any way: the largest set of addresses that
\* is closed under Scan and has nothing of it.
Apart(b) == UNION {S \in SUBSET Addr : \A a \in S : a[1] # b /\ Scan(a) \subseteq S}

\* reclaim_empty_buckets looks at no slot.
MachineReclaim ==
    /\ Reclaim
    /\ stale' = stale \cup (IF cost[next] # 0 THEN {}
                            ELSE {p \in (1 .. MaxStack) \ InUse :
                                     ~(ScanValue(slots[p]) \subseteq Apart(next))})
    /\ UNCHANGED <<slots, unset>>

MachineHeapStep ==
    \/ Bump /\ Written
    \/ MachineReclaim
    \/ ScanStale \/ BreakOnSlot
    \/ /\ \/ NextBucket \/ StartScan \/ Mark \/ MarkedRoots
          \/ StartUnmark \/ Unmark \/ FinishCollection
       /\ UNCHANGED slotVars

MachineHalted == Halted /\ UNCHANGED slotVars

MachineNext == MachineProgram \/ MachineHeapStep \/ MachineHalted

MachineSpec == MachineInit /\ [][MachineNext]_machineVars

-----------------------------------------------------------------------------
(* Correctness.                                                            *)

ProgramRoots ==
    (UNION {UseValue(mem, stack[i]) : i \in {k \in InUse : Slot(k) \notin unset}})
        \cup {LexicalEnvironment}

\* A collection that comes to no stale slot loses nothing: whatever else the slots
\* hold that were not set, no memory is reclaimed that the program can reach from
\* the slots it has set.
ReachableIsKept ==
    \E garbage \in SUBSET Allocated :
        LET kept == Allocated \ garbage IN
        ProgramRoots \subseteq kept /\ \A a \in kept : Uses(mem, a) \subseteq kept

\* scan_object's default case, "Unhandled object type?", is a BREAK: whatever the
\* collector is led to has a tag it knows.
EveryTagIsHandled ==
    pc = "mark" => /\ \A i \in InUse : stack[i].tag # "invalid"
                   /\ \A a \in pending : mem[a].tag # "invalid"
=============================================================================
