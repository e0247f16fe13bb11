# A verification of evilscheme

evilscheme is an R4RS-flavoured Scheme in C: a reader, a compiler from forms to
bytecode, a virtual machine and a garbage-collected heap, in one thread. This
directory holds TLA+ models of its core, the TLC configurations that check them,
and proofs that TLAPS checks. `PROJECT.json` lists components, runs, mutants,
findings, hazards and theorems, and maps every definition to the lines of code it
stands for.

## The system

| component | state | operations | used by |
|---|---|---|---|
| heap (`gc.c`) | buckets with a bump pointer, free list, current bucket, costs, a flag in every object | allocate, collect | everything that makes an object |
| object handles (`gc.c`) | active and free list, the object of each | create, duplicate, retarget, destroy | reader, compiler, `vm_run`, embedding programs |
| objects (`object.h`, `evil_scheme.h`) | tag, flag, count, value | `deref`, `make_ref`, `make_inner_reference` | all |
| virtual machine (`vm.c`) | evaluation stack, `stack_ptr`; in every `vm_run` the procedure, pc, program area, sp, environment handle | one per opcode | `evil_eval`, `evil_apply`, the embedding program |
| compiler (`lambda.c`) | scopes of stack slots, a linked list of instructions | `compile_form`, three passes, `assemble` | `evil_lambda`, `evil_eval` |
| closures (`lambda.c`) | captured variables, environments made while compiling | bind, demote slots to environment lookups | compiler |
| symbol tables (`environment.c`) | chains of fragments of sixteen bindings in nested environments | `bind`, lookup | `define`, variables |
| interning (`runtime.c`) | pages of names and of hashes | `register_symbol_*`, `find_symbol_name` | reader, printer |
| reader (`read.c`) | a linked list of tokens | tokenize, expand quotes, validate, build pairs | `read` |
| builtins (`builtins.c`) | none of their own | `cons`, `vector*`, `define`, `apply`, `eval`, `print` | compiled code |
| lists, linear allocator | links; chunks | push, pop, remove, reverse; alloc | heap, compiler |

How they interact: compiled code runs in `vm_run`, which calls builtins as C
functions on its own stack; builtins allocate, and an allocation that does not fit
collects. A collection reads what everything else has left in the stack above
`environment->stack_ptr`, in the global environment and in handles. `apply` and
`eval` call `vm_run` again, on top of the stack of the first. `eval` compiles, and
the compiler allocates.

What is hard: there is no concurrency and nothing persists. The difficulty is the
collector, which may run inside any allocation and sees only what has been
published to it; values that are kept across an allocation in a C variable; the
tail call, which rewrites the frame it runs in; nested runs of the virtual
machine; passes over an instruction list that they relink; and everything at its
limit: the last bucket, the second attempt, the end of the stack. What makes each
component correct is stated below with the module that models it.

## Modules

| module | what it is |
|---|---|
| `GcHeap` | the heap and the handles, driven by the instructions and builtins that use them |
| `ObjectHeap` | what a heap promises: a store that loses only what cannot be reached; `GcHeap` implements it |
| `GcHeap_proofs` | proofs about the free list, for all programs, and, for programs without inner references, about flags, reachability and that `GcHeap` implements `ObjectHeap`; then about `MachineHeap`, with unset slots |
| `VmStack` | the evaluation stack: frames in memory, calls, tail calls, returns, nested runs |
| `CallStack` | what the stack promises: a list of separate frames; `VmStack` implements it |
| `VmStack_proofs` | the inductive invariant of the stack: chains of linked, separate frames, and what follows for environments and sizes |
| `VmStackRefines_proofs` | the proof that `VmStack` implements `CallStack` |
| `MachineHeap` | the two together: `GcHeap` with the stack as it lies in memory, leftovers and unset slots included |
| `Instructions` | instructions, the lists of them, and where an instruction leads |
| `Compiler` | from forms to lists of instructions, and what forms mean |
| `Passes` | from a list of instructions to optimised bytecode, and the run of that code |
| `Listing` | what the code of a procedure promises: to run its list in order; `Passes` implements it |
| `Passes_proofs` | what each pass makes of a list, and the proof that `Passes` implements `Listing` |
| `Closures` | nested lambdas: captured variables, demoted slots, environments made while compiling, and calls |
| `Closures_proofs` | proof of the types of `Closures`, slots of variables in scope included |
| `SymbolTable` | environments as chains of fragments: bind, search, define, assignment |
| `Scopes` | what environments promise: nested maps from symbols to values; `SymbolTable` implements it |
| `SymbolTable_proofs` | the invariant of the tables, and the proof that `SymbolTable` implements `Scopes` |
| `Induction` | induction on numbers and along links, and functions defined along links, for the proofs |
| `Interning` | pages of names and hashes, and the name of a symbol |
| `Names` | what interning promises: a symbol keeps its name; `Interning` implements it |
| `Interning_proofs` | the invariant of the pages, and the proof that `Interning` implements `Names` |
| `Reader` | from characters to objects: tokens, their reversal, the expansion of marks, construction |
| `Datum` | how data are written and what they mean: the reference for `Reader` |
| `MC...` | constants, programs, views and symmetry for TLC |

### GcHeap

An address is a bucket and an offset; the unit is a cell, one `evil_object_t`.
An aggregate (vector, pair, procedure) is a header cell and its elements, which is
how `scan_object` walks it. `mem`, `ptr`, `freeList`, `current` are the heap;
`stack`, `object`, `active`, `idle` the roots; `request`, `try` are the C variables
of `perform_alloc`, and `flag`, `cost`, `pending`, `next`, `reclaimed` those of
`gc_collect`. `pc` tells where the one thread is.

The program side has an action per kind of instruction or builtin that touches
the heap: `PushImmediate`, `LoadSlot`, `Pop`, `LoadElement` (MAKE_REF and LOAD),
`VectorSet`, `Define`, `VectorRef`, `PushReturnAddress`, the four operations of
handles, and `CallVector` and `CallBox`, which start an allocation. The heap side
is `Bump` and `NextBucket` (the iterations of `perform_alloc`), `StartCollection`,
`Mark`, `StartReclaim`, `Reclaim` (one bucket of the loop each), `StartUnmark`,
`Unmark` and `FinishCollection`. The recursive scans are a set of cells still to
scan, taken in any order: the code's order is one of them. An object is allocated
and filled by its caller in one step (`Bump`), which is right for `cons` and
`vector`, not for callers that allocate again before they fill; those are listed
as hazards.

The flag is a byte of the object's first word, and headers, elements and the bytes of
strings differ in size; here flags are a set of cells, all alike. That is right as long as
every scan begins at an object, which is what `ScansOnlyObjects` says. A scan that does
not takes any bytes for a tag and writes its flag among them (`gc.c:398`), to stop, or to
change live data. The model says nothing of that and ends where such a scan begins:
`ScanAstray` is the step of the collector to the element of an inner reference that its
object does not have. `Halted` is the end of the model, at a BREAK or there.

The global environment is one binding in the first object allocated.
`Operations` gates `vector-ref` and `call`: both put inner references in the hands
of the collector, and both are findings. The passing runs of safety and all proofs
but that of the free list take `Operations = {}`; `heap_liveness` takes everything, and shows
that an allocation ends if its scan does not leave the objects.

### VmStack

The stack is an array of slots that grows down, as in `vm.c`. `runs` has the C
variables of every `vm_run` in progress: `sp`, `area` (program_area), `proc`, `pc`,
`env` (the handle's environment), `old` (old_stack), what it is doing, and, during
a call of a special function, the number of arguments and the program area to go
back to. The bodies of procedures are not programs but every sequence of
instructions that keeps to its own temporaries and reads only slots with a value:
what holds here holds for whatever the compiler emits. `Call`, `TailCall`,
`CallSpecial`, `TailCallSpecial`, `SpecialReturns` and `Return` are the paths of
CALL, TAILCALL and RETURN; `VmRun` is the prologue, used by `EnterRun` and, from
within a special function, by `ApplyProcedure`.

The refinement mapping (`Frames`) reads frames out of the memory by following the
chain, as RETURN will. `CallStack` has no memory: a call puts a frame on a list, a
tail call replaces the first one, a return drops it. What TLC shows with it is that
no step of any frame touches another frame, saved chains included.

`Operations` gates a tail call of a special function with another number of
arguments than the caller's, `apply` of a closure, and LDSTR.

### Compiler

A form is a tuple over a few constructors; `Compile` gives its instructions in the
order they run (the code builds the same list from the end, with `next` pointing
to the instruction before, which `next` here still does), and `Passes` takes these lists
for a constant, `Compiled`, so that it can be reasoned about without the recursion over
forms; `CompilerAssumption` ties the two together. `CollapseNops`,
`EliminateBranchToReturn` are one iteration of their loop per step, with the
cursor the loop has; `PromoteTailcalls` looks at each instruction by itself and is
one step. `Assemble` lays the list out in bytes, and the instructions then run on a
frame of the size that CALL reserves. `Eval` is what a form means, written from R4RS
by itself: the reference the compiled code is checked against. Values are terms,
so that a wrong operand, order or arm always shows.

The assertions of the virtual machine are active unless the build defines NDEBUG, and the
model has those that a compiled program can come to: COND_BRANCH stops at a condition that is no
boolean, LOAD at an unbound variable, operators at operands that are no numbers (`Faulty`,
`Break`). `Eval` says of a form whether it comes to one of these (`stops`), so that `ResultIsValue` is about where programs stop as well as what they return.
That the condition of an if should be allowed any value is `AnyValueIsATest`, which the code
does not keep: a finding. The global variable, `global`, is given any of three values at the start:
either boolean, or a number.

`Listing` runs the same list as it was built: no passes, offsets or displacements, nops and
branches take no step (`Settled`), and a call before the return is the last step. The
refinement mapping takes the offset `pc` to the instruction that lies there, and that to
where it leads. A pass that loses, reorders or redirects an instruction, a displacement
or an offset that is off, a tail call too many or too few: each is a step that `Listing`
does not have.

`MCCompiler` enumerates bodies: every small form (constants, variables, calls,
operators, ifs, lets, begins) in every position of an if, operator, call, let or
begin, some deeper ifs, and nested lets. Its `Operations` gates the three kinds of
forms that are findings: an if that ends the consequent of an if, a let whose
initialiser names an outer variable of the same name, and a begin with values as
an operand.

### MachineHeap

`GcHeap` takes a stack to be its values. In memory a slot that is popped keeps what it
held, and CALL makes room for locals by moving `sp` (`ReserveLocals`), so that the
collector scans what an earlier frame left, or what was never set. `slots` is the memory,
`unset` the reserved slots that nothing was stored in yet; `stack` is still the part in
use, of which the steps of `GcHeap` read and change what they always did. Compiled code
reads no local before the let that declares it has stored in it (`Operands`,
`LoadSetSlot`); that is `LocalsReserved` and `ResultIsValue` of `Compiler`. The
roots of the program are the slots that are set, the roots of the collector all of them.

What is not set may lead to an object that is still there, garbage perhaps, which the
collector then keeps; or into memory that was reclaimed since, where a newer object may lie
across the address; or it has the tag `TAG_INVALID`, at which `scan_object` stops
(`BreakOnSlot`): a finding. `stale` has the slots of the second kind, which `MachineReclaim`
adds to: those outside the part in use that lead into the bucket it reclaims, or lead to what does
(`Apart`). A collection with such a slot in use is where the model ends (`ScanStale`), for the
reason given for `ScanAstray`. So `ReachableIsKept` and `ScansOnlyObjects` say that
the leftovers which a collection may follow, up to there, cost room only; they do not say that
a stale slot is harmless.

### Closures

`contexts` is the stack of compiler contexts. A program is a sequence of what the compiler
meets in its walk, so that a step of the model is a form: a variable read or assigned, a
let opened, its next variable, its body, its end, a lambda entered or left. `Read` of a
variable of an outer procedure is `Capture`: `identify_local_in_previous_context` and
`bind_symbol_for_scoped_environment`, which make the environment and mark the slot.
`Initializers` and `DemoteClosureReferences` then choose, at the end of a let's bindings
and of a lambda, where the slot's accesses go. The code runs when all is compiled; `Call`
is a call from outside of any procedure made so far. Every value is named by
the variable, activation and instruction that stored it, and every instruction carries
the variable that it is meant to access, found by Scheme's scopes (`VariableNamed`) and by
the activations in which the procedures were made (`ActivationOf`): `ReadsMeanVariables`
compares the two. `OneStoragePerVariable` is about the code alone.

Eight things the compiler gets wrong are gated by `Operations`: a captured argument, a
`set!` of a captured variable in its own procedure, an assignment with no read before
it, variables of two procedures, a slot used again, two captured variables of one name, an
initialiser that captures its own variable, and a procedure called twice. With any one of
them a property fails; the passing run shows that nothing else does, in programs of
this size.

### SymbolTable

`parent` and `firstFragment` are the fields of environments, `fragments` the tables.
`Bind` has the three cases of `bind`. `ImplementsScopes` relates each operation to its
counterpart in `Scopes`, and not only each step to some step: a `BindScoped` that should
do nothing does nothing. An assignment to a variable bound nowhere
writes to `empty_pair_storage`, gated as `"setUnbound"` (a finding).

### Interning

`stringPages` has bytes, so that a terminator too few or a string over another shows;
`hashPages` has sorted entries, searched as bsearch does. The hash is a given function, with
collisions. `FindSymbolName` is the refinement mapping to `Names`. `registering` is the
call in progress: `intern_string` and `intern_hash` call themselves once for every page
they add. `Sorted` is what qsort leaves: the entries in some order without inversions.
`Search` goes the way of bsearch, so that it finds nothing reliable in a page that is not sorted.

### Reader

`tokens` are numbered by creation and linked as in the code. `Tokenize`, `ReverseToken`
and `ApplyExpansions` do one token each; `Create` is the recursive construction. A
failed assertion is the phase `failed`. A marked list at the end of the text makes the code
write through the pair that ends every list and go on; the phase is then `overrun`, for the
datum is returned but the empty list of the program is no longer empty. `Datum` writes data
as characters and says what they mean. `ReadsWhatIsWritten` is an equivalence: the data for
which `evil_read` gives what was written are exactly the `Readable` ones, so that every flaw in
the relinking is named by a clause of `Readable`. A vector stands for a call of `vector`, as
the code makes it.

## Runs

| run | shows | size |
|---|---|---|
| `heap_safety` | type correctness, no reachable object lost, free list, flags, costs, the second attempt, BREAK | 3 buckets of 2 cells, stack of 2, 1 handle |
| `heap_refinement` | `GcHeap` implements `ObjectHeap`; allocation spares what is live | 2 buckets of 3 cells, vectors of 2, 1 handle |
| `heap_liveness` | every allocation ends, with all operations, or its scan leaves the objects | 2 buckets of 2 cells, 2 handles |
| `vm_frames` | `VmStack` implements `CallStack`; environments; no stack lost; the roots of special functions | 13 slots, 3 procedures, 2 nested runs |
| `compiler` | compiled code returns what the form means, and stops where a value is not taken; `Passes` implements `Listing`; branches, locals, tail calls, progress | some 3 000 bodies, 2 arguments, 3 values of `y` |
| `interning` | `Interning` implements `Names`; every symbol has a name; registration ends | 6 spellings, pages of 5 bytes and 3 entries |
| `symbol_table` | `SymbolTable` implements `Scopes`; fragments are compact and shared by nobody | 2 environments, 3 fragments of 2 entries, 5 symbols |
| `reader` | relinking keeps every token, ends, and reads what was written exactly when it is readable | some 3 200 texts, data of three levels |
| `closures` | every read sees the variable meant; one place for each variable | some thousand programs of 3 procedures, 3 calls |
| `machine_heap` | unset slots lose nothing that is reachable and lead to objects only, up to the first that leads into memory reclaimed since | 2 buckets of 3 cells, stack of 3, 2 locals |
| `closures_called_again`, `machine_heap_unset_locals` | findings: each violates the one property it checks | |

Configurations beside these reproduce further findings, each with the one property that
TLC then finds violated: `heap_vector_ref` (LiveMemoryKept), `heap_return_address`
(InnerReferencesLeadInside), `vm_mixed_arity` (ImplementsCallStack), `vm_apply_closure`
(OwnEnvironment), `vm_load_string` (StringsSeeRoots), `compiler_nested_if` (BranchesLand),
`compiler_let_init` (ResultIsValue), `compiler_test_value` (AnyValueIsATest) and `reader_quoted_list` (AbbreviationsAreExpanded).

Bounds. Two buckets are the fewest in which a bucket can be reclaimed while
another is in use; three let two be reclaimed in one collection and the free list
hold two. The first object, the global environment, pins one bucket. Two cells are
the smallest aggregate with content; three let one page hold two objects, or one
object of two elements, so that a reference may outlive its neighbour in the page.
A stack of two can hold an object and a value to put in it, so that chains and
cycles form. Thirteen slots hold a nested run of the virtual machine over a call
with its temporaries; procedures of zero, one and two arguments tail call each
other with more, fewer and as many, so that the moved regions overlap in every way.
Two values suffice: slots are copied, never computed with. `MaxTemps`, `MaxRuns`,
`MaxStack`, `MaxCount`, `MaxOffset`, `MaxLocals`, `MaxPages`, `MaxEnvironments`,
`MaxFragments` and `MaxActivations` are bounds of the models alone. Calls need
room in `VmStack` (their guards): the code has no check, and what happens beyond
the end of the stack is undefined.

Fragments of two entries, the first one filled by the functions of `environment_initialize`
as in the code, make a third symbol need another fragment and a fifth a third. Pages
of five bytes leave a rest that only a shorter name fits in. Three levels of data put a mark
before a list in a list, and two data in a text put something behind it. Three procedures
are the fewest where a variable is captured across one, or by two. Bodies of the compiler use
constants, calls and variables as tests and operands, and a variable `z` that is bound nowhere,
so that programs stop in every position.

The views of the MC modules leave out what is never read before it is written: the
memory outside objects, the leftovers of a finished collection, and the stack below
the innermost frame; the view of `MachineHeap` keeps the memory outside objects, which a
slot that was not set may lead to. `symbol_table` alone uses symmetry, of the symbols that programs
bind: no operation compares them but for equality.

`CHECK_DEADLOCK FALSE` is in the runs of `VmStack`, where a procedure whose stack is
full and that has nothing to return is a stopped state of the model, and of no program;
and in those of `Reader` and `Closures`, which end when the text is read, and when a gate
forbids the program or all calls were made.
`GcHeap` and `Compiler` never deadlock but in `Halted` and `Done`.

Fairness. `FairSpec` has weak fairness of `HeapStep` alone. There is one thread: once
an instruction calls `perform_alloc`, the only code that can run is `gc.c` until it
returns or breaks. Nothing is assumed of the program. `Interning` has weak fairness of
`InternString` and `InternHash`, which run to their end for the same reason, and not of
`Register`; `Reader` of its only, deterministic `Next`. `StepsForward` states the
termination of compiled code as an action property and needs no fairness.

Every property of a passing run has a mutant, a plausible bug in one definition
(an `...` operator defined before it, marked as such), under which TLC finds it violated.

## Findings

`PROJECT.json` has them with their lines, and the doc, comment or test that each disagrees with.

1. The value of `vector-ref` does not keep its vector (`builtins.c:163`).
2. A return address on the stack makes the collector scan, and flag, beyond the procedure (`vm.c:226`).
3. A tail call of a special function with another number of arguments breaks the caller's caller (`vm.c:1173`).
4. `apply` runs a closure in the wrong environment (`builtins.c:284`).
5. LDSTR allocates with a stale stack pointer (`vm.c:751`).
6. Two nops in a row leave a branch to nowhere (`lambda.c:1685`).
7. The initialiser of a let sees its own variable (`lambda.c:949`).
8. A collection stops the program at a local that was never set (`vm.c:1027`).
9. A procedure called twice has the captured variables of its first call (`lambda.c:1605`; the test
   `closure-test-01` expects others).
10. Captured variables in seven more cases, the other gates of `Closures`.
11. A quoted list takes the token that follows it (`read.c:392`), and other texts that are
    misread, each a clause of `Readable`.
12. An assignment to an unbound variable changes the empty list.
13. A test with a value that is no boolean stops the program (`vm.c:961`), unless it is built with NDEBUG.

Others met while reading, without a module: `begin` in an operand, a let without an
initialiser, `apply` of a special function, arithmetic that changes its operand in
place, `vector-length`, STORE to an inner reference, a collection between the two allocations
of a token, handles that are never given back, unbalanced texts, and a comment on costs. 3, 4,
6 to 9, 11, 13 and the first of these were seen on the compiled program too.

## Proofs

`GcHeap_proofs`, for every program and every size: `FreeListIsSound`. `FreeListInv` adds where
the bucket in use may be during a collection, and that a collection starts with an empty list
and has come to `next` buckets, so that the bucket it reclaims cannot be listed yet. It says
nothing of what is in memory.

The rest of `GcHeap_proofs` is for programs without inner references (`Operations = {}`), of
every size: `Invariance` of `IInv`, and from it `TypeCorrect`, `LiveMemoryIsKept`,
`ScanStaysInObjects`, `FlagsAreCleared`, `CostsAreExact`, `TwoTriesAreEnough`, `BreakMeansPinned`,
`AllocationIsSafe`. `FlagsCleared` alone is not inductive: while unmarking, flags
remain. `FlagInv` adds that every flagged cell is a root or leads from a cell
that has been scanned (while marking), and is pending or leads from flagged cells
to pending ones (while unmarking), so that nothing stays flagged when nothing is pending;
that flags change nothing else is `ScanStaysInObjects`. The heart of `IInv` is `ReachInv`: there is a set of whole,
allocated objects that holds the roots and is closed under reference. Steps of the
program keep the set, or extend it by the new object. While marking, flagged and
pending cells stay within it; when marking ends the flagged cells are such a set
themselves, so that a bucket with cost 0 has no cell of it and the set survives the
reclaiming of that bucket. `CostInv` counts the flagged cells of each bucket.

Under the same condition, `HeapImplementsObjectHeap`. The store of
`ObjectHeap` is the memory of allocated objects. An instruction maps to a write, or to a
move of roots that only leads to what the program held; `Bump` to an allocation;
`Reclaim` to a loss, which `ObjectHeap` allows of what no root leads to: the closed set of
`IInv` is disjoint from the bucket. The rest of a collection stutters.

The last part of `GcHeap_proofs` is about `MachineHeap`, for every size: `MachineScansObjects`,
`MachineFlagsAreCleared`, `MachineFreeListIsSound` and `SetSlotsAreKept`. All four speak of what comes before
`ScanStale`. A step of the machine is one of `GcHeap`, or changes only the stack while the program
runs, or ends the model (lemma `MachineStep`), so that `FlagInv` and `FreeListInv` are invariants of it
too. For the other two the invariant is `MachineInv`: there is a closed set of whole objects that
holds what every slot leads to which was set, or was not and is not `stale`, used or not.
Marking stays in it, and when marking ends the flagged cells are closed and hold what the
slots in use lead to. When a bucket is reclaimed, the part of the closed set that is `Apart`
from the bucket is such a set again: it keeps what the flagged cells hold, and all that a slot
leads to which does not become `stale`.

`VmStack_proofs`, for procedures of any sizes on a stack of any size: `StackIsKept`, of
`StackInv`, and from it `StackTypes` and `SpecialsAreScanned`. None of the three properties
is inductive: RETURN and TAILCALL take the caller's `program_area`, procedure and
environment from three slots of memory, so that even their types depend on what the whole
stack holds. `Links` says that each `vm_run` has a list of frames that do not overlap,
fill the stack up to where the run began, hold values where one will be read, and each
lead to the next by their three slots; the list is not a variable, it exists. `AtInv` is what
the C variables are at each point of the loop, and `NestInv` where nested runs begin. The
proof is mostly about memory: a frame is replaced at the head of the list, and everything
above stays (`Keeps`, `SameChain`, `KeepsAbove`).

The last part of `VmStack_proofs` goes from `StackInv` to what `Frames`, the reading of frames out of the
memory, gives: `EnvironmentsAreKept` and `NoStackIsLost`. `Callers` is a recursive function on
places; that it has a value is proved by recursion on the distance to the top of the stack,
and that its frames are those of `Links` by induction from the outermost one inwards.

`VmStackRefines_proofs`: `MachineImplementsCallStack`. The runs of `CallStack` are `Calls`, the
frames read out of the memory. `StackInv` is enough to prove that each step of `VmStack` is the
step of `CallStack` that has its name; pushes, POP, loads, stores and operators are `Compute`, and
LDSTR before its push is a stutter. The work is in what does not change: what is written below the
chain of a frame is not seen in the frames around it (`OuterBelow`), nor is the move of a chain
by a tail call (`OuterKept`), nor anything a run does in the runs it is nested in
(`OthersSame`). Then a call moves temporaries to where `ArgsOf` says that the arguments are, a
return adds one temporary to the caller's (`GivenFrames`), and a tail call replaces one frame.

The condition of these theorems is `Sound`: `"mixedArity"` and `"applyClosure"` are not in
`Operations`. Without it they are false, as `vm_mixed_arity` and `vm_apply_closure` show.
LDSTR (`"string"`) is allowed: it breaks a property of its own only.

`SymbolTable_proofs`, for any number of symbols, entries, fragments and environments:
`TablesAreTyped`, `TablesStayCompact`, and, without `"setUnbound"`, `EnvironmentsAreScopes`.
`StateInv` adds to the types that links lead from a fragment to a younger one
(`Ordered`), that every fragment belongs to one environment (`Owned`), entries have no gaps and
only the last fragment has room (`Compact`), and no symbol is twice in a chain (`Once`). `TypeOK`
alone is not inductive: `bind` would go round in a cycle of fragments. A value is found where
its symbol is because of `Compact`; that it is found at one place, so that a store changes
one variable, is `Once`; and that a `bind` in one environment is not seen in another is
`Owned`. `LocationIn`, `Chain` and `BoundLocation` are recursive functions along links.

`Interning_proofs`, for any spellings and hashes, with pages of any size and in any number:
`Invariance` of `IInv`, and from it `TypeCorrect`, `ReturnedSymbolsHaveNames` and
`InterningImplementsNames`. `HashesIn` says that pages of hashes are in order, that no hash is on two
pages, and that each entry leads to a whole text with its hash, terminator included. `Pending`
is what the call in progress holds: a hash that is on no page yet, and a text that is written.
The lemmas are about the two C library functions, on pages of any length: an order without
inversions exists (`OrderExists`), and every such order puts the new entry between its neighbours
(`SortedInserts`); and the halving of bsearch finds an entry exactly if there is one
(`SearchFinds`), by induction on the length of the range.

`Closures_proofs`, for every set of programs and symbols, and any number of calls: `TypeCorrect`. Its
core is that a let's slots, counted by `vm_slot_index`, and the arguments' never coincide, though
slots are used again when a let ends: `Ordered` says that the slots of the lets come first, without
gaps and the newest lowest, and that the arguments follow. What the eight gates of `Closures` are
about is not this, but where accesses go.

`Passes_proofs`, for every set of procedures with lists of any length: `Invariance` of `IInv`, and from
it `TypeCorrect`, `BranchesAlwaysLand`, `TailCallsAreProper`, `GoesForward` and
`CodeImplementsListing`. `IInv` says what instructions and links are when a pass has come to the
instruction at its cursor, in terms of the list that compile_form built: `Collapsed` and
`Relinked`, `Eliminated`, `Promoted`. None of the properties is inductive, since a pass depends on what the
ones before left: that a branch to a return is seen as one rests on its target, which is further
on, having been seen before it, and that promote_tailcalls need look only at the next
instruction rests on every such branch having become a return (`ReturnsAre`). Offsets grow along
the links (`OffsetsAre`), so that each belongs to one instruction (`CodeIs`), and an instruction of the
code leads, by its displacement or past its operand, to one with the same place in
the list (`CodeIsRight`). Each step of the code is then the step of `Listing` with its name; branches
and the passes stutter. `Settled`, `Linked`, `Offsets` and `Returns` are recursive functions, of which it is
proved that they have values (`SettledIs`, `LinkedIs`, `OffsetsAre`, `NoReturnFollows`).

The hypothesis of these theorems is `NopsApart`: no two nops in a row, which is to say that no if
ends the consequent of another. Without it they are false, as `compiler_nested_if` shows
(finding 6); `MCCompiler` has TLC check that it holds of all bodies without such an if.

`Induction` has what these proofs need of recursion. The provers cannot instantiate a
theorem with a predicate as parameter, but can one with a set: `SetInduction` and
`LinkInduction` speak of the set of places where a fact holds, and `LinkRecursion` proves that a
function exists whose value at a place comes from the next place. So recursive
functions along links can be reasoned about; recursive operators on forms and data cannot.

Assumptions are those on the constants, and no others: `SizesAssumption` (at least one
bucket, and an object of the largest size fits in a page, the assertion of
`perform_alloc`), `FramesAssumption` (sizes and sets of numbers),
`CompiledAssumption` (the lists of compile_form: branches lead on and stay in the list, conditional ones to
the first instruction of a form; TLC evaluates it on what `Compile` makes),
`SpellingsAssumption` (`tolower` keeps the length and the hash, which is computed from lower case,
and there is one empty text), and `SymbolsAssumption` (`INVALID_HASH` is no symbol, the functions of `environment_initialize` have
different symbols and fill one fragment, and values are none of the markers).
Without the hypothesis on `Operations`, `LiveMemoryIsKept` is false, as `heap_vector_ref` shows, and a
collection may come to where the model ends, as `heap_return_address` does.

Only model-checked:

* liveness (`AllocationEnds`, `RegistrationEnds`, `ReadEnds`): fairness is out of the prover's reach;
* of `Closures`, `ReadsMeanVariables` and `OneStoragePerVariable`: they speak of the scopes of whole
  programs, and hold behind the eight gates;
* of the compiler, `ResultIsValue` and `LocalsReserved`: they relate code to forms, which `Compile`,
  `StackSlots` and `Eval` take apart by recursion; and everything about `Reader`. Forms and data are
  trees, and the provers do not take RECURSIVE operators.

## Not modelled

Byte sizes and alignment, and with them what a scan reads and writes that begins elsewhere than
at an object (`ScanAstray`, `ScanStale`), and reads through the value of `vector-ref`; the NDEBUG build;
strings, characters, symbols and numbers beyond one kind
of value (the numeric tower, and its operands changed in place); SET, LDTYPE and CMP_EQUAL;
pointer-level lists and the linear allocator, whose operations are a few assignments each;
`print`, the disassembler and tracing (output); files and the command line. No module has
the compiler's, the reader's or `environment_initialize`'s own C pointers over a collection:
the heap is driven by programs, and what those functions keep is listed under hazards.
`PROJECT.json` lists every component with what is left out of it.

## Plan

Done: `GcHeap` with its abstract specification and proofs, `VmStack` with `CallStack`,
`Compiler` and `Passes` with `Listing`, `SymbolTable` with `Scopes`, `Interning` with `Names`, `Reader` with `Datum`,
`Closures`, and `MachineHeap`, the composition of heap and stack. In order of importance, there remain:

1. Proofs about `Closures`: that a slot and a binding are never both the place of a variable.
2. `Numerics`: fixnums, flonums, and operands changed in place.
