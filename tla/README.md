# rnp_see in TLA+

rnp_see executes x86-64 Linux programs symbolically: a loader gives a virtual
machine its memory and registers, a translator turns each machine instruction
into intermediate instructions, the machine executes those over values that
may be unknown ("wild"), and a branch on a wild condition asks Z3 which
outcomes are possible and forks the machine when both are. This directory
holds TLA+ models of the parts that carry state across steps and machines,
model-checking configurations for TLC, and proofs for TLAPS.

Paths below are relative to the repository (`src/` stands for its `src/`).

## 1. Inventory

| Part | Source | State it keeps | Operations |
|---|---|---|---|
| guest memory | `memory.cc`, `page.cc` | page map, dirty set, dirty counters, overlay of wild bytes; pages with bytes, parent, reference count | map, load, store, raw store, copy, destroy |
| engine | `engine.cc` | the list of machines | step, push_vm, remove_vm |
| command loop | `see.cc` | none | step once, n times, for ever, quit |
| virtual machine | `vm.cc` | variables, assertions, its memory and kernel | step, one `execute` per intermediate instruction, copy |
| symbolic values | `symbolicvalue.cc` | expression trees on the heap | operators, assignment, translation to Z3, `sv_assert` |
| integers of a width | `uint.cc` | none | arithmetic modulo a width |
| emulated kernel | `kernel.cc` | next mmap address, files `fh_N` | read, write, writev, fstat, mmap, getpid, exit |
| translator | `translator.cc` | the list being built | one method per mnemonic |
| intermediate instructions | `instruction.cc` | operands | none |
| ELF loader | `elf.cc` | sections, symbols, dependencies | pages, relocations, symbol lookup |
| process loader | `lx86.cc` | pid of a traced process | attach, single step, read memory |
| name tables | `debug.cc` | none | none |

How they interact. `main` owns one `Engine`; `Engine::step` calls `VM::step`
on each machine of its list, and the machine calls back into the engine, while
the list is being walked, to append a fork (`push_vm`) or to erase itself
(`remove_vm`). A fork shares every page of its parent's memory (reference
counts) and, through copied pointers, its expressions. Machines also share the
loader and the output files. There is one thread; the interleavings are those
of the machines in the walk. Nothing is caught in `main`: an exception ends
the program.

What is hard, and what makes each part correct:

- *memory*: a page written in place is mapped nowhere else; no page is used
  after its last reference is gone; a destroy terminates; forks are exact
  copies that nothing else changes; lookups are exact at page ends.
- *engine*: machines forked and erased during the walk are stepped once and
  in order; no machine starves.
- *path exploration*: no two machines follow one input; no input is lost but
  at a comparison, which the code decides by a constant; what a machine assumes
  is true of the inputs it follows.
- *expressions*: nothing that a variable or an assertion points to is deleted,
  and what leaks is only what results of operations were given; what the solver
  is told of a value admits every input the value can come from.
- *kernel*: a new mapping is at a free address and usable throughout; the
  output of a machine reaches its file, whatever the others write.
- *translator, integers*: the intermediate code has the effect of the
  instruction, flags included, at the ends of the range.
- *loaders*: pages do not overlap and lose no byte; every dependency is loaded
  once; the traced process is stopped where the machine starts.

`PROJECT.json` lists the hazards with their lines and the properties that
cover them.

## 2. Modules

| Module | Models | Composition |
|---|---|---|
| `AbstractMemory` | what a memory promises: private stores | abstract specification |
| `CowMemory` | copy-on-write pages of several memories | implements `AbstractMemory` (`PrivateStores`) |
| `CowMemoryProofs` | proofs about `CowMemory`: privacy, refinement, reference counts | extends it |
| `AddressSpace` | address lookup, accesses of several bytes, mmap | one memory, not forked |
| `Engine` | the list of machines, its walk, the command loop | |
| `Kernel` | system calls and the files all machines write | extends `Engine`: a call is a machine's step |
| `NativeExecution` | the run of a program on every input | abstract specification |
| `PathExploration` | conditional branches, solver, forks | contains an instance of `Engine`; implements `NativeExecution` |
| `SymbolicHeap` | ownership of expressions | |
| `SymbolicValues` | what expressions mean: to the machine, to the solver, to a machine that knows the input | |
| `ElfLoader` | dependencies, page layout, symbols, relocations, TLS page | |
| `Loaders` | the choice of loader; a process traced to its entry point | extends `ElfLoader`, which the tracer runs while the process starts |
| `IntermediateCode` | intermediate instructions, integers of a width, what a machine makes of them | |
| `Translator` | the method of every instruction on general registers, and of the rep prefixes | extends `IntermediateCode` |
| `Processor` | the x86-64 processor, an external reference | |
| `Translation` | a machine and a native process side by side | extends `Translator`, contains `Processor` |
| `MC...` | instances for TLC | |
| `BasicFacts` | lemmas: least and greatest numbers, induction, ranks, members of sequences | used by the proofs |
| `AddressSpaceProofs`, `EngineProofs`, `PathExplorationProofs`, `SymbolicHeapProofs`, `SymbolicValuesProofs`, `LoadersProofs` | proofs about the module of that name; `EngineProofs` is about `Kernel` too, `LoadersProofs` about `ElfLoader` too | each extends its module |

### CowMemory and AbstractMemory

`vm[m]` is the life of the machine that owns memory `m`; `pages`, `dirty`,
`dirty_counter` and `symbolic_memory` are the members of `Memory`; `status`,
`references`, `parent` and `data` are the Page objects. A page address is one
key of the map and pages do not overlap; how an address finds its page is
`AddressSpace`. Every method call is one action, except `Memory::destroy`,
where a step is one `Page::destroy` and `owed` counts those the two nested
loops still make; no other operation runs meanwhile (`Idle`), since there is
one thread. Page identifiers are not reused, so a use after delete is visible
(in the program it is undefined). A `Page::destroy` on a null or deleted page
has no step; that this never blocks is `NoUseAfterFree` and `DestroyEnds`.

Three next-state relations: `ConcreteNext` (map, store, copy, destroy),
`GuestNext` (stores of wild bytes too), `Next` (what system calls add: raw
stores by `sys_fstat`, a page mapped over another by `sys_mmap`).

`PrivateStores` substitutes for the abstract `store` of a machine the bytes of
the pages it maps. It speaks of bytes, not of the overlay of wild values: with
the overlay a fork is *not* a copy (`CowForkOverlay`).

### AddressSpace

`pages` maps a base to the bytes of its page. `Found` is `g_page_address`;
`g_sym` goes byte by byte, `g_qword` tries one page first; `s_word` writes one
page, `s_sym32` byte by byte. Addresses are numbers modulo `Space` (2^64), so
that the end of an access may wrap around in `Found`; `Reached` adds the check
the page itself makes (`Page::check_offset`), which refuses such an access.
Pages of the loader are assumed to end below the last address. Sizes are
scaled: 4096 becomes 4, a 32-bit and a 64-bit access are both four bytes (the
code path of the two differ in count only), mmap starts at 1 above the
loader's page at 0.

### Engine

`it` is the iterator as an index: `Len(vms) + 1` is `end()`, 0 means no call
is under way. A machine's step is one of `StepVM`, `StepFork` (push_vm inside
the walk), `StepHlt` (remove_vm inside the walk) and `StepThrow`. After
`StepHlt` the iterator reads a freed node, which is undefined: the model
continues either with the following machine or crashed. `created` and
`stepped` are history variables.

### Kernel

Every system call is a step of the machine the walk is at: `Write`, `Writev`,
`LocalCall` (read, fstat, getpid, and exit and exit_group, behind which the
machine runs on) or one that throws. `files` are the `fh_N` all machines
share; a byte is known by the call that wrote it. `output`, `told`, `calls`
and `vectored` are history variables. A fork inherits the output of its path.

### PathExploration and NativeExecution

A program is a sequence of forward conditional branches on one unknown input
and ends in a jump to itself. A condition is the set of inputs on which it is
true and the kind of value the machine computes it as:

- `concrete`: known, the same on every input;
- `bits`: made of operations that `SymbolicValue::context` translates node by
  node, over one reading of the input, whose name it has;
- `compared`: a comparison or a combination of comparisons. `contextCmp` puts
  a constant in the place of each, so that the formula is one of the two
  `answer`s, whatever the input is. For a single comparison that can hold the
  answer is "true"; what it is for a combination depends on the operations, and
  the model allows both;
- `unsorted`: operands of different widths, or a flag that was cut to one bit
  and whose formula was not, on which Z3 throws.

The conditions that `translator.cc` gives to a `Brc` on wild flags are of the
last two kinds: a flag that is a comparison, a combination of such flags, or
an ill-sorted one. `bits` is what `vm.cc` and `symbolicvalue.cc` accept of any
intermediate code, a one-bit value of another make; it is there because the
branch, the fork and the assertions are written for it, and because what
becomes of assertions shows with it only.

Every reading of a variable is a new unknown to the solver
(`symbolicvalue.cc:174`). `Names` are the unknowns: conditions with one name
share a reading, those with different names do not, although it is one input
that the guest has read. `Says` is what the formula of a condition says of the
values of the names, `sv_assert` the satisfiability question Z3 answers, over
all values of all names. The engine's walk is the instance `E`; a branch is a
`StepVM`, a `StepFork` or a `StepThrow` of it. As in the code, the fork starts
with the false condition as its only assertion, and a machine for which neither
outcome is possible falls through. `trace` is a history variable;
`Followers(m)` are the inputs that natively take `m`'s path, `LeftBehind(m, i)`
says that `m` was on the path of input `i` up to a comparison whose constant
rules out the outcome `i` has.

In `NativeExecution` an input runs as on a processor until it meets such a
comparison, where it is `Lost`. An input is lost there and nowhere else: the
refinement forbids that a fork, a forgotten assertion or an assertion that is
false loses one, and it says at which branch a comparison loses which inputs.

### SymbolicHeap

A `Node` is the pair of operands a `SymbolicValue` points to. `operator=`
deletes the operands of its left side and copies those of its right side; the
generated copy constructor copies pointers; the destructor does nothing. An
operation therefore takes two pairs (`Compute`): its result is given one by
the constructor, `operator=` gives the variable a copy of it, and nobody
deletes the first. `results` is the history of those. Deleted nodes are not
reused and a use of one sets `fault`, after which nothing is modelled.
Operands below the first two are never deleted by the code and are not
represented.

### SymbolicValues

A value is a tree as in the code: constants, wild leaves, operations; every
node has its bits. `Operator`, `extend` and `signExtend` build them, `context`
translates them for Z3, `sv_assert` is Z3's answer, found by trying every
assignment to the unknowns. The bits of a node decide what `context` extends
(never cuts) and whether the sorts of two operands agree; where they do not,
Z3 throws and `Solvable` is false. The operands of an instruction have their
own bits each, and so has its destination (`Forms`): the translator makes
instructions of operands of different widths, a value and a flag or a register
and a byte that counts a shift. A division by zero and a shift by as many bits
as the host's integers have end a run (`Undefined`). The machine executes any
sequence of computing instructions and branches on one unknown byte; `runs`
holds, for every input, what a machine that knows the input computes with the
same instructions. Each extension, so each reading of a variable, gives a wild
leaf a new name (`ssa`); `names` is the history of what a name stands for. At
a branch the model follows one machine: the one that jumps (`Jump`), the copy
(`Forked`), or the only one (`OnlyFalse`).

The trees of a behaviour of `MaxSteps` instructions have at most that many
levels of operations; `Expressions` is the set of them, and `context`,
`WellSorted`, `Unknowns` and `Value` are functions on it that are defined by
recursion on the operands. `exact` in a node is a history field: the operation
is one whose translation says what the machine computes, the operands are
exact, and the node was not cut or sign-extended. `even` is another: its
operations have operands of the same bits. The bitwise operations are
constants of the module, since the definitions of `Bitwise` cannot be proved
about; `MCSymbolicValues` gives TLC those definitions. All that is assumed of
them is that they need no more bits than their operands (`BitwiseAssumption`):
machine and solver agree on what they are, which is all the properties use.

### ElfLoader and Loaders

`program` says which files exist and what a parsed ELF file holds. The
constructor's work list is `LoadDependency` and `DropLoaded`; `FixPage` and
`KeepFinal`/`EraseEmpty` are the rounds of the two loops of `fix_pages`, over
a multimap in order; `RelocateSymbol` and its siblings are the rounds of
`patch_relocations`; `CopyTls` is `set_tls_memory`, which throws where the
image or a word it adds to does not fit the page (`BeyondTlsPage`). Undefined
behaviour is a choice: after an empty page is erased through the loop's
iterator the loop goes on anywhere or the program crashes; `best_it` read
after its list was replaced throws, crashes or still finds the symbol. A cell
of memory stands for a byte and for the eight bytes of a relocated word.

`Loaders` is what `main` does before it makes an engine. With `--lx86` the
constructor of `Lx86` and the traced process run at once: `tracer` is where
the constructor is, `child` the state of the process, `event` what `waitpid`
has not reported yet, `text` the byte at the entry address. The process and
the kernel's side of ptrace are external.

### IntermediateCode, Translator, Processor and Translation

`Translator` has one operator per method of `translator.cc`, with its name and
its intermediate instructions in the order the method appends them; `Get`,
`GetCode`, `Address` and `Set` are `operand_get`, `operand_load`, `operand`
and `operand_set`. `IntermediateCode` holds the instructions, the operators
of `uint.cc` and the results of `VM::execute`. `Processor` is the
specification the code is held against: it is written from the processor's
definition in terms of numbers, never from the translator, and is marked
external. `Translation` lets both run one program, as `test/test_vm.cc` does
with a traced process: `Fetch` is the beginning of `VM::step` (the process
makes its step at the same moment), the `Execute...` actions take the
intermediate instructions one by one, and the two are compared where the list
is empty (`Boundary`).

Values are known ones; a memory cell holds a whole operand (bytes are
`AddressSpace`). The widths 8, 16, 32 and 64 are the constants `W8` to `W64`,
5, 6, 8 and 16 in the run: TLC's integers have 31 bits, and 64 must still be
twice 32, AH must lie below it, and 64 must fit an 8-bit constant, because the
code relies on all three (`WidthAssumption`). No other property of the widths
is used by the methods modelled.

The run takes every instruction in every operand form that the code
translates as the processor has it. These forms it translates otherwise, and
the run leaves them out:

- the overflow flag of add, adc, sub, sbb, inc, dec, neg; the carry of adc and
  sbb when the operand is the largest number and carry is set; the carry of
  neg, which is inverted; or sets no flag; imul leaves CF and OF at 0;
- shl takes SF and ZF from the value OF is made of, and does not mask CL; shr
  and sar set flags for a count of 0; an 8- or 16-bit sar by more than the
  width; rol and ror complete the count to 64 for every width, and fail on
  the form with an implicit 1;
- xor, not, cmov, movsx and imul compute on the destination itself: an 8- or
  16-bit one loses the rest of its register; movzx to 16 bits keeps bits 8 to
  15;
- an 8-bit immediate of add, adc, sub, sbb, xor and imul is not
  sign-extended, nor is a 32-bit one of and and test;
- with an fs prefix, the displacement is not sign-extended and hides the base;
- div ignores rdx; bsf leaves ZF and writes 0 for a source of 0; seta takes CF
  and ZF where it should take CF or ZF; cmpxchg that fails loads the source
  into rax, and has an empty mask for 32 bits;
- push of rsp stores the lowered rsp, pop of rsp adds 8 to what it loaded;
  movsq stores rsi, not what it points to; scasb compares with its operands
  exchanged, which only ZF does not show; rep and repne with rcx = 0 run 2^64
  rounds.

`ExactFlags` names the flags the run compares for each instruction; a flag
the processor leaves undefined is not compared. Not modelled: instructions on
128-bit registers, hlt and syscall, shld and repe (nothing calls them), flags
never written before they are read (the machine throws).

## 3. Runs

Every passing run explores its whole state space.

| Run | Properties | Bounds |
|---|---|---|
| `CowGuest` | `TypeOK`, `NoUseAfterFree`, `DirtyIsPrivate`, `ReferencesCoverReleases`, `OnlyParentsAreLeft`, `PrivateStores`, `DestroyEnds` | 3 machines, 1 page address, 2 offsets, 2 bytes, 4 pages |
| `CowKernel` | `MappedIsAllocated` | 2 machines, 2 page addresses, 1 wild value, raw stores and remapping, 4 pages |
| `AddressSpace` | `LookupIsExact`, `WordReadsBack`, `LongReadsBack` | 10 addresses, and accesses that wrap around; five candidate pages that touch, leave gaps and exclude each other |
| `Engine` (of `Kernel`) | `WalkFollowsList`, `PathOutputIsKept`, `NoMachineSkipped`, `NoMachineStarves` | 3 machines, 2 files, 2 writing calls, vectors of 2 buffers, buffers of 1 byte |
| `Paths` | `LostOnlyAtComparisons`, `PathsAreDisjoint`, `AssertionsHold`, `ExploresNativeRuns`, `EveryInputFinishes` | 2 inputs, 2 names, 3 branches, every program, every kind of condition |
| `Heap` | `OwnedOnce`, `IntactUntilFork`, `LostAreResults` | 2 machines, 3 variables, 5 nodes |
| `Symbolic` | `EveryInputIsAdmitted`, `NoOutcomeIsMissed` | 7 operations, 5 forms of operands of the same and of different bits; byte of 2 bits, word and host integer of 3; 2 instructions and 2 branches in any order |
| `Translation` | `RegistersAgree`, `FlagsAgree`, `ComparisonsDecide`, `ProgramsEnd` | programs of 1, 2 or 4 instructions, widths 5, 6, 8, 16 |
| `Loaders` | `NeededOnce`, `PagesDisjoint`, `EveryByteIsFound`, `ReferencesAgree`, `RelocationsHold`, `StoppedAtEntry`, `LoadingEnds`, `AttachEnds` | 3 files, 3 segments and an empty one, one symbol, see below |

Why these bounds are enough. Three machines and four pages contain a parent
that dirties a page, forks, dirties it again and forks again, with the
destructions in every order: a chain of pages shared at two depths. One page
address suffices for what concerns one page (the code treats addresses
independently); two are in `CowKernel`. Page objects are interchangeable:
`CowKernel` says so by symmetry, `CowGuest`, which checks liveness, by the
action constraint `AllocateInOrder`, under which the first unused page is
allocated. The constraint removes no behaviour but a renamed one: which page
is taken is the only choice `new` makes. Three machines contain a fork of a
fork and halts before, at and behind the walk; two writing calls a file that
one machine writes between two writes of another, a fork between them, and a
vector of two buffers. Two inputs, two readings and three branches contain a
fork that meets its parent's condition again, by the same reading and by
another one, and comparisons before and behind it; eight machines are the most
that three branches can make, so that the bound is never hit. The
operands of `Translation` are 0, 1 and both sides of both ends of every range,
so that each carry, sign change and overflow at each width occurs, and pairs
of them; products and quotients are bounded by TLC's integers; a program of a
comparison and what it decides takes every jump, move and set with every pair
of operands; repetitions of one to three rounds end by rcx, by the comparison,
and by both. Two instructions make an operation on an operation, on a cut or
an extended one, and on two readings of one input; two branches make one that
meets an assertion; with 2 and 3 bits a carry, a sign and a cut bit exist. The
operations are the ones that carry, borrow, shift and divide, one that is
translated wrongly and two comparisons; what is left out (add, div, and, or,
shr, the other comparisons) is translated like one of them, and the theorems
are about all of them. The forms are those the translator makes. Five nodes are
two computations and an assignment. The
programs of `Loaders` vary one thing at a time: every graph of what three
files need, cycles through the executable and a missing file included; three
segments in all positions to each other, of 0, 1 and 4 bytes, partly without
contents; a symbol that is local, global, weak or undefined in each of three
files, under every kind of relocation; what cannot be loaded; and a process
that is moved, signalled, fails to start, exits early or has unreadable
memory. Deadlock is not checked where the bound (pages, machines, addresses,
nodes) or the end of the program stops the model.

Runs that TLC refutes, each a disagreement between the code and what the
repository says of it (`PROJECT.json`, findings):

| Run | Property | What happens |
|---|---|---|
| `CowForkOverlay` | `CopyReadsTheSame` | a fork loses the wild bytes of its parent |
| `MmapOverlap` | `MmapIsAvailable` | the next mmap overlaps or replaces the last |
| `SymbolicFork` | `BothOutcomesAreFollowed` | a comparison of an input with a constant loses the inputs on which it has one of its outcomes |

Further behaviour of the code that the models have and no run states.

Memory:

- a concrete store over a wild byte is not seen by the next load
  (`StoreConcrete` leaves `symbolic_memory`, `g_sym8` prefers it);
- `sys_fstat` in one machine writes pages that others share (`StoreRaw`), and
  writes its buffer uninitialised when `fstat` failed: `PrivateStores` does
  not hold under `Spec`;
- a page mapped over a dirty one makes the later destroy follow a null parent
  (`RemapPage`): `ReleasedIsAllocated` does not hold under `Spec`.

Machines:

- hlt erases the list node the walk is on (`StepHlt`, outcome `crashed`);
- a fork forgets the assertions of its parent (`BrcFork`), and may take a
  branch that no input of its path takes. No input is lost by that (fewer
  assertions make the solver permit more), but machines run paths that no
  input has;
- an ill-sorted condition ends the program with all machines (`BrcThrows`);
- every operation on wild values leaks the operands of its result
  (`LostAreResults`, `results`), and a deletion leaks those below the first
  two;
- parent and fork share operands, and whichever assigns first deletes the
  other's: `VariablesAreIntact` of `SymbolicHeap` holds until the first fork
  only (`IntactUntilFork`);
- an assertion's operands are deleted by the next write of its flag, and
  extending a register onto itself copies deleted operands (`Fault`).

Expressions (`SymbolicValues`); the first four are why `EveryInputIsAdmitted`
says what a formula means of `Exact` values only:

- exclusive or is given to the solver as or (`Translated`);
- division is unsigned in the machine and signed for the solver, which also
  has a value for the division by zero that ends the program (`Z3Computed`);
- a node that is sign-extended or cut keeps its operands, so that its formula
  is extended by zeros, or not cut at all (`signExtend`, `extend`);
- `contextCmp` (`symbolicvalue.cc:326`) replaces a comparison by the constant
  "can hold", asked without the assertions;
- operands of different widths make a formula Z3 refuses, also when the
  operation is exact: `EveryInputIsAdmitted` says that a value has one exactly
  when it is not `Even`;
- two readings of one unknown byte are two unknowns to the solver, which may
  therefore admit paths that no input takes, never fewer.

Kernel and loaders:

- `sys_writev` empties the file first and writes its first buffer once for
  each buffer of the vector; exit and exit_group do nothing;
- a weak symbol, and the executable's own definitions, are not found by a
  dependency's relocation as the dynamic linker would find them: local symbols
  come first, then global definitions of the dependencies, never those of the
  executable, then the last symbol of that name, weak or not; an undefined one
  has as its address the load offset of its file;
- the comment in `g_memory` (`elf.cc`) wants the TLS image copied after the
  relocations; it is copied from the file, without them, and each TPOFF64
  relocation adds the offset of the file to the word its addend designates,
  so several of one addend add it several times (`TlsImage`);
- a traced process that is stopped by another signal, exits before its entry
  point, cannot be executed, or is position-independent, so that its entry
  address is not where it runs, leaves the tracer in `waitpid` for ever
  (`Wait`, `ChildExits`, `Break` of an unmapped address); an exception while
  its ELF files are read leaves the process behind.

What the passing and the refuted runs say together. `Translation` says that
the conditions the machine computes are the processor's. `Symbolic` says of
which values the formula is right, and that mixed widths are the only way to a
formula Z3 refuses; `Heap` how long a value is what it was. `Paths` says what
exploration makes of conditions of every kind: inputs are divided among
machines without loss or repetition, whatever forks forget, except that a
comparison loses the inputs on which it has the outcome its constant rules out.
`SymbolicFork` shows that loss with the comparison itself. Since the jump
conditions of the translator are comparisons, combinations of them or
ill-sorted, a branch on unknown input follows one outcome, or Z3 throws; the
fork is reached by intermediate code of other conditions only.

### Fairness

- `CowMemory`, `Fairness`: weak fairness of each `Destroy(m)`. A destroy that
  has begun is a loop of one thread; nothing else runs until it ends. Nothing
  is assumed of when a machine is destroyed.
- `Engine`, `WF_vars(EngineStep)`, and `Kernel`, weak fairness of
  `KernelStep`: the command `a` calls `Engine::step` for ever (`see.cc:86`).
  `Quit` and the steps that throw may end it at any time.
- `PathExploration`, `WF_vars(Next)`: the same. `EveryInputFinishes` allows
  three ends: the end of the program, the comparison that loses the input, and
  the exception that ends the process.
- `Translation`, `WF_vars(Next)`: `VM::step` is one loop over the list, and is
  called again and again.
- `Loaders`, weak fairness of `LoadElf`, `ReadElf`, `Trace \/ TraceThrows` and
  `RunChild`: one thread in each of two processes, both scheduled. Nothing is
  assumed of the order between them, nor that a signal comes. `AttachEnds` is
  about a process that is not moved, not signalled and reaches its entry point
  (`Cooperative`): the others wait for ever, see above.

## 4. Proofs

Eight modules hold theorems. Each proves, for every value of the constants
that satisfies the module's named assumption, what a run checks on a small
instance. In each the argument is an inductive invariant (`IInv` or a name of
its own, a definition of the module it is about or of the proofs): the initial
states have it, one lemma per action shows that a step keeps it, and the
properties follow. The
assumptions on constants are types and, where said below, one hypothesis.

**Copy-on-write memory** (`CowMemoryProofs`): `TypeCorrect`,
`WritesArePrivate` for everything the guest and the kernel do (`Spec`), and
`MemoriesArePrivate`, the refinement of `AbstractMemory`, for the guest
(`GuestSpec`; a raw store of the kernel breaks it, see section 3).
`DirtyIsPrivate` is not inductive alone: a store on a clean address maps a
fresh page, which must not be known anywhere yet. `IInv` adds `FreshIsUnknown`,
`AllocatedIsReferenced` and `NoneIsClean`.

**Reference counts** (`CowMemoryProofs`, second half): `ReferencesSuffice` and
`MappedPagesAreThere` under `Spec`, `NoPageIsUsedAfterFree` and
`ChildlessPagesAreFreed` under `GuestSpec`. `Releases(p)` is the set of all
releases of `p` that any memory's walk up the parents may still make. A step
changes walks (a store in a child page makes one longer, a destroy shortens
one, a copy doubles them) and the count with them; each lemma exhibits how
`Releases` of each page changes and compares cardinalities. `CountIInv` adds
that only allocated pages have references and that a memory owes releases only
while it is destroyed. That no walk meets a null page early (`WalksAreWhole`,
`WalkIInv`) needs that an address which was never mapped was never dirtied,
which a remapping `sys_mmap` breaks: hence `GuestSpec`, and hence only
`MappedPagesAreThere` under `Spec`. `OnlyParentsAreLeft` needs the converse
count: the references of a page that no child was made of are no more than
the mappings that still have a release coming (`ChildlessIsHeld`).

**Engine and kernel** (`EngineProofs`): `WalkIsInOrder`,
`EveryMachineIsStepped` under `Spec`; `OutputIsKept` and `KernelKeepsTheWalk`
under `KernelSpec`. `WalkFollowsList` says of `stepped` and `vms` that one is
a selection of the other up to the iterator; with types and `created` it is
inductive. That what a path wrote is a selection of its file is kept by an
append because calls are numbered upwards (`CallsAreNumbered`), by a fork
because the copy inherits output and calls alike, and by a `writev`, which
empties its file, because that file is no longer spoken of.

**Path exploration** (`PathExplorationProofs`): `NothingElseIsLost`,
`NothingIsDoneTwice`, `AssertionsAreTrue`, `ExplorationIsNative`, the
refinement of `NativeExecution`. Any inputs, any length of program, any number
of readings, conditions of every kind, without a hypothesis. The invariants
need each other: that a machine takes no outcome an input of it does not have,
unless a comparison rules it out, needs `AssertionsHold`, that a fork splits
the followers of its parent needs both. The assignment that shows an outcome
possible gives every name the value of the input that has it. `IInv` adds
`AssertionsArePossible`: the solver finds a machine's own assertions possible,
so that one of the outcomes of its next branch is. Without it a machine might
fall through where neither is possible, and lose the inputs that jump. In the
refinement a branch of machine `m` is the abstract step of the inputs in
`Followers(m)`; those of the outcome that is ruled out become `Lost`.

**Expressions** (`SymbolicHeapProofs`): `OperandsAreOwnedOnce`,
`ResultsAreLost`, `OperandsAreIntactUntilFork`; the invariant adds types
and `FreshIsUnknown`.

**What expressions mean** (`SymbolicValuesProofs`): `InputsAdmitted` and
`OutcomesNotMissed`, for any number of bits of a byte and a word, any choice
of operations and of forms of operands, any number of instructions and
branches. The invariant is about
meaning: `Means(t, i, v, names)` says that on input `i` the tree `t` stands for
the number `v`, which fits its bits; that a constant is that number; and that,
if `t` is exact, its formula is well sorted exactly if `t` is even, and then
it `Admits` the number: its
unknowns have names that were given out, whose values on `i` fit their bits,
and *every* assignment that agrees with those values gives it the value `v`.
`VariablesInv` says this of each variable and what the machine that knows the
input has in it; `AssertionsInv` of each asserted condition and each input on
the path; `LevelInv` bounds the levels of the trees. The quantifier over
assignments is what makes it inductive: the property speaks of one assignment
to the unknowns of one formula, an operation joins the unknowns of two, and a
branch those of all assertions. New names leave old trees what they mean
(`MeansLater`). Each operation on trees has a lemma that says what its result
stands for: `NodeMeans` (an operation on two trees, from `ExactComputed`: for
the exact operations solver and machine compute the same number, but for a
zero divisor, which no run that goes on has), `ExtendMeans`,
`SignExtendMeans`, `ReadingMeans`.
`OutcomesNotMissed` then exhibits the assignment the solver may choose: the
values of an input on the path, for the unknowns of the condition and of all
assertions at once. Both properties say what formulas mean of exact values
only, as the run does; section 3 says what becomes of the others.

TLA+ gives a function defined by recursion the value that satisfies its
equation only if there is one. That there is, for `Trees`, `context`,
`WellSorted`, `Unknowns` and `Value`, is proved by induction on the number of
levels (`TreesEquation`, `contextEquation` and so on, each with
`NumbersByInduction`); everything else uses these equations.

**Address space** (`AddressSpaceProofs`): `LookupFindsThePage`,
`WordsAreReadBack`, `LongsAreReadBack` under `LoaderSpec` (pages mapped by the
loader, stores of every kind), for any candidate pages and any number of
addresses. The invariant is `IsMap`: page sizes are those of the map, pages
do not overlap and end below the last address. `sys_mmap` breaks it
(`MmapOverlap`).

**Loaders** (`LoadersProofs`): `AttachedAtEntry` for any behaviour of the
traced process; `FilesAreLoadedOnce` for any files and any cycles among
them; `ReferencesAreTheSame` for any symbols. `AttachIInv` says what each
state of the constructor knows of the process. `WorkListIInv` says that what
loaded files name is loaded or on the list, and is needed; when the list is
empty, what is loaded is closed under needs, so it contains `Needed`, the least
such set. `FoundIInv` says that what a relocation found is what the lookup
would find now, which holds since no file is loaded any more.

**Page layout** (`LoadersProofs`): `PagesAreDisjoint`, for any files with any
segments, nested, equal, empty or touching. The invariant `LayoutIInv` follows
`fix_pages`: pages are sorted by base, and those behind the iterator of the
first loop end before the next one begins. Three arguments carry it. The page
that is split off in the middle of a walk is inserted behind the iterator,
since its base, `AfterNext`, is not below the end of the next page
(`AfterNextFacts`, by induction over the walk of `nnext`). The executable is
laid out last and its multimap has every page laid out before, so that what
`final_pages` adds up over the files is in the end the executable's own map
(`WalkEndLayoutIInv`). An erased page takes nothing away from the others. After
`fix_pages` a relocation changes no length, but `CopyTls` replaces the page for
TLS as a whole, so that a page that began within it would overlap it. Nothing
in the loader forbids such a page; the theorems have the hypothesis
`FilesAreApart`: segments, at the offset of any file, are as a whole below the
page for TLS or above the stack, which begins behind that page, and end below
the offset of the next file.
With the addresses of `elf.h` that holds of every program whose segments end
below 14 * 2^48 and whose offsets do not leave 64 bits (the fifteenth
dependency is that far below the page for TLS), and `MCLoaders` has TLC
evaluate it.

**Contents of pages** (`LoadersProofs`): `BytesAreFound`, under the same
hypothesis. `ContentIInv` says two things of the pages: each cell is what some
segment has at its address, or lies where the stack and TLS are; and together
they cover the file under way, with the pages laid out before covering the
files before. Cutting a page keeps both: what is cut away is behind the next
page, and either there again as the page that was split off, or covered by the
next page and those that follow it without a gap, which is what `nnext` walks
(`WithoutOverlapContent`). An empty page covers nothing, so erasing it loses
nothing. Merging pages of two files loses nothing because all pages laid out
before are at bases below the offset of the file under way. `BytesFound` then
needs that the addresses of different files are apart (`OffsetsAreApart`): what
some segment has at the address is what a segment of that file has there.

**Relocations** (`LoadersProofs`): `RelocationsAreInPlace`. `PatchIInv` says of
every relocation counted as done, unless a later one of its file names the same
place, that its place is mapped and holds its word. A store changes one cell
(`PutFacts`); the place of another file is elsewhere because offsets are apart,
the place of the same file because the other relocation is the last to name its
place. `CopyTls` replaces a page: that no place is in it takes `ClearIInv`, no
page lies across the border of what the stack and TLS have, together with the
second hypothesis, `PlacesAreApart`: places are below the offset of the next
file and not between the page for TLS and the end of the stack. Nothing in the
loader checks the place a relocation names, so that the hypothesis is needed as
it is: one may name a place in the TLS page or in another file. `FoundIInv`
turns the address a relocation stored into the one the lookup finds.

`LayoutIInv`, `ContentIInv`, `ClearIInv` and `PatchIInv` hold in all states of
the run `Loaders`.

**Lemmas.** The prover cannot instantiate the induction theorems of the
library, which take an operator as parameter. `BasicFacts` does without them:
`LeastNumber`, proved from the well-foundedness of the order on the naturals,
says that a nonempty set of numbers has a least one, and `NumbersByInduction`
that a set which contains 0 and is closed under successor contains every
number. A property of numbers is proved by induction when the set of numbers
that have it is formed first, as `CowMemoryProofs` does with the steps of a
walk.

Only model-checked, and why:

- `DestroyEnds`, `NoMachineStarves`, `EveryInputFinishes`, `ProgramsEnd`,
  `LoadingEnds`, `AttachEnds`: liveness under fairness, and ENABLED, are out of
  the prover's reach;
- the invariants of `Translation`: the code is held against the processor on
  chosen operands, in the operand forms it translates exactly; a theorem for
  all operands would be one about each of its instructions at each of the four
  widths, and the proof would need the bitwise operations themselves, whose
  definitions in `Bitwise` are recursive: a module that reaches them cannot be
  proved about.

## 5. Not modelled, and why

- `debug.cc`, `instruction.cc`, all printing: tables and wording.
- Parsing of ELF files, `/proc/<pid>/maps` and options: input formats. The
  models start from what the parsers return. The symbol files that `Lx86`
  opens for each line of the maps serve printing only.
- Destructors of the loaders, and detaching from the traced process: the
  program ends with them. A SIGTRAP that the guest raises itself before its
  entry point is not told from the breakpoint by the code and is not modelled.
- Registers at the entry point: constants the loader writes once.
- udis86 and Z3: external. Z3 is taken to decide satisfiability.
- Allocation failure: the code does not handle it (`TODO` says so).
- Instructions on 128-bit registers: their values exceed TLC's integers even
  at scaled widths.

## 6. Plan

Done, in this order: memory with its refinement and proofs, engine, path
exploration, address space and mmap, expression ownership, translator and
integers, expressions of a width, the kernel's files under the engine, the ELF
loader and the attachment to a process.

Next:

1. The exclusions of `Translation` that contradict something the repository
   says, as runs of their own.
2. `System`: engine, path exploration and copy-on-write memory composed.

The proofs cover the safety properties of every module the prover can read;
what is left to TLC is named at the end of section 4.
