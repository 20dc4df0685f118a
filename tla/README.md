# Shrimp VM: TLA+ models, checks and proofs

This directory holds TLA+ models of the Shrimp VM, the TLC configurations that
check them on small instances, and TLAPS proofs of the theorems about them.

    tlc -workers 2 -config MCShrimpGC.cfg MCShrimpGC     # one of the runs
    tlapm ShrimpGC_proofs.tla                            # one of the proof modules

## 1. The system

A program is written in assembler text (`assembler/`) or in a toy language
(`frontend/`). Both are translated to an executable file (`shrimpfile/`), the
second without the detour over text, by the classes of instructions that the
assembler generates. The VM (`shrimp/`, `runtime/`) runs the file: a register
machine with an accumulator, a call stack and a garbage-collected heap. Everything
is single-threaded; the VM's components call one another and share state through
`ShrimpVM`.

| Component | State | Operations | Hard because |
|---|---|---|---|
| Garbage collector, `runtime/memory/.../gc.hpp` | `roots_`; the mark bit in every object | `run`: collectRoots, mark, sweep, mark | runs rarely, on any heap; recursion over the object graph; two marking passes whose states must match between runs |
| Memory resources, `memory_resource.hpp` | `allocated_`, `allocations_`, pools, arena position | allocate, deallocate | accounting is split between allocator and collector; memory is reused with its old contents; the arena takes nothing back |
| Heap objects, `runtime/objects/.../{array,class,string}.hpp` | header (mark word, class word) and payload | allocate, get and set fields and elements | class words are pointers, the one of an array into a vector that moves; elements are not initialised |
| VM state, `shrimp_vm.hpp`, `frame.hpp`, `register.hpp` | `acc_`, `stack_`, `pc_`, `strings_`, `funcs_`, `classes_`, `arrays_` | registers, frames, `triggerGCIfNeed` | a register's reference mark must travel with its value |
| Interpreter, `interpreter.cpp`, `isa/isa.yaml` | none of its own | 48 instruction handlers | no operand is checked; collector runs in the middle of instructions |
| Assembler, `assembler.hpp` | tables of functions, classes, strings, labels | firstPass, resloveJumps, write | names become ids in declaration order; jumps are patched afterwards |
| Executable file, `shrimpfile.cpp` | section headers, code, strings, functions, classes | read, write, serialize | offsets are sums that depend on the order of filling |
| Frontend parser, `frontend/parser.cpp` | tokens, two positions in them, types of names, counter of temporaries | one function for each rule of the grammar | a rule that fails goes back to a position which the rules it has called may have moved |
| Frontend compiler, `frontend/lang2shrimp.cpp` | register map of the function, offset, ids of functions and strings | one function for each kind of node | the parts of an expression find one another's results by name; registers are 8 bits; jumps are patched |

What makes each correct:

* collector: nothing reachable is freed; nothing unreachable is left; no mark
  survives a run; the run ends; no word that is not a reference is followed;
* memory: `allocated_` is the sum of the allocations; an address is never
  handed out twice;
* objects and VM: every address in a register, and everything reachable from
  it, is alive; the collector sees every such address;
* interpreter: control stays in the code, frames come back as they were left;
* assembler and file: a jump lands on its label; what is read is what was
  written;
* parser and compiler: the machine does what the source says: at each statement
  every variable has its value, and the program prints, returns and ends as
  written.

The hazards are listed in `PROJECT.json`, each at its line.

## 2. Modules

| Module | Models |
|---|---|
| `Reachability` | the nodes reachable in a graph, as a least fixed point without recursion |
| `ManagedHeap` | abstract specification: what a garbage-collected heap promises a program |
| `ShrimpHeap` | object layout: words, class words, objects, which words are references, sizes (no state) |
| `ShrimpGC` | `GC::run`, one action for each step of its loops; declares the heap and the registers it collects from |
| `ShrimpVM` | frames, allocator and every instruction handler; extends `ShrimpGC`, whose steps are steps of the machine |
| `ShrimpText` | the bytes of strings: LDA.STR, CONCAT, SUBSTR, what readers see |
| `Assembler` | first pass, jump resolution, writing of code and tables |
| `ShrimpFile` | section headers, serialisation, reading back (no state) |
| `Toolchain` | composition: the assembler, the file, the VM's constructor, and the control flow of the interpreter |
| `InstrCode` | the binary code of one instruction, from the assembler's `Instr` to the interpreter's |
| `Arith32` | the words of two halves that registers hold, and what each integer handler makes of them (no state) |
| `LangValue` | what a word stands for: an integer and, if its 64 bits are the address of one, an array (no state) |
| `LangParser` | the recursive descent parser, from tokens to the syntax tree (no state) |
| `LangCompiler` | code generation: register map, expressions, conditions, loops, calls (no state) |
| `LangText` | the tokens a program is written with; `Supported`, the forms that are compiled right (no state) |
| `LangSource` | abstract specification: what a program of the toy language means |
| `LangCode` | what the compiler hands to the machine: instructions, their sizes, tables of functions; when code is well formed (no state) |
| `LangMachine` | the VM as programs of the toy language use it: constructor, frames and handlers on words, for any well-formed code |
| `Int32Machine` | abstract specification: the same instructions, on integers of 32 bits and references to arrays, with the arithmetic of the language |
| `Lang` | composition: parser, compiler and `LangMachine`; implements `LangSource` |
| `MCShrimpGC`, `MCShrimpVM`, `MCShrimpText`, `MCToolchain`, `MCInstrCode`, `MCLang` | instances for TLC |
| `ShrimpGC_proofs`, `ShrimpVM_proofs`, `ShrimpText_proofs`, `Assembler_proofs`, `ShrimpFile_proofs`, `Toolchain_proofs`, `InstrCode_proofs`, `LangMachine_proofs` | theorems and proofs |

`ShrimpVM` implements `ManagedHeap`, and `ShrimpGC` its collecting part (a behaviour
that only reclaims), under the mapping that
takes `objs` to the allocated addresses, `edge` to the references in objects and
`roots` to what the registers hold. `Lang` implements `LangSource` and, with its
compiler forgotten, `LangMachine` on well-formed code; `LangMachine` implements
`Int32Machine`, under the mapping that takes every word to what it stands for
(`ValueOf`: the number `getValue` reads, and the array at that address, if any).

### The heap (`ShrimpHeap`)

A 64-bit word is abstracted to what collector and program can tell apart: an
address (`Block`), zero (`Null`) or another number (`Num`). An object is a class
word, a size and payload words. The class word of an array is a pointer into the
vector `arrays_`; the model keeps with it the number of the buffer it points
into (`buf`), which is what tells a current pointer from one into a buffer the
vector has released. The mark bit is kept outside the object, in `mark`, since no
allocation initialises it and a reused block keeps it.

`FieldClass` gives each class the classes of its fields. Its assumption
`FieldClass[c][f] < c` is what `Assembler::parseClass` (assembler.hpp:532-567)
guarantees: a class can be named by a field only after its own declaration has
been read.

### The collector (`ShrimpGC`)

| gc.hpp | Model |
|---|---|
| `run` | `phase`: collect, mark, sweep, unmark, done |
| `collectRoots` | `CollectRoots` |
| loop of `mark` over `roots_` | `todo`; `SkipRoot`, `MarkString`, `MarkArray`, `MarkClass` |
| recursion of `markClass`, loop of `markArray` | `path`, the stack of activations; `SkipSlot`, `Descend`, `Return` |
| `sweep` | `unswept`; `Keep`, `Free` |
| read through a descriptor pointer into a released buffer | `MissStaleArray`: no branch of `mark` is taken. `MarkArray` is enabled too, since the released memory may still hold the descriptor. Other garbage (the bytes of an unrelated allocation read as a class) is not modelled |
| a word that is no reference is followed | `WildRoot`, `WildSlot`: phase "crash" |

`markArray` sets the mark before it walks the elements, `markClass` after; the
model keeps this difference, because it decides what a cycle would do and shapes
the invariant. `roots_` and `allocations_` are sets: TLC takes their members in
every order.

### The machine (`ShrimpVM`)

One action for each kind of instruction handler. The bytecode is not fixed: any
instruction may be next, so the model stands for all programs. Only programs that
use registers according to their contents are considered (the conjuncts `IsA`,
`ArrayOf`, `IsText`, `IsNumber` and the index range): the handlers check nothing,
and on other programs nothing holds. Dereferencing null is kept (`NullAccess`).

An instruction that allocates is two steps with the collector between them:
`TriggerGC` when `10 * allocated >= 9 * MemLimit`, the steps of the collector
(`Collect`), then the allocation, enabled in phase "done". Below the threshold it
is one step.

`Place` puts the object at an address never used before (still zero) or at one
given back to the same pool, with the contents it had: which of the two is the
pool's choice. That memory never used is zero is not the code's doing: the arena is
`new uint8_t[limit]` (memory_resource.hpp:18), which initialises nothing. For the 32
MiB of the VM the allocator of the system makes a new mapping, which the kernel hands
out zeroed, and `Init` of `ShrimpVM` and `ShrimpText` is written for that. With
another allocator unused memory would be like the reused memory of the findings. Requests larger than every pool go to the arena, which takes nothing
back. When no address is left, class objects crash (the code writes through the
null pointer), pooled requests crash (the pool builds a chunk at null) and larger
strings and arrays return null; the array descriptor is pushed in any case.

### The text of strings (`ShrimpText`)

Blocks of one pool, each a sequence of bytes. `AllocateString` overwrites as many
bytes as the string has and leaves the others, `getData` reads up to the first NUL
and, if the block has none, into what follows it. The history variables `text`
(what the program means) and `fresh` (no reused memory went into the string) give
the properties something to compare with. A collection, when the threshold is met,
is one step here (`Survivors`), which `ShrimpGC` justifies. Bounds: strings fit in
a block, `MaxStrings` are created.

### Assembler, file and control (`Assembler`, `ShrimpFile`, `Toolchain`)

The source text is open: the first pass may meet any declaration, label or
statement of the constants next, so a behaviour is a source file together with its
assembly and execution. Each production of the parser is an action, and each
error it can raise is one too (`TooManyArgs`, `UnknownType`, `LabelRedeclared`,
`UnknownOperand`, `UnresolvedLabel`, `EndAfterClass`), ending in phase "error".

| Code | Model |
|---|---|
| `func_name_to_id_`, `class_name_to_id_`, `strings_` | functions from names to ids; `Insert` keeps the first entry, as `insert` does |
| `FuncInfo`, `ClassInfo`, `FieldInfo` | records of `funcs_`, `classes_`; an instruction keeps the names of its operands as history, which the properties compare with its ids |
| labels and jumps of `FuncInfo`, `JumpInfo`, `resloveJumps` | `labels`, `Jumps`, `Resolved`; `marks`, a history variable, says which instruction a label was written before |
| `writeCode`, `writeStrings`... | one instruction at a time (`writeCode`), then the tables (`writeTables`), strings in any order of the hash table |
| `File`, `fillHeaders`, `serialize` | `fillHeaders` adds up sizes; `serialize` writes every item at the position the stream has reached, into a map from offsets to items; `ReadFile` looks only where headers point |
| constructor of `ShrimpVM` | `Load`; `ById` is `emplace`, classes are kept in file order |
| handlers of jumps, calls and RET, and `pc_ += getByteSize()` | `ExecNext`, `ExecJump`, `ExecCall`, `ExecRet`; a conditional jump may go either way |

A function declared twice gets a table entry of its own, but its name keeps the
first id, in the file as well: the second body is assembled and never called. A
call can only name a function declared before (or the caller). Both are kept, with
the ends of functions that have no RET, over which the interpreter runs on.

### Instruction code (`InstrCode`)

The layouts of `isa.yaml` are transcribed, a word is the set of its bits that are
1, and both generators are modelled by what the code they emit does: mask, shift
and or in `assembler/gen_instr.py`; two shifts, in `int` for words below 32 bits,
and sign extension in `runtime/interpreter/gen_instr.py`.

### The toy language (`Lang` and its parts)

A behaviour of `Lang` picks a program, parses and compiles it in one step
(`Compile`), loads it (`Load`) and executes one instruction a step. `LangSource`
gives the same program its meaning, one statement a step: variables of fixed
width or references to arrays, arrays, activations with their own variables.
`SourceSpec` says that the first implements the second.

The handlers of arrays take all 64 bits of a register for the address of one
(interpreter.cpp:813, 878), those of integers the low half. So `LangValue` takes a word
for a pair: its number, and the array that lies at exactly that address. Where arrays
lie is the constant `Address`, of which `AddressAssumption` says that addresses differ
and that their high halves are neither zero nor all ones, as in the mapping of an arena
on a 64-bit system: then what an integer handler leaves, whose high half is one of the
two, is the address of no array, and an access through it is as undefined as one out of
bounds. A program may compute with references; in `LangSource` and `Int32Machine` the
result is the integer.

The machine is a module of its own, `LangMachine`, so that what is proved about it
does not reach the recursive operators of parser and compiler. Its code is any that
is well formed (`WellFormed`: instructions have the operands their handlers read,
calls name functions there are, and whatever can follow an instruction of a function,
calls and returns apart, is an instruction of that function). `MachineSpec`, checked
of `Lang`, says that what the compiler makes of programs is well formed, and that
`Lang` does with it what `LangMachine` does.

| Code | Model |
|---|---|
| `token_iter_`, `reserved_token_iter_` | `at`, `saved` of the record handed from rule to rule; a failure is `Fail`, which returns to `saved`. The functions of `parser.cpp` that differ only in the rules they call one after the other are one operator, `Chain`, with the sequence of rules |
| `ASTNode` and its subclasses | records with the fields of the subclass; a node a rule adds children to is `node`, the `AstRet` of the code |
| `num_of_tmp_regs_`, which nothing initialises | `TmpStart`: it may start from any of these values |
| `varIdent_to_reg_`, `insert` and `operator[]` | `regs`; `InsertReg` gives a new name the size of the map, cut to a register (`NextReg`), `Touch` gives it register 0. `NumRegs`, 256 in the code, is a constant |
| `Array *`, the bits of a register | `ArrayIn` |
| `setName` on children, to find their results later | `OperandName`, which computes the name from the child; `Renamed` where a node is compiled a second time |
| `curr_offset_`, instructions and patched jumps | `off`, `code`, `LoopExit` |
| `handleAddI32`... | `AddI32`... of `Arith32`, sets of the words that may be left: a build may keep a sum that overflows in either form |
| signals of DIV and MOD, accesses outside an array | status "undef" in both modules |

History variables: `marks` (where statements and their parts begin in the code),
`seen` in each frame (the last such place and the variables when control got
there), `result` (the last value returned). They make the refinement mapping a
state function: a frame is, in the source, where its `seen` says.

`Supported` (in `LangText`) leaves out the programs that are parsed but compiled to
something else. Each of its conjuncts is necessary: without it TLC finds a program
for which `SourceSpec` fails (`Halts` for the last form, which is never loaded); that
a call has as many arguments as the function has parameters is asked because the source
says nothing else. No
document of the repository says which forms work, so these are listed here and not
among the findings:

| Form | What the code does | Line |
|---|---|---|
| `x - (y * z)` with a variable first inside the parenthesis | `y` is overwritten by the product | lang2shrimp.cpp:511 |
| `(a - b) * (c - d)` | the left result is lost from the accumulator | lang2shrimp.cpp:523 |
| `a - b < c` | the operation on the left is not compiled, register 0 is compared | lang2shrimp.cpp:425 |
| `a < p[i]` | the read on the right is not compiled, register 0 is compared | lang2shrimp.cpp:438 |
| a comparison as an operand of an operation | not compiled | lang2shrimp.cpp:499 |
| `x = p[x + 1]` | the index is compiled twice, first into `x` | lang2shrimp.cpp:567 |
| `f(x);` in a function without parameters | the result goes to register 0, the first variable | lang2shrimp.cpp:742 |
| a variable read before it is written | has register 0 | lang2shrimp.cpp:605 |
| two parameters | both have register 255 | lang2shrimp.cpp:133 |
| a function with more names (variables, literals, the compiler's own) than registers | the names above 255 begin again at register 0; with a parameter, 255 is taken | lang2shrimp.cpp:333 |
| a call with fewer arguments than parameters | a parameter without argument is zero, where the source has no value | lang2shrimp.cpp:635 |
| two functions called before they are declared | both have id 0 | lang2shrimp.cpp:629 |
| `for (i = 0; ...)` without a type | does not parse, with all that follows in the file: after the failed declaration the parser is back at the word `for` | parser.cpp:216 |

The grammar of the runs puts operations inside an operation in parentheses. Without
them `a * b + c` is one node that is renamed from `*` to `+` and has three operands,
of which two are used (parser.cpp:422, 459).

Arrays are only created and accessed here; what the allocator and the collector do
with them is `ShrimpVM`'s, and here no array is collected and no address used twice. Strings and floats have their code in `LangCompiler`, no
meaning in `LangSource`, and do not occur in the programs of the run.

## 3. Runs

| Run | Question | Instance |
|---|---|---|
| `gc_exact` | Does one run keep exactly the reachable objects, whatever the heap, and do nothing else to them? | 3 addresses, 3 classes (`{i32}`, `{1}`, `{2,1}`), three array descriptors (of integers, class 1 and class 2), arrays of 0 to 2 elements, all heaps, all root sets |
| `gc_degraded` | What still holds when heaps are not typed and descriptor pointers stale? Does each step leave less to do? | 2 addresses, the same descriptors, class words into the current buffer of `arrays_` or a released one, words that are no references anywhere |
| `vm_heap` | Do all instruction sequences keep references live, marked, and the collector's precondition? | 3 addresses, 2 registers, accumulator, one frame |
| `vm_calls` | Also across calls? Does every collection return, each of its steps leaving less to do, and does the whole implement `ManagedHeap`? | 2 addresses, 3 frames, no symmetry; immediates are null |
| `stale_descriptor` | violated: is an array in a register always allocated? | two arrays |
| `new_array_elements` | violated: are the elements of a new array null? | arrays in pools |
| `toolchain_control` | Where is pc, from any source? | 2 functions, 3 instructions each, of RET, a jump, a conditional jump and a call, 1 label, 3 frames |
| `toolchain_data` | Does a name in the source lead to the same entity in the VM? | 1 function with up to 5 parameters (one too many, repeated ones), 3 class declarations (a repeated name, a class as field type, one not declared yet), 2 strings, 8 statements |
| `fresh_text` | Do strings read as written, without a NUL of their own? | 3 blocks of 3 bytes, 2 registers, literals of 1 and 2 characters, 5 strings |
| `reused_text` | violated: also in reused memory? | 2 blocks |
| `instr_code` | Does decoding undo encoding? | all 48 instructions, each field with up to 21 values |
| `lang` | Does a program do what its source says, and end? Is its code well formed, and computed with as integers of 32 bits and references? | halves of 4 bits, 21 registers, two arrays, inputs -8, -1, 0 and 3, every expression of a grammar of three levels, programs with loops, conditions, arrays, references, calls, and as many names as registers |

Properties, beyond types:

* `Sound`, `Exact`, `MarksClear`, `NoCrash`, `OnlyReclaims` (collector): see the
  comments in `ShrimpGC`.
* `IInv` and `DegradedInv` of `ShrimpGC` (`gc_exact`, `gc_degraded`), `VMInv`
  (`vm_heap`), `TextInv` (`fresh_text`), `ToolchainInv` (both toolchain runs): the
  inductive invariants of the proofs, so that they were known to hold before they
  were proved. `VMInv` implies `RefsLive` and `NoHiddenRefs`, which `vm_calls`
  checks across frames.
* `SafePathsLive`: limits the damage of stale descriptors: objects reached without
  passing through such an array are never freed.
* `Progress` (`gc_degraded`), `RunsEnd` (`vm_calls`): each step of a run of the
  collector makes a tuple of numbers smaller in the lexicographic order: the stages
  left, the roots not marked from, the allocations not swept, the objects neither
  marked nor being walked, the activations, the slots the top one has not passed
  (`Work`). So no object is walked twice and no loop goes on for ever, on heaps in any
  disorder. Recursion into an object that is being walked, which has no end, is the
  crash of `WildSlot`; that a typed heap never leads to it is `NoCrash`. `GCReturns`
  says, with fairness, that the run does return.
* `RefsLive`: no register, field or element ever leads to a freed object, marked or
  not.
* `NoHiddenRefs`: every address in use is one the collector sees.
* `CollectorPrecondition`: each run starts on a heap for which the collector was
  shown correct. This is what joins `gc_exact`, which starts from any such heap,
  to the machine.
* `CollectsAll`, `Accounting`, `GCReturns`, `ManagedHeapSpec`.
* `JumpsLand`: a jump in the written code leads to the instruction its label stands
  before in the source.
* `CallsDefined`, `SymbolsResolve`, `ParamsArrive`: ids in instructions name, in
  the assembler and after loading in the VM, what the source named; a parameter
  is read from the register its argument was put in.
* `FileRoundTrips`: reading returns what was written.
* `PcOnInstruction`: pc is on an instruction or at the end of the code, for every
  source that assembles, functions without RET included.
* `ControlInFunction`: if functions end in RET or a jump, pc is in the function of
  the top frame and every return address in the function of the frame below.
* `FreshReadsRight`: strings shorter than their block, in memory never used before,
  read as meant, through any sequence of CONCAT and SUBSTR, lengths past the end
  included. The two conditions are what the missing NUL costs.
* `SourceSpec`: at every statement of every activation the registers hold the values
  the source gives the variables; array elements, output, results and the places
  where execution is undefined are the source's as well.
* `ControlInCode`: pc is at an instruction of the function of the top frame, and each
  frame below returns to an instruction of its own function: patched jumps, ids of
  functions called before they are compiled, and frames agree.
* `MachineSpec`: compiled code is well formed, and run as `LangMachine` runs code.
* `ComputesOnInt32`: of a word only what `getValue` reads of it, and whether the whole
  is the address of an array, decides what a program does or writes. Some handlers
  leave a number sign-extended and others with zeros above; an integer handler that
  read the whole word would tell them apart, and an array handler that read the half
  would find an array at a number, or the wrong one of two.
* `Halts`: the programs of the run, none of which loops in the source, end.
* `OperandsSurvive`, `Dispatches`: operands that fit their fields come back, and
  the opcode selects one instruction. An operand that does not fit is cut
  without an error; the property says nothing of it.

Bounds. Three addresses give chains, shared children and a diamond through three
classes, an array over two objects, garbage that refers to live objects and live
objects next to garbage. Two registers and an accumulator allow every move between
them. `MemLimit` is set so that the collector runs when all addresses are taken;
smaller thresholds only run it on smaller heaps, which the runs reach as well by
their garbage. Classes and strings share one pool, so that blocks are reused across
kinds. In the passing VM runs `MaxArrays` is 1 and arrays are larger than every
pool; the two violation runs lift one of these each and show why they are there. So
`CollectorPrecondition` and the other properties of these runs say nothing of stale
descriptor pointers; `ArraysLive` and `SafePathsLive` do.

Two functions of three instructions give calls forward and back, recursion, a
label at each place including the end of a function, jumps over calls and into
the middle, and a function that falls off into the next. The data run has one
function, since the order of functions matters to nothing there, and the control
run no class, for the same reason. Strings have lengths 0, 3 and 5, so that
sections of different and of no size follow one another.

With halves of 4 bits the integers are -8 to 7: the inputs contain the least, whose
quotient by -1 has no result, zero, and two whose sums and products overflow both
ways. `HandlersCorrect` and `MachineComputesOnInt32` carry the arithmetic to every
width. The two addresses of arrays have the same low half, which is also a number of
the programs, so that half an address is not enough. `NumRegs` is 21, the least with
which none of the other programs runs out of registers; `Crowded` has a function with a
parameter and one without, in which every register has a name and the first is used
last. It is generated for one name more as well, which `Supported` leaves out: with it
`SourceSpec` fails. The first numbers of temporaries, 0 and `NumRegs - 2`, give programs
whose counter does not wrap and programs where it does between two literals. The
programs of loops and calls are chosen for
what crosses statements: a return inside two conditions, loops that are not entered,
an index out of bounds, a result in use after other calls, a forward reference,
recursion, an array under several names, in another array's element, as argument and
as result.

Deadlock is not checked: the assembler stops at an error, the encoding of an
instruction when it is complete, the collector's model stops when the run returns, and
the machine stops when the program halts or crashes, or, in `Lang`, executes what is
undefined.

Fairness. The VM is one thread; a step of the collector, once enabled, is what the
thread does next. Weak fairness of the collector's steps is all that is assumed;
of the program nothing is (it may loop forever). In `Lang` the whole is one thread
that runs a given program, with weak fairness of its next step.

### Findings

1. `stale_descriptor` (array.hpp:26). The class word of an array points into
   `arrays_`. A later `ARR.NEW` can move the vector. The next collection then reads
   released memory, takes no branch of `mark`, and frees an array a register holds.
2. `new_array_elements` (array.hpp:28). Elements are not cleared; in a reused block
   they are old references. `grand_bench.shr:23` relies on null.
3. `reused_text` (string.hpp:41). Strings have no NUL. In a reused block the end of
   an earlier, longer string is read as part of the new one. The run finds it with a
   substring of length 0; a shorter literal after a longer one does the same.

## 4. Proofs

### The collector (`ShrimpGC_proofs`)

For every number of addresses, classes, fields, slots and every heap (the
assumption is `HeapAssumption`):

* `TypeCorrect`, `Soundness`, `Exactness`, `MarksAreClear`, `CrashFree`:
  `GCSpec => []P` for the invariants of `gc_exact`;
* `Refinement`: `GCSpec => OnlyReclaims`, that is, the collector implements the
  collecting part of `ManagedHeap` (`CollectorSpec`).

`GCSpec` starts with a run on a typed heap without marks; that the machine calls the
collector only so is proved of the machine. The theorems follow from
`Invariance == GCSpec => []IInv`. The invariants alone are not inductive: that
everything reachable is marked when the sweep begins is known only from what the
recursion has established on the way. `IInv` adds

* `HeapFacts`: the reachable objects are typed, their descriptor pointers current
  (assumed of the initial state, and not changed by the collector);
* `PathFacts`: activations are of reachable objects, an array only at the bottom,
  and class ids decrease along the path. So an object being walked is never entered
  again, and the depth is bounded;
* `SlotsPassed`: what an activation has passed is marked, but for the child being
  walked by the next activation;
* `VisitedClosed`: marked objects refer to marked objects, but for an array being
  walked, which was marked first;
* `RootsPassed`: the same for the roots;
* `PhaseFacts`: what is marked and allocated in each phase.

When `path` and `todo` are empty, the set of marked objects contains the roots and
is closed, so by `ReachLeast` it contains all of `Reachable` (lemma `AllVisited`).
The same argument serves both marking passes: `Target` is the state being set.
There is one lemma for each action, and `StepInv` combines them. The facts about
`Reach` itself are at the start of the module.

`SafePathsStayLive == DegradedSpec => []SafePathsLive` is about heaps that are
damaged in any way: no word has to be a reference and no descriptor pointer current.
What a run begins with is that no object is marked and that what is safely reachable is
still allocated. That the second pass over a damaged heap clears all marks again is not
stated: it may miss the same arrays as the first. The
invariant, `DegradedInv`, follows the first `mark()` only, and only what it achieves:
it may crash on what it finds; but if it comes to its end, the marked objects are a
set that contains the safe roots and is closed under references outside arrays with
stale pointers, and so contains `SafelyReachable` (`SafeLeast`). The sweep frees
nothing that is marked, and of the second pass nothing has to be known.

`EveryStepProgresses == DegradedSpec => Progress`, for any finite number of addresses,
says that a run does not loop on any heap: `Work` falls with each step, and there is no
infinite descent in tuples of natural numbers. It needs of the heap only `WalkOrder`:
outside `mark()` nothing is being walked, and what is being walked is an object of a
class, or marked already (an array). This is why `Return`, which marks the object that
has been walked, does not bring it back among the objects still to be walked, and why
popping an array leaves their number as it is.

### The machine (`ShrimpVM_proofs`)

For any registers, frames, addresses, classes, pools, memory limit and stack depth:

| Theorem | Property |
|---|---|
| `VMTypeCorrect` | `TypeOK` |
| `CollectorRunsEnd` | `RunsEnd` |
| `AllocationsAddUp` | `Accounting` |
| `NoDanglingReference` | `RefsLive` |
| `NothingHidden` | `NoHiddenRefs` |
| `CollectorIsCalledRight` | `CollectorPrecondition` |
| `GarbageIsCollected` | `CollectsAll` |
| `MachineRefinesHeap` | `ManagedHeapSpec` |

The first three hold of every behaviour (`RunsEnd` with finitely many addresses),
whatever has become of the heap: their invariants are `TypesInv` (types, `WalkOrder`,
no root left between two runs, arrays within their blocks) and `Ledger`.

The others have the form `Spec /\ Undisturbed => []P`. `Undisturbed` says that
elements of new arrays are zero (`ElementsZero`) and that the collector meets no
stale descriptor pointer (`DescriptorsMet`): what the first two findings say the code
does not ensure, and one of them is enough to lose `RefsLive`. The two conditions are
about behaviours, not assumptions about the code. When they are met is proved of each
separately, and is what the other finding leaves open:

* `ArraysOutsidePoolsZero`: where no array fits a pool (`ArraysOutsidePools`), elements
  of new arrays are zero, and `NewArraysNull` holds, with any number of arrays and with
  stale pointers: such an array is always put in memory that was never used, and that
  is zero (`FreshZero`), as `Init` has it.
* `OneArrayCurrent`: where a program creates at most one array, `DescriptorsMet` holds,
  whatever its elements are: the vector never moves, and the class word points into the
  buffer in use (`OnlyArray`).
* `OneArrayUndisturbed` is both (`ArraysLimited`, which is how the passing runs are
  set up). `OneArraySafe` and `OneArrayRefinesHeap` state what follows without a
  condition on the behaviour, `ArraysLive` included.

So the stale pointer of `stale_descriptor` takes two arrays, and `new_array_elements` a
pool that serves arrays.

`VMInv` is the conjunction of what the program needs while it runs (all that is
reachable is allocated and typed, every address in use is seen by the collector,
nothing is marked) and, while the collector runs, of the collector's `IInv`. The
steps of the collector are those of `ShrimpGC`, whose lemmas are cited; when a run
returns, `Exact`, `MarksClear` and `Sound` give back what the program needs. For an
instruction the argument is the lemma `Cover`: a set that holds the new roots, and in
which every object is as it should be, holds all that is reachable afterwards. For a
move the set is what was reachable before, for an allocation that and the new object.
`NeverDangling` proves of the abstract specification that no reachable
address dangles, whatever implements it.

In `AllocationsAddUp` the sum is a fold over a set. What is to be shown of all finite
sets is shown by taking a smallest set for which it fails: the induction theorems of
the library take an operator as a parameter, which the provers cannot instantiate.

### Strings (`ShrimpText_proofs`)

`TextTypeCorrect` and `FreshStringsRead` (`FreshReadsRight`) for any blocks,
characters, literals and memory limit, from `TextInv`: memory never handed out is
zero (by `Init`, see `ShrimpVM` above), and a string in it has its text, then a NUL, and a size that is at least its
length. The last is what makes it inductive: `CONCAT` reserves the sum of two sizes,
but copies up to a NUL, and after `SUBSTR` past the end a size exceeds the text.

### Assembler (`Assembler_proofs`)

`Assembler_proofs` proves of every source, from the assumption on the shape of
declarations (`AssemblerAssumption`), `AsmTypeCorrect`, `CallsAreDefined` and
`JumpsAlwaysLand`. `JumpsLand` is about the written code; its invariant has to
follow the program through the passes: `Layout` (instructions follow one another
without a gap, and a label is the position of the instruction it stands before,
which may not exist yet), `JumpsResolved` (what `resloveJumps` has established),
`CodeWritten` (what `writeCode` has written lies where the first pass put it).
Functions are only ever appended, and a label is declared in the last one, which is
why the earlier ones keep their layout.

### The file (`ShrimpFile_proofs`)

`RoundTrip`: for every file that is `WellFormed`, `ReadFile(serialize(file)) = file`.
`WellFormed` says that the entries have their fields and no others, that only the
empty string has no bytes, and that a file without bytes of code has no code; tables
may have any length. Writer, reader and the sums of the headers are folds. A fold over
a sequence is described by its trace (`IsTrace`), the values it has after each entry,
and what holds along a trace is shown by the impossibility of a least index where it
fails (`SmallestNat`). What is written lies one item after the other (`Laid`), so the
items of an entry are where its reader looks, an entry ends where the next one
begins, and a table ends where the header of the next one says, which is where the
order of `fillHeaders` enters.

### From source to execution (`Toolchain_proofs`)

For every source, vocabulary and stack depth:

* `FileAlwaysRoundTrips`: `Spec => []FileRoundTrips`. The file the assembler makes is
  `WellFormed` (`FileWellFormed`); `ToolchainAssumption` says of names and strings that
  only the empty one has no bytes;
* `PcAlwaysOnInstruction`, `ControlStaysInFunction`, `ToolchainTypeCorrect`,
  `ParametersArrive`;
* `SymbolsAlwaysResolve`, under the assumption `FewStrings` that the source has no more
  strings than the 65536 ids of `StrId`: with more, ids repeat, and a string load can
  lead to another string;
* `AssemblesFirst`: `Spec => AsmSpec`, by which the theorems of `Assembler_proofs` hold
  of the whole.

`ToolchainInv` is `IInv` of the assembler with, of the source, `Ordered` (the code of a
function lies between its offset and that of the next), `ClassNames` and
`SymbolsEncoded` (operands are the ids of what they name), `StringsFromSource` and
`StringIds`; of the file, `CodeFromSource` and `TablesWritten` (nothing is written
but the source); of the machine, `MachineLoaded` (its tables are those of the file),
`Frames` (pc and return addresses are at instructions or the end) and, in a closed
program, `FramesInFunction`. The last is stated in terms of the source's functions,
from which what the loaded tables say follows. `Whole` adds `FileRoundTrips`.

### Instruction code (`InstrCode_proofs`)

`InstrCode_proofs` proves `AllOperandsSurvive` for every 64-bit value of every
operand. Of the layouts it uses only that fields lie above the opcode and inside
the word, do not overlap, and reach the top of a word shorter than an `int`
(`FieldsOK`), shown group by group for the table; the rest is arithmetic of bit
positions (`CodedBits`, `CutBits`). `AlwaysDispatches` rests on the fields lying above
the opcode, so that the bits of the opcode are those of the instruction's own number,
and on these numbers being different.

### The toy language's machine (`LangMachine_proofs`)

Of the handlers it proves, for every even number of values of a half above two
(`ModulusAssumption`), that they are operations on int32_t:
`HandlersCorrect` (any word a handler may leave, read by `getValue`, is the wrapped
result of the operands as read and the address of no array; and some word is left unless
the division traps)
and `HighHalvesIgnored` (results depend on the low halves only). So a number may be
in either of its two forms, sign-extended or with zeros above, wherever a program
puts it. The argument is that the low half determines the number (`WrapInt32`,
`ModNegative`), and that quotients and remainders stay in range except in the one
case that traps (`QuotientFits`, `RemainderFits`). `HandlersAreOperators` says in the
terms of `LangSource` what `HandlersCorrect` says in those of arithmetic: what is
read from the words a handler may leave is what the operator of the language gives.

Of the machine it proves, for every well-formed code, any variables and inputs, any
number of registers above four (`NumRegsAssumption`: a call has up to four arguments) and
any addresses of arrays (`AddressAssumption`; there are as many arrays as addresses):

* `MachineTypeCorrect` (`LangTypeOK`) and `ControlStaysInCode` (`ControlInCode`), from
  `MachineInv`: types, frames of functions there are, and control in the code. The
  three need one another: only an instruction that is known to be one of the function
  has registers to read, and only a frame of a function there is has code to return to.
* `MachineComputesOnInt32` (`ComputesOnInt32`): `LangMachine` implements `Int32Machine`.
  There is a lemma for each instruction; the registers, frames and arrays of the
  abstract machine are the concrete ones read with `ValueOf`, and an instruction
  commutes with the reading (`Seeing`, `SetsMap`, `CallMap`, `RetMap`), by
  `HandlersAreOperators` for those that compute. The code may add to an address, or move
  one through every register: a word is an array only with all its bits, so the sum is
  none, in both machines, and the access is undefined in both. Without
  `AddressAssumption` this is false: an array at address one would be met by the integer.

`Lang` reaches the recursive parser and compiler, so the theorems are about
`LangMachine`; that `Lang` implements it is `MachineSpec`, checked by TLC.

### Only model-checked

* `GCReturns` and `Halts`: liveness is out of the prover's reach. For the collector
  `EveryStepProgresses` and `CollectorRunsEnd` prove what `GCReturns` rests on; what
  remains is fairness and that a step is enabled until the run is over.
* `SourceSpec` and `MachineSpec`: parser and compiler are recursive operators, for
  which the prover has no backend, and what they compute is an induction over
  syntax trees.

Every other property of a passing run is stated by a theorem, for all values of the
constants, under the conditions named above. The properties of the three violation
runs are false.

## 5. Plan

1. (done) heap, collector, machine; collector proved.
2. (done) assembler, file, control flow, instruction code; assembler and
   instruction code proved.
3. (done) `Arith32`, proved for every width; parser, compiler and the meaning of
   the toy language.
4. (done) proofs: the machine around the collector, damaged heaps, strings, the
   file, and the way from source to execution.
5. (done) of the machine around the collector, each of the two conditions of
   `Undisturbed` proved by itself, and what holds without either; that the collector's runs do not loop.
6. (done) of the toy language, the machine apart from its compiler, proved to stay
   in well-formed code and to compute on integers of 32 bits and on references, an
   address being all 64 bits of a word.
7. Left: `DescriptorsMet` for any number of arrays, as long as no collection comes
   between the growth of `arrays_` and the death of the older ones.

## 6. Not modelled

Logging and its text; floating point; command line handling; the `Runtime` stub,
which is empty; build scripts and test harness. The lexers: generated code
(assembler) and pure text (frontend), of which `LangText` has the result. A
declaration without value (`int a;`), for which the compiler reads a child that does
not exist. The sizes of pools and chunks, which are the C++ library's: that an array's
last element, four bytes past the request (array.hpp:23), stays in its block, and
when memory runs out below the collection threshold (memory_resource.hpp:49), depends
on them. `ShrimpVM` leaves both open: it has blocks, and running out at any time is
bounded only by the number of addresses.
