------------------------------ MODULE ShrimpVM ------------------------------
(***************************************************************************)
(* The virtual machine around the collector: registers, accumulator, call  *)
(* stack, allocator, and what each instruction handler of interpreter.cpp  *)
(* does to them.  The collector is ShrimpGC, which declares the state they *)
(* share.                                                                  *)
(*                                                                         *)
(* The bytecode is left open: any instruction may be next.  So there is no *)
(* pc, and NOP, the jumps and the PRINT intrinsics, which change nothing   *)
(* but pc, are stuttering steps.  Handlers check no types; as input only   *)
(* programs are considered that use a register according to what it holds  *)
(* (the conjuncts IsA, ArrayOf, IsText and IsNumber).                      *)
(***************************************************************************)
EXTENDS ShrimpGC, FiniteSetsExt

CONSTANTS
  ArgReg,     \* sequence of the registers a callee finds its arguments in
  PoolSizes,  \* block sizes of the pools; a larger request goes to the arena
  MemLimit,   \* ShrimpVM::MEM_LIMIT
  Imm,        \* words an immediate or a computation may produce
  ArrSizes,   \* bound: sizes of the arrays created
  MaxArrays,  \* bound: number of arrays created
  MaxDepth    \* bound: frames on the stack

ASSUME VMAssumption ==
  /\ \A i \in DOMAIN ArgReg : ArgReg[i] \in Reg
  /\ \A i, j \in DOMAIN ArgReg : i # j => ArgReg[i] # ArgReg[j]
  /\ PoolSizes \subseteq Nat
  /\ MemLimit \in Nat
  /\ MaxDepth \in Nat \ {0}
  /\ Imm \subseteq {Null, Num}
  /\ ArrSizes \subseteq 0 .. NumSlots - 1

VARIABLE
  status        \* "run", "halted" (RET of main) or "crash" (invalid access)

NewFrame == [r \in Reg |-> Plain(Null)]

colVars == <<mark, roots, todo, path, unswept>>
vars    == <<gcVars, status>>

\* ShrimpVM::currFrame and Frame::setReg.
currFrame == stack[Len(stack)]
SetReg(r, x) == stack' = [stack EXCEPT ![Len(stack)][r] = x]

-----------------------------------------------------------------------------
\* The typed use of a word.
IsNumber(x)   == ~x.ref
IsA(w, c)     == w \in Block /\ heap[w].cw = DefaultClassWord(c)
IsText(w)     == w \in Block /\ IsString(heap[w])
ArrayOf(w, k) == w \in Block /\ IsArray(heap[w]) /\ arrays[heap[w].cw.id] = k

\* Between two instructions; an instruction that does not allocate.
Running == status = "run" /\ phase = "idle"

NoAllocation == UNCHANGED <<allocations, allocated, arrays, phase, colVars>>
OnlyRegisters == NoAllocation /\ UNCHANGED <<status, heap>>

\* MOV copies the mark with the value, an immediate is no reference.
Mov(rd, rs) ==
  /\ Running
  /\ SetReg(rd, currFrame[rs])
  /\ UNCHANGED acc /\ OnlyRegisters

MovImm(rd, w) ==
  /\ Running
  /\ SetReg(rd, Plain(w))
  /\ UNCHANGED acc /\ OnlyRegisters

\* LDA, STA: between a register and the accumulator.
Lda(rs) ==
  /\ Running
  /\ acc' = currFrame[rs]
  /\ UNCHANGED stack /\ OnlyRegisters

\* Mutant of Sta: the mark is lost.
StaValue(rd) ==
  /\ Running
  /\ SetReg(rd, Plain(acc.val))
  /\ UNCHANGED acc /\ OnlyRegisters

Sta(rd) ==
  /\ Running
  /\ SetReg(rd, acc)
  /\ UNCHANGED acc /\ OnlyRegisters

\* LDA.IMM, arithmetic, comparisons, conversions and the numeric intrinsics
\* leave a number in the accumulator.
Compute(w) ==
  /\ Running
  /\ acc' = Plain(w)
  /\ UNCHANGED stack /\ OnlyRegisters

ArrLength(rs) ==
  /\ Running
  /\ \E k \in 0 .. NumClasses : ArrayOf(currFrame[rs].val, k)
  /\ acc' = Plain(IF heap[currFrame[rs].val].size = 0 THEN Null ELSE Num)
  /\ UNCHANGED stack /\ OnlyRegisters

\* LDFIELD marks what it loads by the field's is_ref.
Ldfield(rd, rs, c, f) ==
  /\ Running
  /\ IsA(currFrame[rs].val, c)
  /\ SetReg(rd, [val |-> heap[currFrame[rs].val].data[f], ref |-> FieldClass[c][f] # 0])
  /\ UNCHANGED acc /\ OnlyRegisters

\* STFIELD; a field is given null or an object of its class, or a number.
Stfield(rd, rs, c, f) ==
  /\ Running
  /\ IsA(currFrame[rd].val, c)
  /\ LET k == FieldClass[c][f]
     IN  IF k = 0 THEN IsNumber(currFrame[rs])
                  ELSE currFrame[rs].val = Null \/ IsA(currFrame[rs].val, k)
  /\ heap' = [heap EXCEPT ![currFrame[rd].val].data[f] = currFrame[rs].val]
  /\ UNCHANGED <<acc, stack, status>> /\ NoAllocation

\* ARR.LDA.I32 and ARR.LDA.F load a number, ARR.LDA.REF a reference.
ArrLda(rs, i, k) ==
  /\ Running
  /\ ArrayOf(currFrame[rs].val, k)
  /\ i \in 1 .. heap[currFrame[rs].val].size
  /\ acc' = [val |-> heap[currFrame[rs].val].data[ElemSlot(i)], ref |-> k # 0]
  /\ UNCHANGED stack /\ OnlyRegisters

\* ARR.STA.I32, ARR.STA.F and ARR.STA.REF; the last reads the class word of
\* the object in the accumulator, which therefore cannot be null.
ArrSta(rd, i, k) ==
  /\ Running
  /\ ArrayOf(currFrame[rd].val, k)
  /\ i \in 1 .. heap[currFrame[rd].val].size
  /\ IF k = 0 THEN IsNumber(acc) ELSE IsA(acc.val, k)
  /\ heap' = [heap EXCEPT ![currFrame[rd].val].data[ElemSlot(i)] = acc.val]
  /\ UNCHANGED <<acc, stack, status>> /\ NoAllocation

\* Any of the instructions above, and of those that read a string, faults
\* when the register it takes the object from is null.
NullAccess ==
  /\ Running
  /\ acc.val = Null \/ \E r \in Reg : currFrame[r].val = Null
  /\ status' = "crash"
  /\ UNCHANGED <<acc, stack, heap>> /\ NoAllocation

\* Mutant of Call: the values of the arguments are passed, not their marks.
CallByValue(args) ==
  /\ Running
  /\ Len(stack) < MaxDepth
  /\ stack' = Append(stack,
       [r \in Reg |-> IF \E i \in DOMAIN args : ArgReg[i] = r
                      THEN Plain(currFrame[args[CHOOSE i \in DOMAIN args : ArgReg[i] = r]].val)
                      ELSE NewFrame[r]])
  /\ UNCHANGED acc /\ OnlyRegisters

\* CALL.0ARG to CALL.4ARG: the arguments are copied before the frame is
\* pushed, and are put in the first registers of ArgReg.
Call(args) ==
  /\ Running
  /\ Len(stack) < MaxDepth
  /\ stack' = Append(stack,
       [r \in Reg |-> IF \E i \in DOMAIN args : ArgReg[i] = r
                      THEN currFrame[args[CHOOSE i \in DOMAIN args : ArgReg[i] = r]]
                      ELSE NewFrame[r]])
  /\ UNCHANGED acc /\ OnlyRegisters

\* Mutant of Ret: main returns like any function.
RetAlways ==
  /\ Running
  /\ stack' = SubSeq(stack, 1, Len(stack) - 1) /\ UNCHANGED status
  /\ UNCHANGED <<acc, heap>> /\ NoAllocation

\* RET pops the frame; the frame of main has no return address.
Ret ==
  /\ Running
  /\ IF Len(stack) > 1
     THEN stack' = SubSeq(stack, 1, Len(stack) - 1) /\ UNCHANGED status
     ELSE status' = "halted" /\ UNCHANGED stack
  /\ UNCHANGED <<acc, heap>> /\ NoAllocation

-----------------------------------------------------------------------------
\* ShrimpVM::triggerGCIfNeed, at the start of every instruction that
\* allocates; the instruction goes on when phase is "done".
GCNeeded == 10 * allocated >= 9 * MemLimit

TriggerGC ==
  /\ Running
  /\ GCNeeded
  /\ phase' = "collect"
  /\ UNCHANGED <<acc, stack, status, heap, allocations, allocated, arrays, colVars>>

Collect ==
  /\ status = "run"
  /\ UNCHANGED status
  /\ GCNext

\* The instruction allocates.
Allocating ==
  /\ status = "run"
  /\ phase = "done" \/ (phase = "idle" /\ ~GCNeeded)
  /\ phase' = "idle"

\* The pool a request of n bytes is served from, 0 if none is large enough.
Pool(n) == IF \E p \in PoolSizes : p >= n
           THEN Min({ p \in PoolSizes : p >= n })
           ELSE 0

\* Memory no object was ever put in: still zero, as Init takes it to be.
IsFresh(b) == heap[b].cw = NoClassWord

\* Addresses that can serve n bytes: memory never used, or a block of the
\* same pool that was given back.  The arena takes nothing back.
Available(n) ==
  { b \in Block \ Live :
      IsFresh(b) \/ (Pool(n) # 0 /\ Pool(ObjBytes(heap[b])) = Pool(n)) }

\* LimitedMemRes::do_allocate of n bytes at b, where o is then constructed.
\* The mark word is not touched.
Place(b, n, o) ==
  /\ b \in Available(n)
  /\ allocations' = [x \in Live \cup {b} |-> IF x = b THEN n ELSE allocations[x]]
  /\ allocated' = allocated + n
  /\ heap' = [heap EXCEPT ![b] = o]
  /\ UNCHANGED <<status, colVars>>

\* No memory left: a pool that gets no chunk crashes, a request past the
\* pools returns nullptr.
Exhausted(n) ==
  /\ Available(n) = {}
  /\ UNCHANGED <<heap, allocations, allocated, colVars>>

\* String::AllocateString: the size, the hash and the text are written.
StringAt(b) ==
  [cw |-> StringClassWord, size |-> 0,
   data |-> [s \in Slot |-> IF 8 * (s - 2) < StrLen THEN Num ELSE heap[b].data[s]]]

NewString ==
  /\ Allocating
  /\ UNCHANGED <<stack, arrays>>
  /\ LET n == 24 + StrLen
     IN  \/ \E b \in Block : Place(b, n, StringAt(b)) /\ acc' = Ref(b)
         \/ /\ Exhausted(n)
            /\ IF Pool(n) = 0 THEN acc' = Ref(Null) /\ UNCHANGED status
                              ELSE status' = "crash" /\ UNCHANGED acc

LdaStr == NewString

\* CONCAT reads two registers, SUBSTR the accumulator, both after the
\* collector has run.
Concat(r0, r1) == IsText(currFrame[r0].val) /\ IsText(currFrame[r1].val) /\ NewString
Substr         == IsText(acc.val) /\ NewString

\* Mutant of ObjectAt: no memset.
ObjectAtRaw(b, c) ==
  [cw |-> DefaultClassWord(c), size |-> 0, data |-> heap[b].data]

\* Class::AllocateClassRef: the fields are zeroed.  Without memory its
\* setClassWord writes through a null pointer.
ObjectAt(b, c) ==
  [cw |-> DefaultClassWord(c), size |-> 0,
   data |-> [s \in Slot |-> IF s \in DOMAIN FieldClass[c] THEN Null ELSE heap[b].data[s]]]

ObjNew(rd, c) ==
  /\ Allocating
  /\ UNCHANGED <<acc, arrays>>
  /\ LET n == 16 + 8 * Len(FieldClass[c])
     IN  \/ \E b \in Block : Place(b, n, ObjectAt(b, c)) /\ SetReg(rd, Ref(b))
         \/ Exhausted(n) /\ status' = "crash" /\ UNCHANGED stack

\* Array::AllocateArray: the descriptor is pushed whether or not there was
\* memory; the size and the class word are written, the elements are not.
ArrayAt(b, n, arrs) ==
  [cw |-> [type |-> "ARRAY", id |-> Len(arrs), buf |-> Buffer(Len(arrs))],
   size |-> n,
   data |-> [heap[b].data EXCEPT ![1] = Num]]

ArrNew(rd, k, size) ==
  /\ Allocating
  /\ Len(arrays) < MaxArrays
  /\ arrays' = Append(arrays, k)
  /\ UNCHANGED acc
  /\ LET n == 20 + 8 * size
     IN  \/ \E b \in Block : Place(b, n, ArrayAt(b, size, arrays')) /\ SetReg(rd, Ref(b))
         \/ /\ Exhausted(n)
            /\ IF Pool(n) = 0 THEN SetReg(rd, Ref(Null)) /\ UNCHANGED status
                              ELSE status' = "crash" /\ UNCHANGED stack

-----------------------------------------------------------------------------
\* The constructor: one frame, for main, and an empty heap.  Nothing in the
\* code initialises the arena (new uint8_t[limit], memory_resource.hpp:18):
\* that payloads and marks are zero where no object ever was is so because 32
\* MiB are a mapping of their own, which the system hands out zeroed.
Init ==
  /\ acc = Plain(Null)
  /\ stack = <<NewFrame>>
  /\ status = "run"
  /\ heap = [b \in Block |->
               [cw |-> NoClassWord, size |-> 0, data |-> [s \in Slot |-> Null]]]
  /\ mark = [b \in Block |-> FALSE]
  /\ allocations = [b \in {} |-> 0]
  /\ allocated = 0
  /\ arrays = <<>>
  /\ phase = "idle"
  /\ roots = {} /\ todo = {} /\ path = <<>> /\ unswept = {}

Args == UNION { [1 .. n -> Reg] : n \in 0 .. Len(ArgReg) }

Access ==
  \/ \E rs \in Reg : ArrLength(rs)
  \/ \E rd, rs \in Reg, c \in Class : \E f \in DOMAIN FieldClass[c] :
       Ldfield(rd, rs, c, f) \/ Stfield(rd, rs, c, f)
  \/ \E r \in Reg, i \in Slot, k \in 0 .. NumClasses : ArrLda(r, i, k) \/ ArrSta(r, i, k)
  \/ NullAccess

Move ==
  \/ \E rd, rs \in Reg : Mov(rd, rs)
  \/ \E r \in Reg : Lda(r) \/ Sta(r) \/ \E w \in Imm : MovImm(r, w)
  \/ \E w \in Imm : Compute(w)

Control == Ret \/ \E args \in Args : Call(args)

New ==
  \/ LdaStr \/ Substr \/ \E r0, r1 \in Reg : Concat(r0, r1)
  \/ \E rd \in Reg, c \in Class : ObjNew(rd, c)
  \/ \E rd \in Reg, k \in 0 .. NumClasses, size \in ArrSizes : ArrNew(rd, k, size)

Next == Move \/ Access \/ Control \/ TriggerGC \/ Collect \/ New

\* One thread runs the collector's loops to their end.
Spec     == Init /\ [][Next]_vars
FairSpec == Spec /\ WF_vars(Collect)

-----------------------------------------------------------------------------
(***************************************************************************)
(* Properties.                                                             *)
(***************************************************************************)

\* Every variable holds a value of its type.
TypeOK ==
  /\ GCTypeOK
  /\ Len(stack) \in 1 .. MaxDepth
  /\ status \in {"run", "halted", "crash"}

\* Every address a register holds, marked or not, and every address that can
\* be read from there through fields and elements, is that of an object that
\* was not deallocated: no sequence of instructions, calls and collector
\* runs leaves the program with a dangling reference.
Held     == { x.val : x \in Registers }
RefsLive == Reach(Edges(heap, arrays), Held) \subseteq Live

\* The collector sees every address there is: a register that holds one is
\* marked, and so is a word the program can read of an object it can reach.
NoHiddenRefs ==
  /\ \A x \in Registers : x.val \in Block => x.ref
  /\ \A b \in Reachable : \A s \in Payload(heap[b]) :
       heap[b].data[s] \in Block => s \in RefSlots(heap[b], arrays)

\* What the collector's own correctness rests on (GCInit): when
\* run() is called the reachable objects are typed, the descriptor pointers
\* of arrays are current, and no object is MARKED, although no allocation
\* initialises the mark word.
CollectorPrecondition ==
  phase = "collect" => /\ HeapFacts
                       /\ \A b \in Block : ~mark[b]

\* When run() returns, the allocations are the reachable objects.
CollectsAll == phase = "done" => Live \subseteq Reachable

\* allocated_, which decides when the collector runs, is what the list of
\* allocations adds up to, although the one is updated by the allocator and
\* the other by allocator and collector in different places.
Accounting == allocated = MapThenSumSet(LAMBDA b : allocations[b], Live)

\* A run of the collector returns to the allocation that triggered it.
GCReturns == phase = "collect" ~> phase = "done"

\* Whatever the program has done to the heap, every step of a run of the
\* collector leaves it less to do.
RunsEnd == [][Collect => LessWork]_vars

\* Together, program, allocator and collector are a managed heap.
Whole == INSTANCE ManagedHeap WITH Node <- Block, objs <- Live,
                                   edge <- Edges(heap, arrays), roots <- Held
ManagedHeapSpec == Whole!Spec

\* An array a register holds is allocated, so that ARR.LDA "Load rs1[rs2] to
\* acc" loads what was stored in it (it fails once a second array is created
\* and arrays_ has moved: the class word of the first is a pointer into the
\* released buffer, mark() recognises no array there, and sweep() frees it).
ArraysLive == \A x \in Registers : x.val \in Block /\ IsArray(heap[x.val]) => x.val \in Live

\* The elements of a new array of references are null, as a program takes
\* for granted that compares an element it never stored with null (it fails
\* where the pool hands out a block that was used before).
NewArraysNull ==
  [][\A b \in Live' \ Live : \A s \in RefSlots(heap[b], arrays)' :
       heap'[b].data[s] = Null]_vars

-----------------------------------------------------------------------------
(***************************************************************************)
(* What the proofs need.  The two properties above fail, and with them what *)
(* is promised about references can: so the theorems about references are   *)
(* about the behaviours in which elements of new arrays are zero and the    *)
(* collector meets no stale descriptor pointer.  TypeOK, RunsEnd and        *)
(* Accounting need no such condition.                                       *)
(***************************************************************************)
ElementsZero ==
  \A b \in Live' \ Live : IsArray(heap'[b]) =>
    \A i \in 1 .. heap'[b].size : heap'[b].data[ElemSlot(i)] = Null

DescriptorsMet == phase = "collect" => DescriptorsCurrent(heap, arrays, Reachable)

Undisturbed == [][ElementsZero]_vars /\ []DescriptorsMet

\* No array fits a pool, so that each is put in memory never used before;
\* and there is at most one, so that arrays_ never moves.
ArraysOutsidePools == \A n \in ArrSizes : \A p \in PoolSizes : p < 20 + 8 * n
ArraysLimited      == ArraysOutsidePools /\ MaxArrays \in {0, 1}

\* Between two runs of the collector nothing is marked and no root is left.
AtRest ==
  /\ phase \in {"idle", "collect", "done"} => roots = {}
  /\ phase = "idle" => path = <<>> /\ \A b \in Block : ~mark[b]

\* The inductive invariant behind TypeOK and RunsEnd, of every behaviour:
\* arrays end within their blocks, and between two runs the collector has
\* nothing left.
TypesInv ==
  /\ TypeOK
  /\ WalkOrder
  /\ phase \in {"idle", "collect", "done"} => roots = {}
  /\ \A b \in Block : IsArray(heap[b]) => heap[b].size < NumSlots

\* The inductive invariant behind RefsLive, NoHiddenRefs,
\* CollectorPrecondition and CollectsAll: what the program reaches is
\* allocated, typed and seen by the collector, whose own invariant holds
\* whenever it runs.
VMInv ==
  /\ TypeOK
  /\ NoHiddenRefs
  /\ AtRest
  /\ phase = "idle" => /\ Sound
                       /\ HeapTyped(heap, arrays, Reachable)
                       /\ Refs \subseteq Reachable \cup {Null}
  /\ phase # "idle" => IInv

=============================================================================
