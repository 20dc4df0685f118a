-------------------------- MODULE ShrimpVM_proofs --------------------------
(***************************************************************************)
(* Proofs about the machine around the collector.                          *)
(***************************************************************************)
EXTENDS ShrimpVM, ShrimpGC_proofs, FiniteSetTheorems

\* Object b of heap h is as the program may have left it, in terms of a set
\* C of objects its references stay in.
ObjectOK(h, arrs, C, b) ==
  /\ ClassWordTyped(h[b], arrs)
  /\ \A s \in RefSlots(h[b], arrs) : SlotTyped(h, arrs, C, h[b], s)
  /\ \A s \in Payload(h[b]) : h[b].data[s] \in Block => s \in RefSlots(h[b], arrs)

\* A register holds a marked reference into C, or a number.
RegisterOK(x, C) ==
  /\ x \in Register
  /\ x.val \in Block => x.ref
  /\ x.ref => x.val \in C \cup {Null}

-----------------------------------------------------------------------------
\* A set of objects that holds the roots and in which every object is fine
\* holds what is reachable, where every object is fine as well.
LEMMA Cover ==
  ASSUME NEW h, NEW arrs, NEW S, NEW C \in SUBSET Block,
         S \cap Block \subseteq C,
         \A b \in C : ObjectOK(h, arrs, C, b)
  PROVE  LET R == Reach(Edges(h, arrs), S)
         IN  /\ R \subseteq C
             /\ S \cap Block \subseteq R
             /\ \A b \in R : ObjectOK(h, arrs, R, b)
  <1> DEFINE E == Edges(h, arrs)
             R == Reach(E, S)
  <1>1. /\ DOMAIN E = Block
        /\ \A b \in Block : E[b] = Children(h[b], arrs)
    BY DEF Edges
  <1>2. Closed(E, Block)
    BY <1>1 DEF Closed, Children
  <1>3. Closed(E, C)
    <2>1. SUFFICES ASSUME NEW b \in C, NEW w \in E[b] PROVE w \in C
      BY DEF Closed
    <2>2. PICK s \in RefSlots(h[b], arrs) : w = h[b].data[s] /\ w \in Block
      BY <2>1, <1>1 DEF Children
    <2>3. SlotTyped(h, arrs, C, h[b], s)
      BY DEF ObjectOK
    <2>4. QED
      BY <2>2, <2>3, HeapAssumption DEF SlotTyped
  <1> HIDE DEF E
  <1>4. R \subseteq C
    BY <1>1, <1>3, ReachLeast
  <1>5. S \cap Block \subseteq R
    BY <1>1, ReachStart
  <1>6. Closed(E, R)
    BY <1>1, <1>2, ReachClosed
  <1> HIDE DEF R
  <1>7. ASSUME NEW b \in R PROVE ObjectOK(h, arrs, R, b)
    <2>1. ObjectOK(h, arrs, C, b) /\ b \in Block
      BY <1>4
    <2>2. ASSUME NEW s \in RefSlots(h[b], arrs) PROVE SlotTyped(h, arrs, R, h[b], s)
      <3>1. SlotTyped(h, arrs, C, h[b], s)
        BY <2>1 DEF ObjectOK
      <3>2. h[b].data[s] \in C => h[b].data[s] \in R
        <4>1. h[b].data[s] \in Block => h[b].data[s] \in E[b]
          BY <1>1, <2>1 DEF Children
        <4>2. QED
          BY <4>1, <1>6 DEF Closed
      <3>3. QED
        BY <3>1, <3>2 DEF SlotTyped
    <2>3. QED
      BY <2>1, <2>2 DEF ObjectOK
  <1>8. QED
    BY <1>4, <1>5, <1>7 DEF R, E

\* An object that is not written to stays fine when C grows, arrays_ gets
\* new descriptors, and the objects of C keep their classes.
LEMMA Untouched ==
  ASSUME NEW h, NEW arrs, NEW C, NEW b \in C, ObjectOK(h, arrs, C, b),
         NEW h2, NEW arrs2, NEW C2, C \subseteq C2,
         h2[b] = h[b],
         \A w \in C : h2[w].cw = h[w].cw,
         \A i \in DOMAIN arrs : i \in DOMAIN arrs2 /\ arrs2[i] = arrs[i]
  PROVE  ObjectOK(h2, arrs2, C2, b)
  <1> DEFINE o == h[b]
  <1>1. ClassWordTyped(o, arrs2)
    BY DEF ObjectOK, ClassWordTyped
  <1>2. IsArray(o) => o.cw.id \in DOMAIN arrs
    <2>1. SUFFICES ASSUME o.cw.type = "ARRAY" PROVE o.cw.id \in DOMAIN arrs
      BY DEF IsArray
    <2>2. o.cw # StringClassWord
      BY <2>1 DEF StringClassWord
    <2>3. \A c \in Class : o.cw # DefaultClassWord(c)
      BY <2>1 DEF DefaultClassWord
    <2>4. QED
      BY <2>2, <2>3 DEF ObjectOK, ClassWordTyped
  <1>3. RefSlots(o, arrs2) = RefSlots(o, arrs)
    BY <1>2 DEF RefSlots
  <1>4. ASSUME NEW s \in RefSlots(o, arrs) PROVE SlotTyped(h2, arrs2, C2, o, s)
    <2>1. SlotTyped(h, arrs, C, o, s)
      BY DEF ObjectOK
    <2>2. IsObject(o) \/ arrs2[o.cw.id] = arrs[o.cw.id]
      BY <1>2 DEF RefSlots
    <2>3. QED
      BY <2>1, <2>2 DEF SlotTyped
  <1>5. QED
    BY <1>1, <1>3, <1>4 DEF ObjectOK

-----------------------------------------------------------------------------
\* The registers, one by one.
LEMMA RegisterFacts ==
  ASSUME acc \in Register, stack \in Seq(Frame)
  PROVE  /\ acc \in Registers
         /\ \A i \in DOMAIN stack, r \in Reg : stack[i][r] \in Registers
         /\ \A x \in Registers : x \in Register
         /\ \A x \in Registers : x.ref => x.val \in Refs
  <1>1. \A i \in DOMAIN stack : stack[i] \in Frame
    BY ElementOfSeq, LenProperties
  <1>2. \A i \in DOMAIN stack, r \in Reg : stack[i][r] \in Register
    BY <1>1 DEF Frame
  <1>3. QED
    BY <1>2 DEF Registers, Refs

\* Frame::setReg changes one register of the top frame.
LEMMA SetRegFacts ==
  ASSUME TypeOK, NEW r \in Reg, NEW x \in Register, SetReg(r, x), acc' \in Register
  PROVE  /\ stack' \in Seq(Frame) /\ Len(stack') = Len(stack)
         /\ Registers' \subseteq Registers \cup {x, acc'}
  <1> DEFINE n == Len(stack)
             f == [stack[n] EXCEPT ![r] = x]
  <1>1. stack \in Seq(Frame) /\ n \in 1 .. n /\ n \in Nat /\ DOMAIN stack = 1 .. n
    BY LenProperties DEF TypeOK, GCTypeOK
  <1>2. stack[n] \in Frame
    BY <1>1, ElementOfSeq
  <1>3. f \in Frame /\ \A q \in Reg : f[q] = IF q = r THEN x ELSE stack[n][q]
    BY <1>2 DEF Frame
  <1>4. stack' = [stack EXCEPT ![n] = f]
    BY <1>1 DEF SetReg
  <1> HIDE DEF f
  <1>5. /\ stack' \in Seq(Frame) /\ Len(stack') = n
        /\ \A i \in 1 .. n : stack'[i] = IF i = n THEN f ELSE stack[i]
    BY <1>1, <1>3, <1>4, ExceptSeq
  <1>6. DOMAIN stack' = 1 .. n
    BY <1>5, LenProperties
  <1>7. \A i \in 1 .. n, q \in Reg : stack'[i][q] = x \/ stack'[i][q] = stack[i][q]
    BY <1>5, <1>3
  <1>8. ASSUME NEW y \in Registers' PROVE y \in Registers \cup {x, acc'}
    <2>1. CASE y = acc'
      BY <2>1
    <2>2. CASE y # acc'
      <3>1. PICK i \in 1 .. n, q \in Reg : y = stack'[i][q]
        BY <2>2, <1>6 DEF Registers
      <3>2. stack[i][q] \in Registers
        BY <1>1 DEF Registers
      <3>3. QED
        BY <3>1, <3>2, <1>7
    <2>3. QED
      BY <2>1, <2>2
  <1>9. QED
    BY <1>5, <1>8

-----------------------------------------------------------------------------
\* The references in a set of registers.
Marked(X) == { x.val : x \in { y \in X : y.ref } }

\* Registers that are fine relative to C, and objects of C that are, make
\* what is reachable a part of C, and stay fine relative to it.
LEMMA Settled ==
  ASSUME NEW X, NEW h, NEW arrs, NEW C \in SUBSET Block,
         \A x \in X : RegisterOK(x, C),
         \A b \in C : ObjectOK(h, arrs, C, b),
         NEW S, S = Marked(X), NEW R, R = Reach(Edges(h, arrs), S)
  PROVE  /\ R \subseteq C
         /\ S \subseteq R \cup {Null}
         /\ \A x \in X : RegisterOK(x, R)
         /\ \A b \in R : ObjectOK(h, arrs, R, b)
  <1>1. S \subseteq C \cup {Null}
    BY DEF RegisterOK, Marked
  <1>2. S \cap Block \subseteq C
    BY <1>1, HeapAssumption
  <1>3. /\ R \subseteq C
        /\ S \cap Block \subseteq R
        /\ \A b \in R : ObjectOK(h, arrs, R, b)
    BY <1>2, Cover
  <1>4. S \subseteq R \cup {Null}
    BY <1>1, <1>3
  <1>5. ASSUME NEW x \in X PROVE RegisterOK(x, R)
    BY <1>4 DEF RegisterOK, Marked
  <1>6. QED
    BY <1>3, <1>4, <1>5

\* VMInv in these terms.
LEMMA VMFacts ==
  ASSUME VMInv
  PROVE  /\ TypeOK /\ Sound /\ Reachable \subseteq Block
         /\ \A x \in Registers : RegisterOK(x, Reachable)
         /\ \A b \in Reachable : ObjectOK(heap, arrays, Reachable, b)
         /\ phase \in {"idle", "done"} =>
              /\ roots = {} /\ todo = {} /\ path = <<>>
              /\ \A b \in Block : ~mark[b]
  <1>1. /\ TypeOK /\ Sound /\ NoHiddenRefs /\ AtRest
        /\ HeapTyped(heap, arrays, Reachable)
        /\ Refs \subseteq Reachable \cup {Null}
    BY DEF VMInv, IInv, HeapFacts
  <1>2. Reachable \subseteq Block
    BY ReachableFacts
  <1>3. ASSUME NEW x \in Registers PROVE RegisterOK(x, Reachable)
    <2>1. x \in Register /\ (x.ref => x.val \in Refs)
      BY <1>1, RegisterFacts DEF TypeOK, GCTypeOK
    <2>2. QED
      BY <1>1, <2>1 DEF NoHiddenRefs, RegisterOK
  <1>4. ASSUME NEW b \in Reachable PROVE ObjectOK(heap, arrays, Reachable, b)
    BY <1>1 DEF HeapTyped, NoHiddenRefs, ObjectOK
  <1>5. ASSUME phase \in {"idle", "done"}
        PROVE  /\ roots = {} /\ todo = {} /\ path = <<>>
               /\ \A b \in Block : ~mark[b]
    <2>1. roots = {} /\ todo = {}
      BY <1>1, <1>5 DEF AtRest, TypeOK, GCTypeOK
    <2>2. CASE phase = "idle"
      BY <2>1, <2>2, <1>1 DEF AtRest
    <2>3. CASE phase = "done"
      BY <2>1, <2>3 DEF VMInv, IInv, PathFacts, PhaseFacts, Marking
    <2>4. QED
      BY <1>5, <2>2, <2>3
  <1>6. QED
    BY <1>1, <1>2, <1>3, <1>4, <1>5

\* The address in a register is that of a reachable object.
LEMMA HeldReachable ==
  ASSUME VMInv, NEW x \in Registers, x.val \in Block
  PROVE  x.val \in Reachable /\ x.ref
  BY VMFacts, HeapAssumption DEF RegisterOK

\* The registers of the current frame.
LEMMA FrameTypes ==
  ASSUME TypeOK, NEW r \in Reg
  PROVE  /\ currFrame[r] \in Registers /\ currFrame[r] \in Register
         /\ acc \in Registers /\ acc \in Register
  <1>1. acc \in Register /\ stack \in Seq(Frame) /\ Len(stack) \in 1 .. MaxDepth
    BY DEF TypeOK, GCTypeOK
  <1>2. Len(stack) \in DOMAIN stack
    BY <1>1, LenProperties, VMAssumption
  <1>3. QED
    BY <1>1, <1>2, RegisterFacts DEF currFrame

LEMMA FrameFacts ==
  ASSUME VMInv, NEW r \in Reg
  PROVE  /\ currFrame[r] \in Registers /\ currFrame[r] \in Register
         /\ acc \in Registers /\ acc \in Register
  BY FrameTypes DEF VMInv

\* A step of the program, or of the allocator, as the managed heap sees it:
\* reachability does not grow but by an object that has just been allocated,
\* and none disappears that is reachable.
HeapStep ==
  \/ Live' = Live /\ Reachable' \subseteq Reachable
  \/ \E b \in Block : /\ b \notin Live /\ Live' = Live \cup {b}
                      /\ Reachable' \subseteq Reachable \cup {b}
  \/ \E b \in Live \ Reachable : /\ Live' = Live \ {b}
                                 /\ UNCHANGED <<acc, stack, heap, arrays>>

\* The program is between two instructions again, and all that is in
\* registers and objects stays within a set of live objects.
LEMMA BetweenInstructions ==
  ASSUME VMInv, phase \in {"idle", "done"}, phase' = "idle", UNCHANGED colVars,
         TypeOK', NEW C \in SUBSET Block, C \subseteq Live',
         \A x \in Registers' : RegisterOK(x, C),
         \A b \in C : ObjectOK(heap', arrays', C, b)
  PROVE  VMInv' /\ Reachable' \subseteq C
  <1>1. /\ Reachable' \subseteq C
        /\ Refs' \subseteq Reachable' \cup {Null}
        /\ \A x \in Registers' : RegisterOK(x, Reachable')
        /\ \A b \in Reachable' : ObjectOK(heap', arrays', Reachable', b)
    <2>1. Refs' = Marked(Registers')
      BY DEF Refs, Marked
    <2>2. Reachable' = Reach(Edges(heap', arrays'), Refs')
      BY DEF Reachable
    <2>3. QED
      BY <2>1, <2>2, Settled
  <1>2. NoHiddenRefs'
    BY <1>1 DEF NoHiddenRefs, RegisterOK, ObjectOK
  <1>3. AtRest'
    BY VMFacts DEF AtRest, colVars
  <1>4. HeapTyped(heap, arrays, Reachable)'
    BY <1>1 DEF HeapTyped, ObjectOK
  <1>5. QED
    BY <1>1, <1>2, <1>3, <1>4 DEF VMInv, Sound

-----------------------------------------------------------------------------
\* An instruction that only moves words between registers.
LEMMA RegisterStep ==
  ASSUME VMInv, Running, NoAllocation, UNCHANGED heap,
         status' \in {"run", "halted", "crash"},
         acc' \in Register, stack' \in Seq(Frame), Len(stack') \in 1 .. MaxDepth,
         \A x \in Registers' : RegisterOK(x, Reachable)
  PROVE  VMInv' /\ HeapStep
  <1>1. /\ phase = "idle" /\ phase' = "idle"
        /\ UNCHANGED <<heap, allocations, allocated, arrays, colVars>>
    BY DEF Running, NoAllocation
  <1>2. TypeOK'
    BY <1>1, VMFacts DEF TypeOK, GCTypeOK, colVars, Live
  <1>3. Live' = Live
    BY <1>1 DEF Live
  <1>4. VMInv' /\ Reachable' \subseteq Reachable
    BY <1>1, <1>2, <1>3, VMFacts, BetweenInstructions DEF Sound
  <1>5. QED
    BY <1>3, <1>4 DEF HeapStep

LEMMA SetRegStep ==
  ASSUME VMInv, Running, OnlyRegisters, UNCHANGED acc,
         NEW r \in Reg, NEW x, RegisterOK(x, Reachable), SetReg(r, x)
  PROVE  VMInv' /\ HeapStep
  <1>1. x \in Register /\ acc \in Registers /\ acc' \in Register
    BY FrameFacts DEF RegisterOK
  <1>2. /\ stack' \in Seq(Frame) /\ Len(stack') = Len(stack)
        /\ Registers' \subseteq Registers \cup {x, acc}
    BY <1>1, VMFacts, SetRegFacts
  <1>3. \A y \in Registers' : RegisterOK(y, Reachable)
    BY <1>1, <1>2, VMFacts
  <1>4. Len(stack') \in 1 .. MaxDepth /\ status' \in {"run", "halted", "crash"}
    BY <1>2, VMFacts DEF TypeOK, OnlyRegisters
  <1>5. QED
    BY <1>1, <1>2, <1>3, <1>4, RegisterStep DEF OnlyRegisters

LEMMA SetAccStep ==
  ASSUME VMInv, Running, OnlyRegisters, UNCHANGED stack,
         RegisterOK(acc', Reachable)
  PROVE  VMInv' /\ HeapStep
  <1>1. acc' \in Register /\ Registers' \subseteq Registers \cup {acc'}
    BY DEF RegisterOK, Registers
  <1>2. \A y \in Registers' : RegisterOK(y, Reachable)
    BY <1>1, VMFacts
  <1>3. /\ stack' \in Seq(Frame) /\ Len(stack') \in 1 .. MaxDepth
        /\ status' \in {"run", "halted", "crash"}
    BY VMFacts DEF TypeOK, GCTypeOK, OnlyRegisters
  <1>4. QED
    BY <1>1, <1>2, <1>3, RegisterStep DEF OnlyRegisters

\* A number is no address.
LEMMA PlainOK ==
  ASSUME NEW w \in {Null, Num}, NEW C
  PROVE  RegisterOK(Plain(w), C)
  BY HeapAssumption DEF RegisterOK, Plain, Register, Word

LEMMA MoveStep ==
  ASSUME VMInv, Move
  PROVE  VMInv' /\ HeapStep
  <1>1. ASSUME NEW rd \in Reg, NEW rs \in Reg, Mov(rd, rs) PROVE VMInv' /\ HeapStep
    BY <1>1, VMFacts, FrameFacts, SetRegStep DEF Mov
  <1>2. ASSUME NEW r \in Reg, Lda(r) PROVE VMInv' /\ HeapStep
    BY <1>2, VMFacts, FrameFacts, SetAccStep DEF Lda
  <1>3. ASSUME NEW r \in Reg, Sta(r) PROVE VMInv' /\ HeapStep
    BY <1>3, VMFacts, FrameFacts, SetRegStep DEF Sta
  <1>4. ASSUME NEW r \in Reg, NEW w \in Imm, MovImm(r, w) PROVE VMInv' /\ HeapStep
    BY <1>4, VMAssumption, PlainOK, SetRegStep DEF MovImm
  <1>5. ASSUME NEW w \in Imm, Compute(w) PROVE VMInv' /\ HeapStep
    BY <1>5, VMAssumption, PlainOK, SetAccStep DEF Compute
  <1>6. QED
    BY <1>1, <1>2, <1>3, <1>4, <1>5 DEF Move

-----------------------------------------------------------------------------
\* What a handler loads from a payload word of a reachable object, marked if
\* and only if the word is a reference slot.
LEMMA LoadOK ==
  ASSUME VMInv, NEW b \in Reachable, NEW s \in Payload(heap[b]),
         NEW m \in BOOLEAN, m <=> s \in RefSlots(heap[b], arrays)
  PROVE  RegisterOK([val |-> heap[b].data[s], ref |-> m], Reachable)
  <1> DEFINE w == heap[b].data[s]
  <1>1. b \in Block /\ ObjectOK(heap, arrays, Reachable, b)
    BY VMFacts
  <1>2. heap[b] \in Object /\ s \in Slot
    BY <1>1, VMFacts DEF TypeOK, GCTypeOK, Payload
  <1>3. w \in Word
    BY <1>2 DEF Object
  <1>4. w \in Block => m
    BY <1>1 DEF ObjectOK
  <1>5. m => w \in Reachable \cup {Null}
    BY <1>1 DEF ObjectOK, SlotTyped
  <1>6. QED
    BY <1>3, <1>4, <1>5 DEF RegisterOK, Register

\* Field f of an object of class c.
LEMMA FieldSlots ==
  ASSUME NEW o, NEW arrs, NEW c \in Class, o.cw = DefaultClassWord(c),
         NEW f \in DOMAIN FieldClass[c]
  PROVE  /\ f \in Slot /\ f \in Payload(o)
         /\ IsObject(o) /\ ~IsArray(o) /\ ~IsString(o) /\ o.cw.id = c
         /\ f \in RefSlots(o, arrs) <=> FieldClass[c][f] # 0
  <1>1. o.cw.type = "DEFAULT" /\ o.cw.id = c
    BY DEF DefaultClassWord
  <1>2. f \in Slot
    <2>1. /\ FieldClass[c] \in Seq(Nat) /\ Len(FieldClass[c]) \in 0 .. NumSlots
          /\ NumSlots \in Nat
      BY HeapAssumption
    <2>2. DOMAIN FieldClass[c] = 1 .. Len(FieldClass[c])
      BY <2>1, LenProperties
    <2>3. QED
      BY <2>1, <2>2 DEF Slot
  <1>3. QED
    BY <1>1, <1>2 DEF IsObject, IsArray, IsString, RefSlots, Payload

\* Element i of an array.
LEMMA ElemSlots ==
  ASSUME NEW o \in Object, NEW arrs, ClassWordTyped(o, arrs), IsArray(o),
         NEW i \in 1 .. o.size
  PROVE  /\ ElemSlot(i) \in Slot /\ ElemSlot(i) \in Payload(o)
         /\ ~IsObject(o) /\ ~IsString(o)
         /\ o.cw.id \in DOMAIN arrs /\ o.size \in Nat /\ o.size + 1 <= NumSlots
         /\ ElemSlot(i) \in RefSlots(o, arrs) <=> arrs[o.cw.id] # 0
  <1>1. o.cw.type = "ARRAY"
    BY DEF IsArray
  <1>2. ~IsObject(o) /\ ~IsString(o) /\ o.cw # StringClassWord
    BY <1>1 DEF IsObject, IsString, StringClassWord
  <1>3. \A c \in Class : o.cw # DefaultClassWord(c)
    BY <1>1 DEF DefaultClassWord
  <1>4. o.cw.id \in DOMAIN arrs /\ o.size + 1 <= NumSlots
    BY <1>2, <1>3 DEF ClassWordTyped
  <1>5. o.size \in Nat /\ NumSlots \in Nat
    BY HeapAssumption DEF Object
  <1>6. ElemSlot(i) \in Slot /\ ElemSlot(i) <= o.size + 1
    BY <1>4, <1>5 DEF ElemSlot, Slot
  <1>7. QED
    BY <1>2, <1>4, <1>5, <1>6 DEF RefSlots, Payload

LEMMA LdfieldStep ==
  ASSUME VMInv, NEW rd \in Reg, NEW rs \in Reg, NEW c \in Class,
         NEW f \in DOMAIN FieldClass[c], Ldfield(rd, rs, c, f)
  PROVE  VMInv' /\ HeapStep
  <1> DEFINE b == currFrame[rs].val
  <1>1. b \in Reachable /\ heap[b].cw = DefaultClassWord(c)
    BY FrameFacts, HeldReachable DEF Ldfield, IsA
  <1>2. /\ f \in Payload(heap[b])
        /\ f \in RefSlots(heap[b], arrays) <=> FieldClass[c][f] # 0
    <2> DEFINE o == heap[b]
    <2>1. o.cw = DefaultClassWord(c)
      BY <1>1
    <2> HIDE DEF o
    <2>2. f \in Payload(o) /\ (f \in RefSlots(o, arrays) <=> FieldClass[c][f] # 0)
      BY <2>1, FieldSlots
    <2>3. QED
      BY <2>2 DEF o
  <1>3. RegisterOK([val |-> heap[b].data[f], ref |-> FieldClass[c][f] # 0], Reachable)
    BY <1>1, <1>2, LoadOK
  <1>4. QED
    BY <1>3, SetRegStep DEF Ldfield

LEMMA ArrLdaStep ==
  ASSUME VMInv, NEW rs \in Reg, NEW i \in Slot, NEW k \in 0 .. NumClasses,
         ArrLda(rs, i, k)
  PROVE  VMInv' /\ HeapStep
  <1> DEFINE b == currFrame[rs].val
  <1>1. /\ b \in Reachable /\ b \in Block /\ IsArray(heap[b])
        /\ arrays[heap[b].cw.id] = k /\ i \in 1 .. heap[b].size
    BY FrameFacts, HeldReachable DEF ArrLda, ArrayOf
  <1>2. heap[b] \in Object /\ ClassWordTyped(heap[b], arrays)
    BY <1>1, VMFacts DEF TypeOK, GCTypeOK, ObjectOK
  <1>3. /\ ElemSlot(i) \in Payload(heap[b])
        /\ ElemSlot(i) \in RefSlots(heap[b], arrays) <=> k # 0
    BY <1>1, <1>2, ElemSlots
  <1>4. RegisterOK([val |-> heap[b].data[ElemSlot(i)], ref |-> k # 0], Reachable)
    BY <1>1, <1>3, LoadOK
  <1>5. QED
    BY <1>4, SetAccStep DEF ArrLda

LEMMA ArrLengthStep ==
  ASSUME VMInv, NEW rs \in Reg, ArrLength(rs)
  PROVE  VMInv' /\ HeapStep
  BY PlainOK, SetAccStep DEF ArrLength

LEMMA NullAccessStep ==
  ASSUME VMInv, NullAccess
  PROVE  VMInv' /\ HeapStep
  <1>1. Registers' = Registers
    BY DEF NullAccess, Registers
  <1>2. QED
    BY <1>1, VMFacts, FrameFacts, RegisterStep DEF NullAccess, TypeOK, GCTypeOK

-----------------------------------------------------------------------------
\* A word is written to a payload word of a reachable object: an address
\* only into a reference slot, and only that of an object of its class.
LEMMA WriteStep ==
  ASSUME VMInv, Running, NoAllocation, UNCHANGED <<acc, stack, status>>,
         NEW b \in Reachable, NEW s \in Slot, NEW w \in Word,
         heap' = [heap EXCEPT ![b].data[s] = w],
         w \in Block => s \in RefSlots(heap[b], arrays),
         s \in RefSlots(heap[b], arrays) =>
           SlotTyped(heap, arrays, Reachable, [heap[b] EXCEPT !.data[s] = w], s)
  PROVE  VMInv' /\ HeapStep
  <1> DEFINE o == [heap[b] EXCEPT !.data[s] = w]
  <1>1. /\ phase = "idle" /\ phase' = "idle"
        /\ UNCHANGED <<allocations, allocated, arrays, colVars>>
    BY DEF Running, NoAllocation
  <1>2. b \in Block /\ heap[b] \in Object /\ heap \in [Block -> Object]
    BY VMFacts DEF TypeOK, GCTypeOK
  <1>3. /\ o \in Object /\ o.cw = heap[b].cw /\ o.size = heap[b].size
        /\ o.data[s] = w
        /\ \A q \in Slot : q # s => o.data[q] = heap[b].data[q]
    BY <1>2 DEF Object
  <1>4. heap' = [heap EXCEPT ![b] = o]
    BY <1>2
  <1> HIDE DEF o
  <1>5. /\ heap' \in [Block -> Object] /\ heap'[b] = o
        /\ \A x \in Block : x # b => heap'[x] = heap[x]
        /\ \A x \in Block : heap'[x].cw = heap[x].cw
    BY <1>2, <1>3, <1>4
  <1>6. Registers' = Registers
    BY DEF Registers
  <1>7. TypeOK'
    BY <1>1, <1>5, VMFacts DEF TypeOK, GCTypeOK, colVars, Live
  <1>8. ASSUME NEW x \in Reachable PROVE ObjectOK(heap', arrays', Reachable, x)
    <2>1. x \in Block /\ ObjectOK(heap, arrays, Reachable, x)
      BY VMFacts
    <2>2. CASE x # b
      <3>1. heap'[x] = heap[x] /\ arrays' = arrays
        BY <2>1, <2>2, <1>1, <1>5
      <3>2. \A y \in Reachable : heap'[y].cw = heap[y].cw
        BY <1>5, VMFacts
      <3>3. QED
        BY <2>1, <3>1, <3>2, Untouched
    <2>3. CASE x = b
      <3>1. RefSlots(o, arrays) = RefSlots(heap[b], arrays) /\ Payload(o) = Payload(heap[b])
        BY <1>3 DEF RefSlots, Payload, IsArray, IsObject, IsString
      <3>2. ClassWordTyped(o, arrays)
        BY <2>1, <2>3, <1>3 DEF ObjectOK, ClassWordTyped, IsArray
      <3>3. ASSUME NEW q \in RefSlots(o, arrays)
            PROVE  SlotTyped(heap', arrays, Reachable, o, q)
        <4>1. q \in Slot /\ q \in RefSlots(heap[b], arrays)
          BY <3>1 DEF RefSlots
        <4>2. SlotTyped(heap, arrays, Reachable, o, q)
          <5>1. CASE q = s
            BY <5>1, <4>1 DEF o
          <5>2. CASE q # s
            BY <5>2, <4>1, <2>1, <2>3, <1>3 DEF ObjectOK, SlotTyped, IsObject
          <5>3. QED
            BY <5>1, <5>2
        <4>3. \A y \in Reachable : heap'[y].cw = heap[y].cw
          BY <1>5, VMFacts
        <4>4. QED
          BY <4>2, <4>3 DEF SlotTyped
      <3>4. ASSUME NEW q \in Payload(o), o.data[q] \in Block
            PROVE  q \in RefSlots(o, arrays)
        <4>1. q \in Slot /\ q \in Payload(heap[b])
          BY <3>1 DEF Payload
        <4>2. CASE q = s
          BY <4>2, <3>1, <3>4, <1>3
        <4>3. CASE q # s
          BY <4>1, <4>3, <3>1, <3>4, <2>1, <2>3, <1>3 DEF ObjectOK
        <4>4. QED
          BY <4>2, <4>3
      <3>5. heap'[x] = o /\ arrays' = arrays
        BY <2>3, <1>1, <1>5
      <3>6. QED
        BY <3>2, <3>3, <3>4, <3>5 DEF ObjectOK
    <2>4. QED
      BY <2>2, <2>3
  <1>9. Live' = Live
    BY <1>1 DEF Live
  <1>10. VMInv' /\ Reachable' \subseteq Reachable
    BY <1>1, <1>6, <1>7, <1>8, <1>9, VMFacts, BetweenInstructions DEF Sound
  <1>11. QED
    BY <1>9, <1>10 DEF HeapStep

LEMMA StfieldStep ==
  ASSUME VMInv, NEW rd \in Reg, NEW rs \in Reg, NEW c \in Class,
         NEW f \in DOMAIN FieldClass[c], Stfield(rd, rs, c, f)
  PROVE  VMInv' /\ HeapStep
  <1> DEFINE b == currFrame[rd].val
             x == currFrame[rs]
             k == FieldClass[c][f]
             o == [heap[b] EXCEPT !.data[f] = x.val]
  <1>1. /\ b \in Reachable /\ b \in Block /\ heap[b].cw = DefaultClassWord(c)
        /\ heap[b] \in Object
    BY FrameFacts, HeldReachable, VMFacts DEF Stfield, IsA, TypeOK, GCTypeOK
  <1>2. /\ f \in Slot
        /\ f \in RefSlots(heap[b], arrays) <=> k # 0
    <2> DEFINE p == heap[b]
    <2>1. p.cw = DefaultClassWord(c)
      BY <1>1
    <2> HIDE DEF p
    <2>2. f \in Slot /\ (f \in RefSlots(p, arrays) <=> FieldClass[c][f] # 0)
      BY <2>1, FieldSlots
    <2>3. QED
      BY <2>2 DEF p
  <1>3. x \in Registers /\ x.val \in Word /\ (x.val \in Block => x.ref /\ x.val \in Reachable)
    BY FrameFacts, HeldReachable DEF Register
  <1>4. IF k = 0 THEN ~x.ref
                 ELSE x.val = Null \/ (x.val \in Block /\ heap[x.val].cw = DefaultClassWord(k))
    BY DEF Stfield, IsNumber, IsA
  <1>5. x.val \in Block => f \in RefSlots(heap[b], arrays)
    BY <1>2, <1>3, <1>4
  <1>6. f \in RefSlots(heap[b], arrays) => SlotTyped(heap, arrays, Reachable, o, f)
    <2>1. o.data[f] = x.val /\ o.cw = DefaultClassWord(c)
      BY <1>1, <1>2 DEF Object
    <2>2. IsObject(o) /\ o.cw.id = c
      BY <2>1 DEF IsObject, DefaultClassWord
    <2>3. QED
      BY <2>1, <2>2, <1>2, <1>3, <1>4 DEF SlotTyped
  <1>7. /\ Running /\ NoAllocation /\ UNCHANGED <<acc, stack, status>>
        /\ heap' = [heap EXCEPT ![b].data[f] = x.val]
    BY DEF Stfield
  <1> HIDE DEF b, x, k
  <1>8. QED
    BY <1>1, <1>2, <1>3, <1>5, <1>6, <1>7, WriteStep

LEMMA ArrStaStep ==
  ASSUME VMInv, NEW rd \in Reg, NEW i \in Slot, NEW k \in 0 .. NumClasses,
         ArrSta(rd, i, k)
  PROVE  VMInv' /\ HeapStep
  <1> DEFINE b == currFrame[rd].val
             s == ElemSlot(i)
             o == [heap[b] EXCEPT !.data[s] = acc.val]
  <1>1. /\ b \in Reachable /\ b \in Block /\ IsArray(heap[b])
        /\ arrays[heap[b].cw.id] = k /\ i \in 1 .. heap[b].size
    BY FrameFacts, HeldReachable DEF ArrSta, ArrayOf
  <1>2. heap[b] \in Object /\ ClassWordTyped(heap[b], arrays)
    BY <1>1, VMFacts DEF TypeOK, GCTypeOK, ObjectOK
  <1>3. /\ s \in Slot /\ ~IsObject(heap[b])
        /\ s \in RefSlots(heap[b], arrays) <=> k # 0
    BY <1>1, <1>2, ElemSlots
  <1>4. acc.val \in Word /\ (acc.val \in Block => acc.ref /\ acc.val \in Reachable)
    BY FrameFacts, HeldReachable DEF Register
  <1>5. IF k = 0 THEN ~acc.ref
                 ELSE acc.val \in Block /\ heap[acc.val].cw = DefaultClassWord(k)
    BY DEF ArrSta, IsNumber, IsA
  <1>6. acc.val \in Block => s \in RefSlots(heap[b], arrays)
    BY <1>3, <1>4, <1>5
  <1>7. s \in RefSlots(heap[b], arrays) => SlotTyped(heap, arrays, Reachable, o, s)
    <2>1. o.data[s] = acc.val /\ o.cw = heap[b].cw
      BY <1>2, <1>3 DEF Object
    <2>2. ~IsObject(o) /\ arrays[o.cw.id] = k
      BY <2>1, <1>1, <1>3 DEF IsObject
    <2>3. QED
      BY <2>1, <2>2, <1>3, <1>4, <1>5 DEF SlotTyped
  <1>8. /\ Running /\ NoAllocation /\ UNCHANGED <<acc, stack, status>>
        /\ heap' = [heap EXCEPT ![b].data[s] = acc.val]
    BY DEF ArrSta
  <1> HIDE DEF b, s
  <1>9. QED
    BY <1>1, <1>3, <1>4, <1>6, <1>7, <1>8, WriteStep

LEMMA AccessStep ==
  ASSUME VMInv, Access
  PROVE  VMInv' /\ HeapStep
  BY ArrLengthStep, LdfieldStep, StfieldStep, ArrLdaStep, ArrStaStep, NullAccessStep
  DEF Access

-----------------------------------------------------------------------------
\* The frame of a callee: arguments of the caller, and registers that are
\* not set.
LEMMA CallStack ==
  ASSUME TypeOK, NEW args \in Args, Call(args)
  PROVE  /\ stack' \in Seq(Frame) /\ Len(stack') \in 1 .. MaxDepth
         /\ Registers' \subseteq Registers \cup {Plain(Null)}
  <1> DEFINE arg(r) == args[CHOOSE i \in DOMAIN args : ArgReg[i] = r]
             fr == [r \in Reg |-> IF \E i \in DOMAIN args : ArgReg[i] = r
                                  THEN currFrame[arg(r)] ELSE NewFrame[r]]
  <1>1. Len(stack) < MaxDepth /\ stack' = Append(stack, fr) /\ UNCHANGED acc
    BY DEF Call
  <1>2. ASSUME NEW r \in Reg
        PROVE  fr[r] \in Register /\ fr[r] \in Registers \cup {Plain(Null)}
    <2>1. CASE \E i \in DOMAIN args : ArgReg[i] = r
      <3>1. PICK n \in 0 .. Len(ArgReg) : args \in [1 .. n -> Reg]
        BY DEF Args
      <3>2. arg(r) \in Reg
        BY <3>1, <2>1
      <3>3. fr[r] = currFrame[arg(r)]
        BY <2>1
      <3> HIDE DEF arg, fr
      <3>4. QED
        BY <3>2, <3>3, FrameTypes
    <2>2. CASE ~\E i \in DOMAIN args : ArgReg[i] = r
      <3>1. fr[r] = Plain(Null)
        BY <2>2 DEF NewFrame
      <3> HIDE DEF fr
      <3>2. QED
        BY <3>1 DEF Plain, Register, Word
    <2>3. QED
      BY <2>1, <2>2
  <1>3. fr \in Frame
    BY <1>2 DEF Frame
  <1> HIDE DEF fr
  <1>4. stack \in Seq(Frame) /\ Len(stack) \in 1 .. MaxDepth /\ acc \in Registers
    BY DEF TypeOK, GCTypeOK, Registers
  <1>5. /\ stack' \in Seq(Frame) /\ Len(stack') = Len(stack) + 1
        /\ \A i \in 1 .. Len(stack) : stack'[i] = stack[i]
        /\ stack'[Len(stack) + 1] = fr
    BY <1>1, <1>3, <1>4, AppendProperties
  <1>6. DOMAIN stack' = 1 .. Len(stack) + 1 /\ DOMAIN stack = 1 .. Len(stack)
    BY <1>4, <1>5, LenProperties
  <1>7. ASSUME NEW y \in Registers' PROVE y \in Registers \cup {Plain(Null)}
    <2>1. CASE y = acc'
      BY <2>1, <1>1, <1>4
    <2>2. CASE y # acc'
      <3>1. PICK i \in 1 .. Len(stack) + 1, q \in Reg : y = stack'[i][q]
        BY <2>2, <1>6 DEF Registers
      <3>2. CASE i = Len(stack) + 1
        BY <3>1, <3>2, <1>2, <1>5
      <3>3. CASE i # Len(stack) + 1
        <4>1. i \in 1 .. Len(stack)
          BY <3>3, <1>4
        <4>2. y = stack[i][q] /\ y \in Registers
          BY <4>1, <3>1, <1>5, <1>6 DEF Registers
        <4>3. QED
          BY <4>2
      <3>4. QED
        BY <3>2, <3>3
    <2>3. QED
      BY <2>1, <2>2
  <1>8. Len(stack') \in 1 .. MaxDepth
    BY <1>1, <1>4, <1>5, VMAssumption
  <1>9. QED
    BY <1>5, <1>7, <1>8

\* A frame less, or none: the registers left were there before.
LEMMA RetStack ==
  ASSUME TypeOK, Ret
  PROVE  /\ stack' \in Seq(Frame) /\ Len(stack') \in 1 .. MaxDepth
         /\ Registers' \subseteq Registers
  <1>1. stack \in Seq(Frame) /\ Len(stack) \in 1 .. MaxDepth /\ acc' = acc
    BY DEF TypeOK, GCTypeOK, Ret
  <1>2. DOMAIN stack = 1 .. Len(stack) /\ Len(stack) \in Nat /\ MaxDepth \in Nat
    BY <1>1, LenProperties, VMAssumption
  <1>3. CASE Len(stack) > 1
    <2> DEFINE m == Len(stack) - 1
    <2>1. stack' = SubSeq(stack, 1, m) /\ m \in Nat /\ 1 <= m
      BY <1>2, <1>3 DEF Ret
    <2>2. \A i \in 1 .. m : stack[i] \in Frame
      BY <1>1, <1>2, ElementOfSeq
    <2>3. /\ stack' \in Seq(Frame)
          /\ Len(stack') = m
          /\ \A i \in 1 .. m : stack'[i] = stack[i]
      <3>1. /\ stack' \in Seq(Frame)
            /\ Len(stack') = IF 1 <= m THEN m - 1 + 1 ELSE 0
            /\ \A i \in 1 .. m - 1 + 1 : stack'[i] = stack[1 + i - 1]
        BY <2>1, <2>2, SubSeqProperties
      <3> HIDE DEF m
      <3>2. m - 1 + 1 = m /\ \A i \in 1 .. m : 1 + i - 1 = i
        BY <2>1
      <3>3. QED
        BY <3>1, <3>2, <2>1
    <2>4. DOMAIN stack' = 1 .. m /\ 1 .. m \subseteq DOMAIN stack /\ m \in 1 .. MaxDepth
      BY <2>1, <2>3, <1>1, <1>2, LenProperties
    <2>5. Registers' \subseteq Registers
      <3> HIDE DEF m
      <3> QED BY <1>1, <2>3, <2>4 DEF Registers
    <2>6. QED
      BY <2>3, <2>4, <2>5
  <1>4. CASE ~(Len(stack) > 1)
    BY <1>1, <1>4 DEF Ret, Registers
  <1>5. QED
    BY <1>3, <1>4

LEMMA CallStep ==
  ASSUME VMInv, NEW args \in Args, Call(args)
  PROVE  VMInv' /\ HeapStep
  <1>1. /\ TypeOK /\ acc' \in Register /\ status' \in {"run", "halted", "crash"}
        /\ Running /\ NoAllocation /\ UNCHANGED heap
    BY DEF VMInv, TypeOK, GCTypeOK, Call, OnlyRegisters
  <1>2. /\ stack' \in Seq(Frame) /\ Len(stack') \in 1 .. MaxDepth
        /\ Registers' \subseteq Registers \cup {Plain(Null)}
    BY <1>1, CallStack
  <1>3. \A y \in Registers' : RegisterOK(y, Reachable)
    BY <1>2, PlainOK, VMFacts
  <1>4. QED
    BY <1>1, <1>2, <1>3, RegisterStep

LEMMA RetStep ==
  ASSUME VMInv, Ret
  PROVE  VMInv' /\ HeapStep
  <1>1. /\ TypeOK /\ acc' \in Register /\ status' \in {"run", "halted", "crash"}
        /\ Running /\ NoAllocation /\ UNCHANGED heap
    BY DEF VMInv, TypeOK, GCTypeOK, Ret
  <1>2. /\ stack' \in Seq(Frame) /\ Len(stack') \in 1 .. MaxDepth
        /\ Registers' \subseteq Registers
    BY <1>1, RetStack
  <1>3. \A y \in Registers' : RegisterOK(y, Reachable)
    BY <1>2, VMFacts
  <1>4. QED
    BY <1>1, <1>2, <1>3, RegisterStep

LEMMA ControlStep ==
  ASSUME VMInv, Control
  PROVE  VMInv' /\ HeapStep
  BY CallStep, RetStep DEF Control

-----------------------------------------------------------------------------
\* The collector finds what it relies on, if no descriptor pointer is stale.
LEMMA TriggerGCStep ==
  ASSUME VMInv, TriggerGC, DescriptorsMet'
  PROVE  VMInv' /\ HeapStep
  <1>1. /\ phase = "idle" /\ phase' = "collect"
        /\ UNCHANGED <<acc, stack, status, heap, allocations, allocated, arrays, colVars>>
        /\ UNCHANGED <<mark, roots, todo, path, unswept>>
    BY DEF TriggerGC, Running, colVars
  <1>2. /\ UNCHANGED Static /\ Live' = Live
    BY <1>1 DEF Static, Live
  <1>3. /\ Refs' = Refs /\ Reachable' = Reachable /\ Registers' = Registers
    BY <1>1, <1>2, StaticFacts DEF Registers
  <1>4. /\ TypeOK /\ Sound /\ NoHiddenRefs /\ path = <<>> /\ roots = {} /\ todo = {}
        /\ \A b \in Block : ~mark[b]
        /\ HeapTyped(heap, arrays, Reachable) /\ Refs \subseteq Reachable \cup {Null}
    BY <1>1, VMFacts DEF VMInv
  <1>5. HeapFacts'
    BY <1>1, <1>3, <1>4 DEF HeapFacts, DescriptorsMet
  <1>6. GCTypeOK'
    BY <1>1, <1>2, <1>3, <1>4 DEF TypeOK, GCTypeOK, Phases
  <1>7. Sound' /\ PathFacts' /\ SlotsPassed' /\ VisitedClosed' /\ RootsPassed' /\ PhaseFacts'
    BY <1>1, <1>2, <1>3, <1>4
    DEF Sound, PathFacts, SlotsPassed, VisitedClosed, RootsPassed, PhaseFacts, Marking
  <1>8. TypeOK' /\ AtRest'
    BY <1>1, <1>4, <1>6 DEF TypeOK, AtRest
  <1>9. NoHiddenRefs'
    BY <1>1, <1>3, <1>4 DEF NoHiddenRefs
  <1>10. VMInv'
    BY <1>1, <1>5, <1>6, <1>7, <1>8, <1>9 DEF VMInv, IInv
  <1>11. QED
    BY <1>2, <1>3, <1>10 DEF HeapStep

\* The collector touches neither registers nor objects, works only when
\* called, and what disappears is what it frees.
LEMMA CollectorFacts ==
  ASSUME GCNext
  PROVE  /\ UNCHANGED Static
         /\ phase # "idle"
         /\ Live' = Live \/ \E b \in Block : Free(b)
         /\ phase' = "done" => roots' = {} \/ (phase = "done" /\ UNCHANGED roots)
         /\ phase' \notin {"idle", "collect"}
  BY DEF GCNext, Static, MarkRoot, MarkSlot, CollectRoots, SkipRoot, MarkString,
         MarkArray, MissStaleArray, MarkClass, WildRoot, SkipSlot, Descend, WildSlot,
         Return, StartSweep, Keep, Free, StartUnmark, Finish, NextRoot, AtSlot,
         MustDescend, Marking, Live

LEMMA CollectStep ==
  ASSUME VMInv, Collect
  PROVE  VMInv' /\ HeapStep
  <1>1. GCNext /\ UNCHANGED status
    BY DEF Collect
  <1>2. UNCHANGED Static /\ phase # "idle" /\ UNCHANGED <<acc, stack, heap, arrays>>
    BY <1>1, CollectorFacts DEF Static
  <1>3. IInv /\ IInv'
    BY <1>1, <1>2, StepInv DEF VMInv
  <1>4. Reachable' = Reachable /\ Registers' = Registers
    BY <1>2, StaticFacts DEF Registers
  <1>5. phase' \notin {"idle", "crash"} /\ GCTypeOK'
    BY <1>3 DEF IInv, PhaseFacts
  <1>6. TypeOK'
    BY <1>1, <1>2, <1>5, VMFacts DEF TypeOK
  <1>7. NoHiddenRefs'
    BY <1>2, <1>4 DEF VMInv, NoHiddenRefs
  <1>8. AtRest'
    BY <1>1, <1>5, CollectorFacts DEF VMInv, AtRest
  <1>9. VMInv'
    BY <1>3, <1>5, <1>6, <1>7, <1>8 DEF VMInv
  <1>10. HeapStep
    <2>1. CASE Live' = Live
      BY <2>1, <1>4 DEF HeapStep
    <2>2. ASSUME NEW b \in Block, Free(b) PROVE HeapStep
      <3>1. b \in Live \ Reachable
        BY <2>2, <1>3 DEF Free, IInv, GCTypeOK, PhaseFacts
      <3>2. Live' = Live \ {b}
        BY <2>2 DEF Free, Live
      <3>3. QED
        BY <3>1, <3>2, <1>2 DEF HeapStep
    <2>3. QED
      BY <1>1, <2>1, <2>2, CollectorFacts
  <1>11. QED
    BY <1>9, <1>10

-----------------------------------------------------------------------------
\* arrays_ after an instruction: as before, or with a new descriptor.
Extended == /\ arrays' \in Seq(0 .. NumClasses)
            /\ \A i \in DOMAIN arrays : i \in DOMAIN arrays' /\ arrays'[i] = arrays[i]

LEMMA ExtendedFacts ==
  ASSUME TypeOK, UNCHANGED arrays \/ \E k \in 0 .. NumClasses : arrays' = Append(arrays, k)
  PROVE  Extended
  <1>1. arrays \in Seq(0 .. NumClasses)
    BY DEF TypeOK, GCTypeOK
  <1>2. CASE UNCHANGED arrays
    BY <1>1, <1>2 DEF Extended
  <1>3. ASSUME NEW k \in 0 .. NumClasses, arrays' = Append(arrays, k) PROVE Extended
    <2>1. /\ arrays' \in Seq(0 .. NumClasses) /\ Len(arrays') = Len(arrays) + 1
          /\ \A i \in 1 .. Len(arrays) : arrays'[i] = arrays[i]
      BY <1>1, <1>3, AppendProperties
    <2>2. /\ DOMAIN arrays = 1 .. Len(arrays) /\ DOMAIN arrays' = 1 .. Len(arrays')
          /\ Len(arrays) \in Nat
      BY <1>1, <2>1, LenProperties
    <2>3. QED
      BY <2>1, <2>2 DEF Extended
  <1>4. QED
    BY <1>2, <1>3

\* A new object whose references are null is put where there was none.
LEMMA PlaceStep ==
  ASSUME VMInv, Allocating, Extended,
         NEW b \in Block, NEW n \in Nat, NEW o \in Object, Place(b, n, o),
         ClassWordTyped(o, arrays'),
         \A s \in RefSlots(o, arrays') : o.data[s] = Null,
         \A s \in Payload(o) : o.data[s] \notin Block,
         acc' \in Register, stack' \in Seq(Frame), Len(stack') = Len(stack),
         Registers' \subseteq Registers \cup {Ref(b)}
  PROVE  VMInv' /\ HeapStep
  <1> DEFINE C == Reachable \cup {b}
  <1>1. /\ phase \in {"idle", "done"} /\ phase' = "idle" /\ UNCHANGED <<status, colVars>>
        /\ UNCHANGED <<mark, roots, todo, path, unswept>>
    BY DEF Allocating, Place, colVars
  <1>2. /\ TypeOK /\ Reachable \subseteq Live /\ roots = {} /\ todo = {}
        /\ \A x \in Registers : RegisterOK(x, Reachable)
        /\ \A x \in Reachable : ObjectOK(heap, arrays, Reachable, x)
    BY <1>1, VMFacts DEF Sound
  <1>3. b \notin Live /\ b \notin Reachable
    BY <1>2 DEF Place, Available
  <1>4. /\ heap \in [Block -> Object] /\ heap' = [heap EXCEPT ![b] = o]
        /\ heap' \in [Block -> Object] /\ heap'[b] = o
        /\ \A x \in Block : x # b => heap'[x] = heap[x]
    BY <1>2 DEF Place, TypeOK, GCTypeOK
  <1>5. /\ Live \subseteq Block /\ allocations \in [Live -> Nat]
        /\ allocations' = [x \in Live \cup {b} |-> IF x = b THEN n ELSE allocations[x]]
    BY <1>2 DEF Place, TypeOK, GCTypeOK
  <1>6. Live' = Live \cup {b} /\ allocations' \in [Live' -> Nat]
    BY <1>3, <1>5 DEF Live
  <1>7. TypeOK'
    <2>1. allocated' \in Int
      BY <1>2 DEF Place, TypeOK, GCTypeOK
    <2>2. mark' \in [Block -> BOOLEAN] /\ path' \in Seq(Activation) /\ unswept' \subseteq Live'
      BY <1>1, <1>2, <1>6 DEF TypeOK, GCTypeOK
    <2>3. phase' \in Phases /\ roots' \subseteq Refs' /\ todo' \subseteq roots'
      BY <1>1, <1>2 DEF Phases
    <2>4. Len(stack') \in 1 .. MaxDepth /\ status' \in {"run", "halted", "crash"}
      BY <1>1, <1>2 DEF TypeOK
    <2>5. Live' \subseteq Block
      BY <1>5, <1>6
    <2>6. QED
      BY <1>4, <1>6, <2>1, <2>2, <2>3, <2>4, <2>5 DEF TypeOK, GCTypeOK, Extended
  <1>8. \A x \in Registers' : RegisterOK(x, C)
    <2>1. RegisterOK(Ref(b), C)
      BY DEF RegisterOK, Ref, Register, Word
    <2>2. \A x \in Registers : RegisterOK(x, C)
      BY <1>2 DEF RegisterOK
    <2>3. QED
      BY <2>1, <2>2
  <1>9. ASSUME NEW x \in C PROVE ObjectOK(heap', arrays', C, x)
    <2>1. CASE x = b
      BY <2>1, <1>4 DEF ObjectOK, SlotTyped
    <2>2. CASE x \in Reachable
      <3>1. heap'[x] = heap[x] /\ ObjectOK(heap, arrays, Reachable, x)
        BY <2>2, <1>2, <1>3, <1>4, ReachableFacts
      <3>2. \A y \in Reachable : heap'[y].cw = heap[y].cw
        BY <1>3, <1>4, ReachableFacts
      <3>3. QED
        BY <2>2, <3>1, <3>2, Untouched DEF Extended
    <2>3. QED
      BY <2>1, <2>2
  <1>10. C \in SUBSET Block /\ C \subseteq Live'
    BY <1>2, <1>5, <1>6
  <1> HIDE DEF C
  <1>11. VMInv' /\ Reachable' \subseteq C
    BY <1>1, <1>7, <1>8, <1>9, <1>10, BetweenInstructions
  <1>12. QED
    BY <1>3, <1>6, <1>11 DEF C, HeapStep

\* No object is placed: the register gets null, or the program ends.
LEMMA NoMemoryStep ==
  ASSUME VMInv, Allocating, Extended, NEW n, Exhausted(n),
         status' \in {"run", "halted", "crash"},
         acc' \in Register, stack' \in Seq(Frame), Len(stack') = Len(stack),
         Registers' \subseteq Registers \cup {Ref(Null)}
  PROVE  VMInv' /\ HeapStep
  <1>1. /\ phase \in {"idle", "done"} /\ phase' = "idle"
        /\ UNCHANGED <<heap, allocations, allocated, colVars>>
        /\ UNCHANGED <<mark, roots, todo, path, unswept>>
    BY DEF Allocating, Exhausted, colVars
  <1>2. /\ TypeOK /\ Reachable \subseteq Live /\ roots = {} /\ todo = {}
        /\ \A x \in Registers : RegisterOK(x, Reachable)
        /\ \A x \in Reachable : ObjectOK(heap, arrays, Reachable, x)
    BY <1>1, VMFacts DEF Sound
  <1>3. Live' = Live
    BY <1>1 DEF Live
  <1>4. TypeOK'
    BY <1>1, <1>2, <1>3 DEF TypeOK, GCTypeOK, Phases, Extended
  <1>5. \A x \in Registers' : RegisterOK(x, Reachable)
    <2>1. RegisterOK(Ref(Null), Reachable)
      BY DEF RegisterOK, Ref, Register, Word
    <2>2. QED
      BY <2>1, <1>2
  <1>6. ASSUME NEW x \in Reachable PROVE ObjectOK(heap', arrays', Reachable, x)
    <2>1. ObjectOK(heap, arrays, Reachable, x) /\ heap' = heap
      BY <1>1, <1>2
    <2>2. QED
      BY <2>1, Untouched DEF Extended
  <1>7. VMInv' /\ Reachable' \subseteq Reachable
    BY <1>1, <1>2, <1>3, <1>4, <1>5, <1>6, ReachableFacts, BetweenInstructions
  <1>8. QED
    BY <1>3, <1>7 DEF HeapStep

\* The register an allocating instruction writes.
LEMMA AccGets ==
  ASSUME VMInv, NEW w \in Word, acc' = Ref(w), UNCHANGED stack
  PROVE  /\ acc' \in Register /\ stack' \in Seq(Frame) /\ Len(stack') = Len(stack)
         /\ Registers' \subseteq Registers \cup {Ref(w)}
  BY VMFacts DEF Registers, Ref, Register, TypeOK, GCTypeOK

LEMMA RegGets ==
  ASSUME VMInv, NEW w \in Word, NEW r \in Reg, SetReg(r, Ref(w)), UNCHANGED acc
  PROVE  /\ acc' \in Register /\ stack' \in Seq(Frame) /\ Len(stack') = Len(stack)
         /\ Registers' \subseteq Registers \cup {Ref(w)}
  <1>1. Ref(w) \in Register /\ acc' \in Register /\ acc' \in Registers
    BY FrameFacts DEF Ref, Register
  <1>2. QED
    BY <1>1, VMFacts, SetRegFacts

LEMMA NothingGets ==
  ASSUME VMInv, UNCHANGED <<acc, stack>>
  PROVE  /\ acc' \in Register /\ stack' \in Seq(Frame) /\ Len(stack') = Len(stack)
         /\ Registers' \subseteq Registers
  BY VMFacts DEF Registers, TypeOK, GCTypeOK

LEMMA NewStringStep ==
  ASSUME VMInv, NewString
  PROVE  VMInv' /\ HeapStep
  <1> DEFINE n == 24 + StrLen
  <1>1. n \in Nat /\ Null \in Word
    BY HeapAssumption DEF Word
  <1>2. Allocating /\ UNCHANGED <<stack, arrays>> /\ Extended
    BY VMFacts, ExtendedFacts DEF NewString
  <1>3. ASSUME NEW b \in Block, Place(b, n, StringAt(b)), acc' = Ref(b)
        PROVE  VMInv' /\ HeapStep
    <2> DEFINE o == StringAt(b)
    <2>1. heap[b] \in Object
      BY VMFacts DEF TypeOK, GCTypeOK
    <2>2. /\ o.cw = StringClassWord /\ o.size = 0
          /\ o.data = [s \in Slot |-> IF 8 * (s - 2) < StrLen THEN Num ELSE heap[b].data[s]]
      BY DEF StringAt
    <2>3. o \in Object
      BY <2>1 DEF StringAt, Object, Word, ClassWord, StringClassWord
    <2>4. IsString(o) /\ ~IsArray(o) /\ ~IsObject(o)
      BY <2>2 DEF StringClassWord, IsString, IsArray, IsObject
    <2> HIDE DEF o
    <2>5. ClassWordTyped(o, arrays') /\ RefSlots(o, arrays') = {}
      BY <2>2, <2>4 DEF ClassWordTyped, RefSlots
    <2>6. \A s \in Payload(o) : o.data[s] \notin Block
      BY <2>2, <2>4, HeapAssumption DEF Payload
    <2>7. b \in Word
      BY DEF Word
    <2>8. Place(b, n, o)
      BY <1>3 DEF o
    <2> HIDE DEF n
    <2>9. QED
      BY <1>1, <1>2, <1>3, <2>3, <2>5, <2>6, <2>7, <2>8, AccGets, PlaceStep
  <1>4. ASSUME Exhausted(n), acc' = Ref(Null), UNCHANGED status
        PROVE  VMInv' /\ HeapStep
    <2>1. status' \in {"run", "halted", "crash"}
      BY <1>4, VMFacts DEF TypeOK
    <2> HIDE DEF n
    <2>2. QED
      BY <2>1, <1>1, <1>2, <1>4, AccGets, NoMemoryStep
  <1>5. ASSUME Exhausted(n), status' = "crash", UNCHANGED acc
        PROVE  VMInv' /\ HeapStep
    <2> HIDE DEF n
    <2> QED BY <1>2, <1>5, NothingGets, NoMemoryStep
  <1>6. QED
    BY <1>3, <1>4, <1>5 DEF NewString

LEMMA ObjNewStep ==
  ASSUME VMInv, NEW rd \in Reg, NEW c \in Class, ObjNew(rd, c)
  PROVE  VMInv' /\ HeapStep
  <1> DEFINE n == 16 + 8 * Len(FieldClass[c])
  <1>1. n \in Nat /\ c \in Nat
    BY HeapAssumption DEF Class
  <1>2. Allocating /\ UNCHANGED <<acc, arrays>> /\ Extended
    BY VMFacts, ExtendedFacts DEF ObjNew
  <1>3. ASSUME NEW b \in Block, Place(b, n, ObjectAt(b, c)), SetReg(rd, Ref(b))
        PROVE  VMInv' /\ HeapStep
    <2> DEFINE o == ObjectAt(b, c)
    <2>1. heap[b] \in Object
      BY VMFacts DEF TypeOK, GCTypeOK
    <2>2. /\ o.cw = DefaultClassWord(c) /\ o.size = 0
          /\ o.data = [s \in Slot |-> IF s \in DOMAIN FieldClass[c] THEN Null ELSE heap[b].data[s]]
      BY DEF ObjectAt
    <2>3. o \in Object
      BY <2>1, <1>1 DEF ObjectAt, Object, Word, ClassWord, DefaultClassWord
    <2>4. IsObject(o) /\ ~IsArray(o) /\ ~IsString(o) /\ o.cw.id = c
      BY <2>2 DEF DefaultClassWord, IsString, IsArray, IsObject
    <2> HIDE DEF o
    <2>5. ClassWordTyped(o, arrays')
      BY <2>2 DEF ClassWordTyped
    <2>6. \A s \in RefSlots(o, arrays') : o.data[s] = Null
      BY <2>2, <2>4 DEF RefSlots
    <2>7. \A s \in Payload(o) : o.data[s] \notin Block
      BY <2>2, <2>4, HeapAssumption DEF Payload
    <2>8. b \in Word /\ Place(b, n, o)
      BY <1>3 DEF Word, o
    <2> HIDE DEF n
    <2>9. QED
      BY <1>1, <1>2, <1>3, <2>3, <2>5, <2>6, <2>7, <2>8, RegGets, PlaceStep
  <1>4. ASSUME Exhausted(n), status' = "crash", UNCHANGED stack
        PROVE  VMInv' /\ HeapStep
    <2> HIDE DEF n
    <2> QED BY <1>2, <1>4, NothingGets, NoMemoryStep
  <1>5. QED
    BY <1>3, <1>4 DEF ObjNew

\* The number of a vector's buffer is a number.
LEMMA BufferType ==
  ASSUME NEW n \in Nat
  PROVE  Buffer(n) \in Nat
  <1> DEFINE S == { e \in 0 .. n : 2 ^ e < n }
  <1>1. IsFiniteSet(0 .. n)
    BY FS_Interval
  <1>2. S \in SUBSET (0 .. n)
    OBVIOUS
  <1>3. IsFiniteSet(S)
    <2> HIDE DEF S
    <2> QED BY <1>1, <1>2, FS_Subset
  <1>4. Cardinality(S) \in Nat
    <2> HIDE DEF S
    <2> QED BY <1>3, FS_CardinalityType
  <1>5. QED
    BY <1>4 DEF Buffer

LEMMA ArrNewStep ==
  ASSUME VMInv, ElementsZero, NEW rd \in Reg, NEW k \in 0 .. NumClasses,
         NEW size \in ArrSizes, ArrNew(rd, k, size)
  PROVE  VMInv' /\ HeapStep
  <1> DEFINE n == 20 + 8 * size
  <1>1. n \in Nat /\ size \in Nat /\ size + 1 <= NumSlots /\ Null \in Word
    BY HeapAssumption, VMAssumption DEF Word
  <1>2. /\ Allocating /\ arrays' = Append(arrays, k) /\ UNCHANGED acc
    BY DEF ArrNew
  <1>3. Extended
    BY <1>2, VMFacts, ExtendedFacts
  <1>4. Len(arrays') \in DOMAIN arrays' /\ Len(arrays') \in Nat
    <2>1. arrays \in Seq(0 .. NumClasses)
      BY VMFacts DEF TypeOK, GCTypeOK
    <2>2. Len(arrays') = Len(arrays) + 1 /\ Len(arrays) \in Nat /\ arrays' \in Seq(0 .. NumClasses)
      BY <2>1, <1>2, AppendProperties, LenProperties
    <2>3. DOMAIN arrays' = 1 .. Len(arrays')
      BY <2>2, LenProperties
    <2>4. QED
      BY <2>2, <2>3
  <1>5. ASSUME NEW b \in Block, Place(b, n, ArrayAt(b, size, arrays')), SetReg(rd, Ref(b))
        PROVE  VMInv' /\ HeapStep
    <2> DEFINE o == ArrayAt(b, size, arrays')
    <2>1. heap[b] \in Object /\ heap \in [Block -> Object] /\ Live \subseteq Block
      BY VMFacts DEF TypeOK, GCTypeOK
    <2>2. /\ o.cw = [type |-> "ARRAY", id |-> Len(arrays'), buf |-> Buffer(Len(arrays'))]
          /\ o.size = size /\ o.data = [heap[b].data EXCEPT ![1] = Num]
      BY DEF ArrayAt
    <2>3. o.cw \in ClassWord
      BY <2>2, <1>4, BufferType DEF ClassWord
    <2>4. o.data \in [Slot -> Word]
      BY <2>1, <2>2 DEF Object, Word
    <2>5. o \in Object
      BY <2>3, <2>4, <1>1 DEF ArrayAt, Object
    <2>6. IsArray(o) /\ ~IsString(o) /\ ~IsObject(o) /\ o.cw.id = Len(arrays')
      BY <2>2 DEF IsString, IsArray, IsObject
    <2>7. b \in Word /\ Place(b, n, o)
      BY <1>5 DEF Word, o
    <2> HIDE DEF o
    <2>8. \A i \in 1 .. size : o.data[ElemSlot(i)] = Null
      <3>1. heap' = [heap EXCEPT ![b] = o] /\ b \in Available(n)
        BY <2>7 DEF Place
      <3>2. heap'[b] = o
        BY <3>1, <2>1
      <3>3. DOMAIN allocations' = Live \cup {b}
        BY <2>7 DEF Place
      <3>4. b \in Live' \ Live
        BY <3>1, <3>3 DEF Live, Available
      <3>5. QED
        BY <3>2, <3>4, <2>2, <2>6 DEF ElementsZero
    <2>9. ClassWordTyped(o, arrays')
      BY <2>2, <2>6, <1>1, <1>4 DEF ClassWordTyped
    <2>10. \A s \in RefSlots(o, arrays') : o.data[s] = Null
      BY <2>2, <2>6, <2>8 DEF RefSlots
    <2>11. ASSUME NEW s \in Payload(o) PROVE o.data[s] \notin Block
      <3>1. s \in Slot /\ s <= size + 1
        BY <2>2, <2>6 DEF Payload
      <3>2. CASE s = 1
        BY <3>1, <3>2, <2>1, <2>2, HeapAssumption DEF Object
      <3>3. CASE s # 1
        <4>1. s - 1 \in 1 .. size /\ s = ElemSlot(s - 1)
          BY <3>1, <3>3, <1>1 DEF Slot, ElemSlot
        <4>2. o.data[s] = Null
          BY <4>1, <2>8
        <4>3. QED
          BY <4>2, HeapAssumption
      <3>4. QED
        BY <3>2, <3>3
    <2> HIDE DEF n
    <2>12. QED
      BY <1>1, <1>2, <1>3, <1>5, <2>5, <2>7, <2>9, <2>10, <2>11, RegGets, PlaceStep
  <1>6. ASSUME Exhausted(n), SetReg(rd, Ref(Null)), UNCHANGED status
        PROVE  VMInv' /\ HeapStep
    <2>1. status' \in {"run", "halted", "crash"}
      BY <1>6, VMFacts DEF TypeOK
    <2> HIDE DEF n
    <2>2. QED
      BY <2>1, <1>1, <1>2, <1>3, <1>6, RegGets, NoMemoryStep
  <1>7. ASSUME Exhausted(n), status' = "crash", UNCHANGED stack
        PROVE  VMInv' /\ HeapStep
    <2> HIDE DEF n
    <2> QED BY <1>2, <1>3, <1>7, NothingGets, NoMemoryStep
  <1>8. QED
    BY <1>5, <1>6, <1>7 DEF ArrNew

LEMMA NewStep ==
  ASSUME VMInv, ElementsZero, New
  PROVE  VMInv' /\ HeapStep
  BY NewStringStep, ObjNewStep, ArrNewStep DEF New, LdaStr, Substr, Concat

-----------------------------------------------------------------------------
(***************************************************************************)
(* Types, and the collector's coming to an end, in every behaviour.        *)
(***************************************************************************)
\* An instruction between two runs of the collector keeps TypesInv, if what
\* it writes is of the right type.
LEMMA TypesSettled ==
  ASSUME TypesInv, phase \in {"idle", "done"}, phase' = "idle", UNCHANGED colVars,
         acc' \in Register, stack' \in Seq(Frame), Len(stack') \in 1 .. MaxDepth,
         status' \in {"run", "halted", "crash"}, arrays' \in Seq(0 .. NumClasses),
         heap' \in [Block -> Object],
         \A b \in Block : IsArray(heap'[b]) => heap'[b].size < NumSlots,
         Live \subseteq Live', Live' \subseteq Block, allocations' \in [Live' -> Nat],
         allocated' \in Int
  PROVE  TypesInv'
  <1>1. roots = {} /\ todo = {} /\ path = <<>> /\ UNCHANGED <<mark, roots, todo, path, unswept>>
    BY DEF TypesInv, TypeOK, GCTypeOK, WalkOrder, colVars
  <1>2. mark \in [Block -> BOOLEAN] /\ unswept \subseteq Live
    BY DEF TypesInv, TypeOK, GCTypeOK
  <1>3. path' \in Seq(Activation)
    BY <1>1
  <1>4. TypeOK'
    BY <1>1, <1>2, <1>3 DEF TypeOK, GCTypeOK, Phases
  <1>5. WalkOrder'
    BY <1>1 DEF WalkOrder, Marking
  <1>6. QED
    BY <1>1, <1>4, <1>5 DEF TypesInv

\* Only registers change ...
LEMMA RegisterTypes ==
  ASSUME TypesInv, Running, NoAllocation, UNCHANGED heap,
         acc' \in Register, stack' \in Seq(Frame), Len(stack') \in 1 .. MaxDepth,
         status' \in {"run", "halted", "crash"}
  PROVE  TypesInv'
  BY TypesSettled DEF TypesInv, TypeOK, GCTypeOK, Running, NoAllocation, Live

LEMMA SetRegTypes ==
  ASSUME TypesInv, Running, OnlyRegisters, UNCHANGED acc,
         NEW r \in Reg, NEW x \in Register, SetReg(r, x)
  PROVE  TypesInv'
  <1>1. TypeOK /\ acc' \in Register /\ NoAllocation /\ UNCHANGED <<status, heap>>
    BY DEF TypesInv, TypeOK, GCTypeOK, OnlyRegisters
  <1>2. stack' \in Seq(Frame) /\ Len(stack') = Len(stack)
    BY <1>1, SetRegFacts
  <1>3. QED
    BY <1>1, <1>2, RegisterTypes DEF TypeOK

LEMMA SetAccTypes ==
  ASSUME TypesInv, Running, OnlyRegisters, UNCHANGED stack, acc' \in Register
  PROVE  TypesInv'
  BY RegisterTypes DEF TypesInv, TypeOK, GCTypeOK, OnlyRegisters

LEMMA MoveTypes ==
  ASSUME TypesInv, Move
  PROVE  TypesInv'
  <1>1. TypeOK /\ \A w \in Imm : Plain(w) \in Register
    BY VMAssumption DEF TypesInv, Plain, Register, Word
  <1>2. ASSUME NEW rd \in Reg, NEW rs \in Reg, Mov(rd, rs) PROVE TypesInv'
    BY <1>1, <1>2, FrameTypes, SetRegTypes DEF Mov
  <1>3. ASSUME NEW r \in Reg, Lda(r) PROVE TypesInv'
    BY <1>1, <1>3, FrameTypes, SetAccTypes DEF Lda
  <1>4. ASSUME NEW r \in Reg, Sta(r) PROVE TypesInv'
    BY <1>1, <1>4, FrameTypes, SetRegTypes DEF Sta
  <1>5. ASSUME NEW r \in Reg, NEW w \in Imm, MovImm(r, w) PROVE TypesInv'
    BY <1>1, <1>5, SetRegTypes DEF MovImm
  <1>6. ASSUME NEW w \in Imm, Compute(w) PROVE TypesInv'
    BY <1>1, <1>6, SetAccTypes DEF Compute
  <1>7. QED
    BY <1>2, <1>3, <1>4, <1>5, <1>6 DEF Move

\* ... or a payload word of an object.
LEMMA WriteTypes ==
  ASSUME TypesInv, Running, NoAllocation, UNCHANGED <<acc, stack, status>>,
         NEW b \in Block, NEW s, NEW w \in Word, heap' = [heap EXCEPT ![b].data[s] = w]
  PROVE  TypesInv'
  <1>1. heap \in [Block -> Object] /\ heap[b] \in Object
    BY DEF TypesInv, TypeOK, GCTypeOK
  <1> DEFINE o == [heap[b] EXCEPT !.data[s] = w]
  <1>2. o \in Object /\ o.cw = heap[b].cw /\ o.size = heap[b].size
    BY <1>1 DEF Object
  <1>3. heap' = [heap EXCEPT ![b] = o]
    BY <1>1
  <1> HIDE DEF o
  <1>4. /\ heap' \in [Block -> Object]
        /\ \A x \in Block : heap'[x].cw = heap[x].cw /\ heap'[x].size = heap[x].size
    BY <1>1, <1>2, <1>3
  <1>5. \A x \in Block : IsArray(heap'[x]) => heap'[x].size < NumSlots
    BY <1>4 DEF TypesInv, IsArray
  <1>6. QED
    BY <1>4, <1>5, TypesSettled DEF TypesInv, TypeOK, GCTypeOK, Running, NoAllocation, Live

LEMMA AccessTypes ==
  ASSUME TypesInv, Access
  PROVE  TypesInv'
  <1>0. TypeOK /\ heap \in [Block -> Object] /\ acc \in Register
    BY DEF TypesInv, TypeOK, GCTypeOK
  <1>1. ASSUME NEW rs \in Reg, ArrLength(rs) PROVE TypesInv'
    <2>1. acc' \in Register
      BY <1>1 DEF ArrLength, Plain, Register, Word
    <2>2. QED
      BY <2>1, <1>1, SetAccTypes DEF ArrLength
  <1>2. ASSUME NEW rd \in Reg, NEW rs \in Reg, NEW c \in Class,
               NEW f \in DOMAIN FieldClass[c], Ldfield(rd, rs, c, f)
        PROVE  TypesInv'
    <2> DEFINE o == heap[currFrame[rs].val]
               x == [val |-> o.data[f], ref |-> FieldClass[c][f] # 0]
    <2>1. o \in Object /\ o.cw = DefaultClassWord(c)
      BY <1>0, <1>2 DEF Ldfield, IsA
    <2>2. SetReg(rd, x) /\ Running /\ OnlyRegisters /\ UNCHANGED acc
      BY <1>2 DEF Ldfield
    <2> HIDE DEF o
    <2>3. f \in Slot
      BY <2>1, FieldSlots
    <2>4. x \in Register
      BY <2>1, <2>3 DEF Object, Register
    <2> HIDE DEF x
    <2>5. QED
      BY <2>2, <2>4, SetRegTypes
  <1>3. ASSUME NEW rd \in Reg, NEW rs \in Reg, NEW c \in Class,
               NEW f \in DOMAIN FieldClass[c], Stfield(rd, rs, c, f)
        PROVE  TypesInv'
    <2>1. currFrame[rs].val \in Word /\ currFrame[rd].val \in Block
      BY <1>0, <1>3, FrameTypes DEF Stfield, IsA, Register
    <2>2. QED
      BY <2>1, <1>3, WriteTypes DEF Stfield
  <1>4. ASSUME NEW r \in Reg, NEW i \in Slot, NEW k \in 0 .. NumClasses, ArrLda(r, i, k)
        PROVE  TypesInv'
    <2> DEFINE o == heap[currFrame[r].val]
    <2>1. o \in Object /\ IsArray(o) /\ i \in 1 .. o.size /\ o.size < NumSlots
      BY <1>0, <1>4 DEF ArrLda, ArrayOf, TypesInv
    <2>2. /\ acc' = [val |-> o.data[ElemSlot(i)], ref |-> k # 0]
          /\ Running /\ OnlyRegisters /\ UNCHANGED stack
      BY <1>4 DEF ArrLda
    <2> HIDE DEF o
    <2>3. ElemSlot(i) \in Slot
      BY <2>1, HeapAssumption DEF Object, ElemSlot, Slot
    <2>4. acc' \in Register
      BY <2>1, <2>2, <2>3 DEF Object, Register
    <2>5. QED
      BY <2>2, <2>4, SetAccTypes
  <1>5. ASSUME NEW r \in Reg, NEW i \in Slot, NEW k \in 0 .. NumClasses, ArrSta(r, i, k)
        PROVE  TypesInv'
    <2>1. acc.val \in Word /\ currFrame[r].val \in Block
      BY <1>0, <1>5 DEF ArrSta, ArrayOf, Register
    <2>2. QED
      BY <2>1, <1>5, WriteTypes DEF ArrSta
  <1>6. CASE NullAccess
    BY <1>0, <1>6, RegisterTypes DEF NullAccess, TypeOK, GCTypeOK
  <1>7. QED
    BY <1>1, <1>2, <1>3, <1>4, <1>5, <1>6 DEF Access

LEMMA ControlTypes ==
  ASSUME TypesInv, Control
  PROVE  TypesInv'
  <1>1. TypeOK /\ acc \in Register /\ status \in {"run", "halted", "crash"}
    BY DEF TypesInv, TypeOK, GCTypeOK
  <1>2. ASSUME NEW args \in Args, Call(args) PROVE TypesInv'
    <2>1. stack' \in Seq(Frame) /\ Len(stack') \in 1 .. MaxDepth
      BY <1>1, <1>2, CallStack
    <2>2. QED
      BY <1>1, <1>2, <2>1, RegisterTypes DEF Call, OnlyRegisters
  <1>3. CASE Ret
    <2>1. stack' \in Seq(Frame) /\ Len(stack') \in 1 .. MaxDepth
      BY <1>1, <1>3, RetStack
    <2>2. status' \in {"run", "halted", "crash"}
      BY <1>1, <1>3 DEF Ret
    <2>3. QED
      BY <1>1, <1>3, <2>1, <2>2, RegisterTypes DEF Ret
  <1>4. QED
    BY <1>2, <1>3 DEF Control

LEMMA TriggerGCTypes ==
  ASSUME TypesInv, TriggerGC
  PROVE  TypesInv'
  <1>1. /\ phase = "idle" /\ phase' = "collect"
        /\ UNCHANGED <<acc, stack, status, heap, allocations, allocated, arrays>>
        /\ UNCHANGED <<mark, roots, todo, path, unswept>>
    BY DEF TriggerGC, Running, colVars
  <1>2. roots = {} /\ todo = {} /\ path = <<>>
    BY <1>1 DEF TypesInv, TypeOK, GCTypeOK, WalkOrder
  <1>3. TypeOK'
    BY <1>1, <1>2 DEF TypesInv, TypeOK, GCTypeOK, Phases, Live
  <1>4. QED
    BY <1>1, <1>2, <1>3 DEF TypesInv, WalkOrder, Marking

LEMMA CollectTypes ==
  ASSUME TypesInv, Collect
  PROVE  TypesInv'
  <1>1. GCNext /\ UNCHANGED status /\ GCTypeOK /\ WalkOrder
    BY DEF Collect, TypesInv, TypeOK
  <1>2. UNCHANGED <<acc, stack, heap, arrays>>
    BY <1>1, CollectorFacts DEF Static
  <1>3. GCTypeOK' /\ WalkOrder'
    BY <1>1, TypesKept, WalkOrderKept
  <1>4. phase' \in {"idle", "collect", "done"} => roots' = {}
    BY <1>1, CollectorFacts DEF TypesInv
  <1>5. QED
    BY <1>1, <1>2, <1>3, <1>4 DEF TypesInv, TypeOK

\* An object is put where there was none, or there is no memory for it.
LEMMA PlaceTypes ==
  ASSUME TypesInv, Allocating,
         acc' \in Register, stack' \in Seq(Frame), Len(stack') = Len(stack),
         arrays' \in Seq(0 .. NumClasses), NEW n \in Nat,
         \/ Exhausted(n) /\ status' \in {"run", "halted", "crash"}
         \/ \E b \in Block, o \in Object : /\ Place(b, n, o)
                                           /\ IsArray(o) => o.size < NumSlots
  PROVE  TypesInv'
  <1>1. /\ phase \in {"idle", "done"} /\ phase' = "idle"
        /\ heap \in [Block -> Object] /\ Live \subseteq Block /\ allocations \in [Live -> Nat]
        /\ allocated \in Int /\ Len(stack) \in 1 .. MaxDepth
        /\ status \in {"run", "halted", "crash"}
        /\ \A b \in Block : IsArray(heap[b]) => heap[b].size < NumSlots
    BY DEF Allocating, TypesInv, TypeOK, GCTypeOK
  <1>2. CASE Exhausted(n) /\ status' \in {"run", "halted", "crash"}
    BY <1>1, <1>2, TypesSettled DEF Exhausted, Live
  <1>3. ASSUME NEW b \in Block, NEW o \in Object, Place(b, n, o), IsArray(o) => o.size < NumSlots
        PROVE  TypesInv'
    <2>1. /\ heap' = [heap EXCEPT ![b] = o] /\ UNCHANGED <<status, colVars>>
          /\ allocations' = [x \in Live \cup {b} |-> IF x = b THEN n ELSE allocations[x]]
          /\ allocated' = allocated + n
      BY <1>3 DEF Place
    <2>2. /\ heap' \in [Block -> Object]
          /\ \A x \in Block : IsArray(heap'[x]) => heap'[x].size < NumSlots
      BY <1>1, <1>3, <2>1
    <2>3. Live' = Live \cup {b} /\ allocations' \in [Live' -> Nat] /\ allocated' \in Int
      BY <1>1, <2>1 DEF Live
    <2>4. QED
      BY <1>1, <2>1, <2>2, <2>3, TypesSettled
  <1>4. QED
    BY <1>2, <1>3

\* What is constructed is an object.
LEMMA ConstructedTypes ==
  ASSUME TypeOK, NEW b \in Block
  PROVE  /\ StringAt(b) \in Object /\ ~IsArray(StringAt(b))
         /\ \A c \in Class : ObjectAt(b, c) \in Object /\ ~IsArray(ObjectAt(b, c))
         /\ \A size \in ArrSizes, arrs \in Seq(0 .. NumClasses) :
              /\ ArrayAt(b, size, arrs) \in Object
              /\ ArrayAt(b, size, arrs).size < NumSlots
  <1>1. heap[b] \in Object /\ heap[b].data \in [Slot -> Word]
    BY DEF TypeOK, GCTypeOK, Object
  <1>2. StringAt(b) \in Object /\ ~IsArray(StringAt(b))
    BY <1>1 DEF StringAt, Object, Word, ClassWord, StringClassWord, IsArray
  <1>3. ASSUME NEW c \in Class PROVE ObjectAt(b, c) \in Object /\ ~IsArray(ObjectAt(b, c))
    BY <1>1 DEF ObjectAt, Object, Word, Class, ClassWord, DefaultClassWord, IsArray
  <1>4. ASSUME NEW size \in ArrSizes, NEW arrs \in Seq(0 .. NumClasses)
        PROVE  ArrayAt(b, size, arrs) \in Object /\ ArrayAt(b, size, arrs).size < NumSlots
    <2>1. Len(arrs) \in Nat /\ Buffer(Len(arrs)) \in Nat
      BY LenProperties, BufferType
    <2>2. [type |-> "ARRAY", id |-> Len(arrs), buf |-> Buffer(Len(arrs))] \in ClassWord
      BY <2>1 DEF ClassWord
    <2>3. [heap[b].data EXCEPT ![1] = Num] \in [Slot -> Word]
      BY <1>1 DEF Word
    <2>4. size \in Nat /\ size < NumSlots
      BY HeapAssumption, VMAssumption
    <2>5. QED
      BY <2>2, <2>3, <2>4 DEF ArrayAt, Object
  <1>5. QED
    BY <1>2, <1>3, <1>4

LEMMA NewTypes ==
  ASSUME TypesInv, New
  PROVE  TypesInv'
  <1>0. /\ TypeOK /\ acc \in Register /\ stack \in Seq(Frame) /\ arrays \in Seq(0 .. NumClasses)
        /\ status \in {"run", "halted", "crash"}
        /\ \A w \in Block \cup {Null} : Ref(w) \in Register
    BY DEF TypesInv, TypeOK, GCTypeOK, Ref, Register, Word
  <1>1. CASE NewString
    <2> DEFINE n == 24 + StrLen
    <2>1. Allocating /\ n \in Nat /\ acc' \in Register /\ UNCHANGED <<stack, arrays>>
      BY <1>0, <1>1, HeapAssumption DEF NewString
    <2>2. \/ Exhausted(n) /\ status' \in {"run", "halted", "crash"}
          \/ \E b \in Block : Place(b, n, StringAt(b))
      BY <1>0, <1>1 DEF NewString
    <2> HIDE DEF n
    <2>3. QED
      BY <1>0, <2>1, <2>2, ConstructedTypes, PlaceTypes
  <1>2. ASSUME NEW rd \in Reg, NEW c \in Class, ObjNew(rd, c) PROVE TypesInv'
    <2> DEFINE n == 16 + 8 * Len(FieldClass[c])
    <2>1. Allocating /\ n \in Nat /\ acc' \in Register /\ UNCHANGED <<acc, arrays>>
      BY <1>0, <1>2, HeapAssumption DEF ObjNew
    <2>2. \/ Exhausted(n) /\ status' = "crash" /\ UNCHANGED stack
          \/ \E b \in Block : Place(b, n, ObjectAt(b, c)) /\ SetReg(rd, Ref(b))
      BY <1>2 DEF ObjNew
    <2>3. stack' \in Seq(Frame) /\ Len(stack') = Len(stack)
      BY <1>0, <2>1, <2>2, SetRegFacts
    <2> HIDE DEF n
    <2>4. QED
      BY <1>0, <2>1, <2>2, <2>3, ConstructedTypes, PlaceTypes
  <1>3. ASSUME NEW rd \in Reg, NEW k \in 0 .. NumClasses, NEW size \in ArrSizes,
               ArrNew(rd, k, size)
        PROVE  TypesInv'
    <2> DEFINE n == 20 + 8 * size
    <2>1. /\ Allocating /\ n \in Nat /\ acc' \in Register /\ UNCHANGED acc
          /\ arrays' \in Seq(0 .. NumClasses)
      BY <1>0, <1>3, HeapAssumption, VMAssumption, AppendProperties DEF ArrNew
    <2>2. \/ /\ Exhausted(n) /\ status' \in {"run", "halted", "crash"}
             /\ SetReg(rd, Ref(Null)) \/ UNCHANGED stack
          \/ \E b \in Block : Place(b, n, ArrayAt(b, size, arrays')) /\ SetReg(rd, Ref(b))
      BY <1>0, <1>3 DEF ArrNew
    <2>3. stack' \in Seq(Frame) /\ Len(stack') = Len(stack)
      BY <1>0, <2>1, <2>2, SetRegFacts
    <2> HIDE DEF n
    <2>4. QED
      BY <1>0, <2>1, <2>2, <2>3, ConstructedTypes, PlaceTypes
  <1>4. QED
    BY <1>1, <1>2, <1>3 DEF New, LdaStr, Substr, Concat

LEMMA TypesStep == TypesInv /\ [Next]_vars => TypesInv'
  <1>1. ASSUME TypesInv, Next PROVE TypesInv'
    BY <1>1, MoveTypes, AccessTypes, ControlTypes, TriggerGCTypes, CollectTypes, NewTypes
    DEF Next
  <1>2. ASSUME TypesInv, UNCHANGED vars PROVE TypesInv'
    BY <1>2 DEF vars, gcVars, TypesInv, TypeOK, GCTypeOK, WalkOrder, Marking, Target, Live, Refs,
                Registers
  <1>3. QED
    BY <1>1, <1>2

-----------------------------------------------------------------------------
\* The constructed machine.
LEMMA VMInit ==
  ASSUME Init
  PROVE  VMInv
  <1>1. /\ acc = Plain(Null) /\ stack = <<NewFrame>> /\ phase = "idle" /\ path = <<>>
        /\ roots = {} /\ todo = {} /\ arrays = <<>> /\ unswept = {}
        /\ \A b \in Block : ~mark[b]
    BY DEF Init
  <1>2. Plain(Null) \in Register /\ NewFrame \in Frame
    BY DEF Plain, Register, Word, NewFrame, Frame
  <1>3. stack \in Seq(Frame) /\ Len(stack) = 1
    BY <1>1, <1>2
  <1>4. TypeOK
    <2>1. heap \in [Block -> Object]
      BY DEF Init, Object, ClassWord, NoClassWord, Word
    <2>2. Live = {} /\ allocations \in [Live -> Nat] /\ allocated \in Int
      BY DEF Init, Live
    <2>3. mark \in [Block -> BOOLEAN] /\ status \in {"run", "halted", "crash"}
      BY DEF Init
    <2>4. path \in Seq(Activation) /\ arrays \in Seq(0 .. NumClasses)
      BY <1>1
    <2>5. Len(stack) \in 1 .. MaxDepth
      BY <1>3, VMAssumption
    <2>6. QED
      BY <1>1, <1>2, <1>3, <2>1, <2>2, <2>3, <2>4, <2>5 DEF TypeOK, GCTypeOK, Phases
  <1>5. Registers = {Plain(Null)}
    BY <1>1, <1>3 DEF Registers, NewFrame
  <1>6. \A x \in Registers : ~x.ref /\ x.val = Null
    BY <1>5 DEF Plain
  <1>7. Refs = {}
    BY <1>6 DEF Refs
  <1>8. Reachable = {}
    BY <1>7, ReachableFacts
  <1>9. NoHiddenRefs
    BY <1>6, <1>8, HeapAssumption DEF NoHiddenRefs
  <1>10. QED
    BY <1>1, <1>4, <1>7, <1>8, <1>9 DEF VMInv, AtRest, Sound, HeapTyped

LEMMA TypesInit ==
  ASSUME Init
  PROVE  TypesInv
  <1>1. TypeOK /\ WalkOrder
    BY VMInit DEF Init, VMInv, WalkOrder, Marking
  <1>2. QED
    BY <1>1 DEF Init, TypesInv, IsArray, NoClassWord

\* The variables of the machine keep their types, in every behaviour.
THEOREM VMTypeCorrect == Spec => []TypeOK
  <1>1. TypesInv => TypeOK
    BY DEF TypesInv
  <1>2. Init => TypesInv
    BY TypesInit
  <1>3. QED
    BY <1>1, <1>2, TypesStep, PTL DEF Spec

\* In every behaviour, also in one where stale descriptor pointers or
\* elements that were never written have left the heap in disorder, each step
\* of a run of the collector leaves it less to do.
THEOREM CollectorRunsEnd ==
  ASSUME IsFiniteSet(Block)
  PROVE  Spec => RunsEnd
  <1>1. Init => TypesInv
    BY TypesInit
  <1>2. TypesInv /\ [Next]_vars => [Collect => LessWork]_vars
    <2>1. TypesInv /\ Collect => LessWork
      BY StepLess DEF TypesInv, TypeOK, Collect
    <2>2. QED
      BY <2>1
  <1>3. QED
    BY <1>1, <1>2, TypesStep, PTL DEF Spec, RunsEnd

\* Every step preserves VMInv, and is one of a managed heap.
LEMMA VMNext ==
  ASSUME VMInv, Next, ElementsZero, DescriptorsMet'
  PROVE  VMInv' /\ HeapStep
  BY MoveStep, AccessStep, ControlStep, TriggerGCStep, CollectStep, NewStep DEF Next

LEMMA VMStutter ==
  ASSUME VMInv, UNCHANGED vars
  PROVE  VMInv'
  <1>1. UNCHANGED gcVars /\ UNCHANGED <<acc, stack, heap, mark, allocations, allocated,
          arrays, phase, roots, todo, path, unswept, status>>
    BY DEF vars, gcVars
  <1>2. UNCHANGED Static /\ Live' = Live /\ Registers' = Registers
    BY <1>1 DEF Static, Live, Registers
  <1>3. Reachable' = Reachable /\ Refs' = Refs
    BY <1>2, StaticFacts
  <1>4. phase # "idle" => IInv'
    BY <1>1, StepInv DEF VMInv
  <1>5. TypeOK' /\ NoHiddenRefs' /\ AtRest'
    BY <1>1, <1>2, <1>3 DEF VMInv, TypeOK, GCTypeOK, NoHiddenRefs, AtRest
  <1>6. QED
    BY <1>1, <1>2, <1>3, <1>4, <1>5 DEF VMInv, Sound

LEMMA VMStep == VMInv /\ [Next]_vars /\ [ElementsZero]_vars /\ DescriptorsMet' => VMInv'
  BY VMNext, VMStutter

\* In every behaviour that the two findings leave undisturbed, VMInv holds.
THEOREM VMInvariance == Spec /\ Undisturbed => []VMInv
  <1>1. Init => VMInv
    BY VMInit
  <1>2. QED
    BY <1>1, VMStep, PTL DEF Spec, Undisturbed

-----------------------------------------------------------------------------
\* Registers whose mark is not set hold no address, so it makes no
\* difference to what is reachable whether they count.
LEMMA HeldSame ==
  ASSUME VMInv
  PROVE  Reach(Edges(heap, arrays), Held) = Reachable
  <1>1. Held \cap Block = Refs \cap Block
    <2>1. \A x \in Registers : x.val \in Block => x.ref
      BY VMFacts DEF RegisterOK
    <2>2. QED
      BY <2>1 DEF Held, Refs
  <1>2. DOMAIN Edges(heap, arrays) = Block
    BY DEF Edges
  <1>3. QED
    BY <1>1, <1>2 DEF Reachable, Reach

\* No address the program holds or can load dangles.
THEOREM NoDanglingReference == Spec /\ Undisturbed => []RefsLive
  <1>1. VMInv => RefsLive
    BY HeldSame, VMFacts DEF RefsLive, Sound
  <1>2. QED
    BY <1>1, VMInvariance, PTL

\* No address the program holds or can load escapes the collector.
THEOREM NothingHidden == Spec /\ Undisturbed => []NoHiddenRefs
  <1>1. VMInv => NoHiddenRefs
    BY DEF VMInv
  <1>2. QED
    BY <1>1, VMInvariance, PTL

\* run() is called only on heaps it is made for.
THEOREM CollectorIsCalledRight == Spec /\ Undisturbed => []CollectorPrecondition
  <1>1. VMInv => CollectorPrecondition
    BY DEF VMInv, IInv, PhaseFacts, CollectorPrecondition
  <1>2. QED
    BY <1>1, VMInvariance, PTL

\* When run() returns to the instruction that called it, no garbage is left.
THEOREM GarbageIsCollected == Spec /\ Undisturbed => []CollectsAll
  <1>1. VMInv => CollectsAll
    BY DEF VMInv, IInv, PhaseFacts, CollectsAll
  <1>2. QED
    BY <1>1, VMInvariance, PTL

-----------------------------------------------------------------------------
LEMMA WholeReached ==
  ASSUME VMInv
  PROVE  /\ Whole!Reached = Reachable
         /\ Edges(heap, arrays) \in [Block -> SUBSET Block]
  <1>1. Whole!Reached = Reach(Edges(heap, arrays), Held)
    BY DEF Whole!Reached, Whole!Reach, Reach, Whole!Closed, Closed
  <1>2. QED
    BY <1>1, HeldSame DEF Edges, Children

LEMMA WholeStep ==
  ASSUME VMInv, VMInv', HeapStep, Whole!Reached = Reachable,
         Whole!Reached' = Reachable',
         (Edges(heap, arrays) \in [Block -> SUBSET Block])'
  PROVE  [Whole!Next]_Whole!vars
  <1>1. CASE Live' = Live /\ Reachable' \subseteq Reachable
    <2>1. CASE <<Edges(heap, arrays), Held>>' = <<Edges(heap, arrays), Held>>
      BY <1>1, <2>1 DEF Whole!vars
    <2>2. CASE <<Edges(heap, arrays), Held>>' # <<Edges(heap, arrays), Held>>
      <3>1. Whole!Mutate
        BY <1>1, <2>2 DEF Whole!Mutate
      <3>2. QED
        BY <3>1 DEF Whole!Next
    <2>3. QED
      BY <2>1, <2>2
  <1>2. ASSUME NEW b \in Block, b \notin Live, Live' = Live \cup {b},
               Reachable' \subseteq Reachable \cup {b}
        PROVE  [Whole!Next]_Whole!vars
    <2>1. Whole!Allocate(b)
      BY <1>2 DEF Whole!Allocate
    <2>2. QED
      BY <2>1 DEF Whole!Next
  <1>3. ASSUME NEW b \in Live \ Reachable, Live' = Live \ {b},
               UNCHANGED <<acc, stack, heap, arrays>>
        PROVE  [Whole!Next]_Whole!vars
    <2>1. UNCHANGED <<Edges(heap, arrays), Held>>
      BY <1>3 DEF Held, Registers
    <2>2. Whole!Reclaim(b)
      BY <1>3, <2>1 DEF Whole!Reclaim
    <2>3. b \in Block
      BY VMFacts DEF TypeOK, GCTypeOK
    <2>4. QED
      BY <2>2, <2>3 DEF Whole!Next, Whole!Collect
  <1>4. QED
    BY <1>1, <1>2, <1>3 DEF HeapStep

\* Program, allocator and collector together implement the managed heap:
\* every step allocates an object, or changes references without making
\* anything reachable that was not, or reclaims an unreachable object.
THEOREM MachineRefinesHeap == Spec /\ Undisturbed => ManagedHeapSpec
  <1>1. Init => Whole!Init
    <2> SUFFICES ASSUME Init PROVE Whole!Init
      OBVIOUS
    <2>1. VMInv
      BY VMInit
    <2>2. QED
      BY <2>1, WholeReached, VMFacts
      DEF Whole!Init, Whole!TypeOK, Whole!NoDangling, Sound, TypeOK, GCTypeOK
  <1>2. VMInv => Whole!Reached = Reachable /\ Edges(heap, arrays) \in [Block -> SUBSET Block]
    BY WholeReached
  <1>3. (VMInv => Whole!Reached = Reachable /\ Edges(heap, arrays) \in [Block -> SUBSET Block])'
    BY <1>2, PTL
  <1>4. /\ VMInv /\ VMInv' /\ [Next]_vars /\ [ElementsZero]_vars /\ DescriptorsMet'
        => [Whole!Next]_Whole!vars
    <2> SUFFICES ASSUME VMInv, VMInv', [Next]_vars, [ElementsZero]_vars, DescriptorsMet'
                 PROVE  [Whole!Next]_Whole!vars
      OBVIOUS
    <2>1. CASE UNCHANGED vars
      BY <2>1 DEF vars, gcVars, Whole!vars, Held, Registers, Live
    <2>2. CASE ~UNCHANGED vars
      <3>1. HeapStep
        BY <2>2, VMNext
      <3>2. /\ Whole!Reached = Reachable /\ Whole!Reached' = Reachable'
            /\ (Edges(heap, arrays) \in [Block -> SUBSET Block])'
        BY <1>2, <1>3
      <3>3. QED
        BY <3>1, <3>2, WholeStep
    <2>3. QED
      BY <2>1, <2>2
  <1>5. QED
    BY <1>1, <1>4, VMInvariance, PTL DEF Spec, Undisturbed, ManagedHeapSpec, Whole!Spec

\* Of the abstract heap: NoDangling alone is inductive, for no action lets
\* the program reach what it did not reach before, but the new object.
LEMMA NoDanglingStep ==
  ASSUME Whole!NoDangling, [Whole!Next]_Whole!vars
  PROVE  Whole!NoDangling'
  <1>1. CASE Whole!Mutate
    BY <1>1 DEF Whole!Mutate, Whole!NoDangling
  <1>2. ASSUME NEW n \in Block, Whole!Allocate(n) PROVE Whole!NoDangling'
    BY <1>2 DEF Whole!Allocate, Whole!NoDangling
  <1>3. ASSUME NEW n \in Block, Whole!Reclaim(n) PROVE Whole!NoDangling'
    <2>1. Whole!Reached' = Whole!Reached
      BY <1>3 DEF Whole!Reclaim, Whole!Reached, Whole!Reach, Whole!Closed
    <2>2. QED
      BY <1>3, <2>1 DEF Whole!Reclaim, Whole!NoDangling
  <1>4. CASE UNCHANGED Whole!vars
    <2>1. Whole!Reached' = Whole!Reached /\ Live' = Live
      BY <1>4 DEF Whole!vars, Whole!Reached, Whole!Reach, Whole!Closed
    <2>2. QED
      BY <2>1 DEF Whole!NoDangling
  <1>5. QED
    BY <1>1, <1>2, <1>3, <1>4 DEF Whole!Next, Whole!Collect

\* Whatever implements the managed heap never leaves dangling an address
\* that the program holds, or can read from an object it holds.
THEOREM NeverDangling == ManagedHeapSpec => []Whole!NoDangling
  <1>1. Whole!Init => Whole!NoDangling
    BY DEF Whole!Init
  <1>2. Whole!NoDangling /\ [Whole!Next]_Whole!vars => Whole!NoDangling'
    BY NoDanglingStep
  <1>3. QED
    BY <1>1, <1>2, PTL DEF ManagedHeapSpec, Whole!Spec

-----------------------------------------------------------------------------
(***************************************************************************)
(* What disturbs a behaviour, and when: an array in memory used before, if *)
(* one fits a pool; a descriptor pointer into a released buffer, if there  *)
(* are two.                                                                *)
(***************************************************************************)

\* Memory never used is zero.
FreshZero == \A b \in Block : IsFresh(b) => \A s \in Slot : heap[b].data[s] = Null

\* An array is the only one there is.
OnlyArray == \A b \in Block : IsArray(heap[b]) => Len(arrays) = 1 /\ heap[b].cw.buf = Buffer(1)

\* An array larger than every pool is not put where an object was before.
LEMMA ArrayIsFresh ==
  ASSUME ArraysOutsidePools, NEW size \in ArrSizes, NEW b \in Available(20 + 8 * size)
  PROVE  IsFresh(b)
  <1> DEFINE n == 20 + 8 * size
  <1>1. size \in Nat /\ PoolSizes \subseteq Nat
    BY HeapAssumption, VMAssumption
  <1>2. \A p \in PoolSizes : ~(p >= n)
    BY <1>1 DEF ArraysOutsidePools
  <1>3. Pool(n) = 0
    BY <1>2 DEF Pool
  <1>4. QED
    BY <1>3 DEF Available

\* What a step does to memory: nothing, a write to an object, or an object
\* in the place of another, which is no array or is the newest.
Grown       == Len(arrays) < MaxArrays /\ Len(arrays') = Len(arrays) + 1
Written(b)  == /\ ~IsFresh(b) /\ Live' = Live
               /\ heap'[b].cw = heap[b].cw
Placed(b)   == /\ heap'[b].cw # NoClassWord /\ ~IsArray(heap'[b])
               /\ \A s \in RefSlots(heap'[b], arrays') : heap'[b].data[s] = Null
ArrayPut(b) == /\ ArraysOutsidePools => IsFresh(b)
               /\ IsArray(heap'[b]) /\ heap'[b].cw.buf = Buffer(Len(arrays'))
               /\ heap'[b].size \in 0 .. NumSlots - 1
               /\ \A s \in Slot : s # 1 => heap'[b].data[s] = heap[b].data[s]

MemoryStep ==
  \/ heap' = heap /\ Live' \subseteq Live /\ (UNCHANGED arrays \/ Grown)
  \/ \E b \in Block :
       /\ \A x \in Block : x # b => heap'[x] = heap[x]
       /\ Live' \subseteq Live \cup {b}
       /\ \/ (Written(b) \/ Placed(b)) /\ UNCHANGED arrays
          \/ ArrayPut(b) /\ Grown

\* Memory never used stays zero, whatever else may go wrong.
LEMMA FreshStep ==
  ASSUME FreshZero, MemoryStep
  PROVE  FreshZero'
  <1>1. CASE heap' = heap
    BY <1>1 DEF FreshZero, IsFresh
  <1>2. ASSUME NEW b \in Block,
               \A x \in Block : x # b => heap'[x] = heap[x],
               (~IsFresh(b) /\ heap'[b].cw = heap[b].cw) \/ heap'[b].cw # NoClassWord
        PROVE  FreshZero'
    BY <1>2 DEF FreshZero, IsFresh
  <1>3. QED
    BY <1>1, <1>2 DEF MemoryStep, Written, Placed, ArrayPut, IsArray, NoClassWord

\* So what is new is zero, if no array fits a pool.
NewIsNull == \A b \in Live' \ Live : \A s \in RefSlots(heap[b], arrays)' : heap'[b].data[s] = Null

LEMMA ZeroStep ==
  ASSUME ArraysOutsidePools, FreshZero, MemoryStep
  PROVE  ElementsZero /\ NewIsNull
  <1>1. CASE Live' \subseteq Live
    BY <1>1 DEF ElementsZero, NewIsNull
  <1>2. ASSUME NEW b \in Block, Live' \subseteq Live \cup {b}, Placed(b)
        PROVE  ElementsZero /\ NewIsNull
    BY <1>2 DEF Placed, ElementsZero, NewIsNull
  <1>3. ASSUME NEW b \in Block, Live' \subseteq Live \cup {b}, ArrayPut(b)
        PROVE  ElementsZero /\ NewIsNull
    <2>1. \A s \in Slot : s # 1 => heap'[b].data[s] = Null
      BY <1>3 DEF ArrayPut, FreshZero
    <2>2. \A i \in 1 .. heap'[b].size : ElemSlot(i) \in Slot /\ ElemSlot(i) # 1
      BY <1>3, HeapAssumption DEF ArrayPut, ElemSlot, Slot
    <2>3. \A i \in 1 .. heap'[b].size : heap'[b].data[ElemSlot(i)] = Null
      BY <2>1, <2>2
    <2>4. ElementsZero
      BY <1>3, <2>3 DEF ElementsZero
    <2>5. ASSUME NEW s \in RefSlots(heap'[b], arrays') PROVE heap'[b].data[s] = Null
      <3>1. ~IsObject(heap'[b])
        BY <1>3 DEF ArrayPut, IsArray, IsObject
      <3>2. PICK i \in 1 .. heap'[b].size : s = ElemSlot(i)
        BY <3>1 DEF RefSlots
      <3>3. QED
        BY <2>3, <3>2
    <2>6. QED
      BY <1>3, <2>4, <2>5 DEF NewIsNull
  <1>4. QED
    BY <1>1, <1>2, <1>3 DEF MemoryStep, Written

\* And the only array stays the only one.
LEMMA OnlyArrayStep ==
  ASSUME MaxArrays \in {0, 1}, Len(arrays) \in Nat, OnlyArray, MemoryStep
  PROVE  OnlyArray'
  <1>1. Grown => Len(arrays) = 0 /\ Len(arrays') = 1 /\ \A b \in Block : ~IsArray(heap[b])
    BY DEF Grown, OnlyArray
  <1>2. CASE heap' = heap /\ (UNCHANGED arrays \/ Grown)
    BY <1>1, <1>2 DEF OnlyArray
  <1>3. ASSUME NEW b \in Block, \A x \in Block : x # b => heap'[x] = heap[x],
               (Written(b) \/ Placed(b)) /\ UNCHANGED arrays
        PROVE  OnlyArray'
    BY <1>3 DEF Written, Placed, OnlyArray, IsArray
  <1>4. ASSUME NEW b \in Block, \A x \in Block : x # b => heap'[x] = heap[x],
               ArrayPut(b) /\ Grown
        PROVE  OnlyArray'
    BY <1>1, <1>4 DEF ArrayPut, OnlyArray
  <1>5. QED
    BY <1>2, <1>3, <1>4 DEF MemoryStep

LEMMA UntouchedMemory ==
  ASSUME UNCHANGED <<heap, allocations, arrays>>
  PROVE  MemoryStep
  BY DEF MemoryStep, Live

\* A handler that writes to an object finds it by its class word.
LEMMA WriteMemory ==
  ASSUME TypeOK, NEW b \in Block, NEW s \in Slot, NEW w,
         heap' = [heap EXCEPT ![b].data[s] = w],
         IsArray(heap[b]) \/ \E c \in Class : heap[b].cw = DefaultClassWord(c),
         UNCHANGED <<allocations, arrays>>
  PROVE  MemoryStep
  <1>1. heap \in [Block -> Object]
    BY DEF TypeOK, GCTypeOK
  <1>2. heap'[b].cw = heap[b].cw /\ \A x \in Block : x # b => heap'[x] = heap[x]
    BY <1>1 DEF Object
  <1>3. ~IsFresh(b)
    <2>1. heap[b].cw.type \in {"ARRAY", "DEFAULT"}
      <3>1. CASE IsArray(heap[b])
        BY <3>1 DEF IsArray
      <3>2. ASSUME NEW c \in Class, heap[b].cw = DefaultClassWord(c)
            PROVE  heap[b].cw.type = "DEFAULT"
        BY <3>2 DEF DefaultClassWord
      <3>3. QED
        BY <3>1, <3>2
    <2>2. QED
      BY <2>1 DEF IsFresh, NoClassWord
  <1>4. Live' = Live
    BY DEF Live
  <1>5. QED
    BY <1>2, <1>3, <1>4 DEF MemoryStep, Written

LEMMA PlaceMemory ==
  ASSUME TypeOK, NEW b \in Block, NEW n, NEW o, Place(b, n, o)
  PROVE  /\ \A x \in Block : x # b => heap'[x] = heap[x]
         /\ Live' \subseteq Live \cup {b} /\ heap'[b] = o
  BY DEF Place, TypeOK, GCTypeOK, Live

LEMMA NewMemory ==
  ASSUME TypesInv, New
  PROVE  MemoryStep
  <1>0. TypeOK
    BY DEF TypesInv
  <1>1. ASSUME NewString PROVE MemoryStep
    <2>1. CASE Exhausted(24 + StrLen)
      BY <1>1, <2>1, UntouchedMemory DEF NewString, Exhausted
    <2>2. ASSUME NEW b \in Block, Place(b, 24 + StrLen, StringAt(b)) PROVE MemoryStep
      <3>1. heap'[b] = StringAt(b)
        BY <1>0, <2>2, PlaceMemory
      <3>2. heap'[b].cw.type = "STRING"
        BY <3>1 DEF StringAt, StringClassWord
      <3>3. Placed(b)
        BY <3>2 DEF Placed, NoClassWord, IsArray, IsObject, RefSlots
      <3>4. QED
        BY <1>0, <1>1, <2>2, <3>3, PlaceMemory DEF MemoryStep, NewString
    <2>3. QED
      BY <1>1, <2>1, <2>2 DEF NewString
  <1>2. ASSUME NEW rd \in Reg, NEW c \in Class, ObjNew(rd, c) PROVE MemoryStep
    <2> DEFINE n == 16 + 8 * Len(FieldClass[c])
    <2>1. CASE Exhausted(n)
      BY <1>2, <2>1, UntouchedMemory DEF ObjNew, Exhausted
    <2>2. ASSUME NEW b \in Block, Place(b, n, ObjectAt(b, c)) PROVE MemoryStep
      <3>1. heap'[b] = ObjectAt(b, c)
        BY <1>0, <2>2, PlaceMemory
      <3>2. /\ heap'[b].cw = DefaultClassWord(c)
            /\ \A s \in Slot : s \in DOMAIN FieldClass[c] => heap'[b].data[s] = Null
        BY <3>1 DEF ObjectAt
      <3>3. heap'[b].cw.type = "DEFAULT" /\ heap'[b].cw.id = c
        BY <3>2 DEF DefaultClassWord
      <3>4. Placed(b)
        BY <3>2, <3>3 DEF Placed, NoClassWord, IsArray, RefSlots
      <3>5. QED
        BY <1>0, <1>2, <2>2, <3>4, PlaceMemory DEF MemoryStep, ObjNew
    <2>3. QED
      BY <1>2, <2>1, <2>2 DEF ObjNew
  <1>3. ASSUME NEW rd \in Reg, NEW k \in 0 .. NumClasses, NEW size \in ArrSizes,
               ArrNew(rd, k, size)
        PROVE  MemoryStep
    <2> DEFINE n == 20 + 8 * size
    <2>1. arrays \in Seq(0 .. NumClasses) /\ heap \in [Block -> Object]
      BY <1>0 DEF TypeOK, GCTypeOK
    <2>2. Grown
      BY <1>3, <2>1, AppendProperties DEF ArrNew, Grown
    <2>3. CASE Exhausted(n)
      <3>1. heap' = heap /\ Live' = Live
        BY <2>3 DEF Exhausted, Live
      <3>2. QED
        BY <2>2, <3>1 DEF MemoryStep
    <2>4. ASSUME NEW b \in Block, Place(b, n, ArrayAt(b, size, arrays')) PROVE MemoryStep
      <3>1. heap'[b] = ArrayAt(b, size, arrays')
        BY <1>0, <2>4, PlaceMemory
      <3>2. ArraysOutsidePools => IsFresh(b)
        BY <2>4, ArrayIsFresh DEF Place
      <3>3. /\ heap'[b].cw.type = "ARRAY" /\ heap'[b].cw.buf = Buffer(Len(arrays'))
            /\ heap'[b].size = size /\ heap'[b].data = [heap[b].data EXCEPT ![1] = Num]
        BY <3>1 DEF ArrayAt
      <3>4. \A s \in Slot : s # 1 => heap'[b].data[s] = heap[b].data[s]
        BY <3>3, <2>1 DEF Object
      <3>5. ArrayPut(b)
        BY <3>2, <3>3, <3>4, VMAssumption DEF ArrayPut, IsArray
      <3>6. QED
        BY <1>0, <2>2, <2>4, <3>5, PlaceMemory DEF MemoryStep
    <2>5. QED
      BY <1>3, <2>3, <2>4 DEF ArrNew
  <1>4. QED
    BY <1>1, <1>2, <1>3 DEF New, LdaStr, Substr, Concat

LEMMA NextMemory ==
  ASSUME TypesInv, Next
  PROVE  MemoryStep
  <1>0. TypeOK
    BY DEF TypesInv
  <1>1. ASSUME Move PROVE MemoryStep
    BY <1>1, UntouchedMemory
    DEF Move, Mov, MovImm, Lda, Sta, Compute, OnlyRegisters, NoAllocation
  <1>2. ASSUME Control PROVE MemoryStep
    BY <1>2, UntouchedMemory DEF Control, Call, Ret, OnlyRegisters, NoAllocation
  <1>3. ASSUME Access PROVE MemoryStep
    <2>1. ASSUME NEW rd \in Reg, NEW rs \in Reg, NEW c \in Class,
                 NEW f \in DOMAIN FieldClass[c], Stfield(rd, rs, c, f)
          PROVE  MemoryStep
      <3> DEFINE b == currFrame[rd].val
      <3>1. /\ b \in Block /\ heap[b].cw = DefaultClassWord(c)
            /\ heap' = [heap EXCEPT ![b].data[f] = currFrame[rs].val]
            /\ UNCHANGED <<allocations, arrays>>
        BY <2>1 DEF Stfield, IsA, NoAllocation
      <3>2. f \in Slot
        <4> DEFINE p == heap[b]
        <4>1. p.cw = DefaultClassWord(c)
          BY <3>1
        <4> HIDE DEF p
        <4>2. QED
          BY <4>1, FieldSlots
      <3> HIDE DEF b
      <3>3. QED
        BY <1>0, <3>1, <3>2, WriteMemory
    <2>2. ASSUME NEW rd \in Reg, NEW i \in Slot, NEW k \in 0 .. NumClasses,
                 ArrSta(rd, i, k)
          PROVE  MemoryStep
      <3> DEFINE b == currFrame[rd].val
      <3>1. /\ b \in Block /\ IsArray(heap[b])
            /\ heap' = [heap EXCEPT ![b].data[ElemSlot(i)] = acc.val]
            /\ UNCHANGED <<allocations, arrays>>
        BY <2>2 DEF ArrSta, ArrayOf, NoAllocation
      <3> HIDE DEF b
      <3>2. /\ heap'[b].cw = heap[b].cw
            /\ \A x \in Block : x # b => heap'[x] = heap[x]
        BY <1>0, <3>1 DEF TypeOK, GCTypeOK, Object
      <3>3. ~IsFresh(b) /\ Live' = Live
        BY <3>1 DEF IsFresh, IsArray, NoClassWord, Live
      <3>4. QED
        BY <3>1, <3>2, <3>3 DEF MemoryStep, Written
    <2>3. QED
      BY <1>3, <2>1, <2>2, UntouchedMemory
      DEF Access, ArrLength, Ldfield, ArrLda, NullAccess, OnlyRegisters, NoAllocation
  <1>4. ASSUME TriggerGC PROVE MemoryStep
    BY <1>4, UntouchedMemory DEF TriggerGC
  <1>5. ASSUME Collect PROVE MemoryStep
    <2>1. heap' = heap /\ arrays' = arrays /\ (Live' = Live \/ \E b \in Block : Free(b))
      BY <1>5, CollectorFacts DEF Collect, Static
    <2>2. Live' \subseteq Live
      BY <2>1 DEF Free, Live
    <2>3. QED
      BY <2>1, <2>2 DEF MemoryStep
  <1>6. QED
    BY <1>1, <1>2, <1>3, <1>4, <1>5, NewMemory DEF Next

LEMMA MemoryKept ==
  ASSUME TypesInv, [Next]_vars
  PROVE  MemoryStep \/ UNCHANGED vars
  BY NextMemory

LEMMA MemoryInit ==
  ASSUME Init
  PROVE  FreshZero /\ OnlyArray
  BY DEF Init, FreshZero, OnlyArray, IsFresh, IsArray, NoClassWord

LEMMA FreshKept == TypesInv /\ FreshZero /\ [Next]_vars => FreshZero'
  <1>1. FreshZero /\ UNCHANGED vars => FreshZero'
    BY DEF vars, gcVars, FreshZero, IsFresh
  <1>2. QED
    BY <1>1, MemoryKept, FreshStep

\* Where no array fits a pool, elements of new arrays are zero, however many
\* arrays there are and wherever their descriptor pointers point.
THEOREM ArraysOutsidePoolsZero ==
  ASSUME ArraysOutsidePools
  PROVE  Spec => [][ElementsZero]_vars /\ NewArraysNull
  <1>1. Init => TypesInv /\ FreshZero
    BY TypesInit, MemoryInit
  <1>2. TypesInv /\ FreshZero /\ [Next]_vars => [ElementsZero]_vars /\ [NewIsNull]_vars
    BY MemoryKept, ZeroStep
  <1>3. QED
    BY <1>1, <1>2, TypesStep, FreshKept, PTL DEF Spec, NewArraysNull, NewIsNull

\* Where there is at most one array, its descriptor pointer is current, even
\* if its elements are not what the program takes them for.
THEOREM OneArrayCurrent ==
  ASSUME MaxArrays \in {0, 1}
  PROVE  Spec => []DescriptorsMet
  <1>1. Init => TypesInv /\ OnlyArray
    BY TypesInit, MemoryInit
  <1>2. TypesInv /\ OnlyArray /\ [Next]_vars => OnlyArray'
    <2>1. TypesInv => Len(arrays) \in Nat
      BY LenProperties DEF TypesInv, TypeOK, GCTypeOK
    <2>2. OnlyArray /\ UNCHANGED vars => OnlyArray'
      BY DEF vars, gcVars, OnlyArray
    <2>3. QED
      BY <2>1, <2>2, MemoryKept, OnlyArrayStep
  <1>3. OnlyArray => DescriptorsMet
    BY ReachableFacts DEF OnlyArray, DescriptorsMet, DescriptorsCurrent, Current
  <1>4. QED
    BY <1>1, <1>2, <1>3, TypesStep, PTL DEF Spec

\* With one array, in memory never used before, no behaviour is disturbed.
THEOREM OneArrayUndisturbed ==
  ASSUME ArraysLimited
  PROVE  Spec => Undisturbed
  BY ArraysOutsidePoolsZero, OneArrayCurrent, PTL DEF ArraysLimited, Undisturbed

\* So what holds of undisturbed behaviours holds of all behaviours then: no
\* array a register holds is lost either.
THEOREM OneArraySafe ==
  ASSUME ArraysLimited
  PROVE  Spec => [](RefsLive /\ NoHiddenRefs /\ CollectorPrecondition /\ CollectsAll /\ ArraysLive)
  <1>1. RefsLive => ArraysLive
    <2>1. DOMAIN Edges(heap, arrays) = Block
      BY DEF Edges
    <2>2. Held \cap Block \subseteq Reach(Edges(heap, arrays), Held)
      BY <2>1, ReachStart
    <2>3. QED
      BY <2>2 DEF RefsLive, ArraysLive, Held
  <1>2. QED
    BY <1>1, OneArrayUndisturbed, NoDanglingReference, NothingHidden, CollectorIsCalledRight,
       GarbageIsCollected, PTL

\* And the machine refines the managed heap.
THEOREM OneArrayRefinesHeap ==
  ASSUME ArraysLimited
  PROVE  Spec => ManagedHeapSpec
  BY OneArrayUndisturbed, MachineRefinesHeap, PTL

-----------------------------------------------------------------------------
(***************************************************************************)
(* The sum of Accounting.  It is a fold, a function defined by recursion   *)
(* on subsets; what is to be shown of every finite set follows from there  *)
(* being no smallest set of which it fails.                                *)
(***************************************************************************)
\* The element of a set that the fold adds first.
Pick(s) == CHOOSE x \in s : TRUE

\* g adds up al over the subsets of S, one element after the other.
AddsUp(g, al, S) ==
  g = [s \in SUBSET S |-> IF s = {} THEN 0 ELSE al[Pick(s)] + g[s \ {Pick(s)}]]

TotalOf(al, S) == (CHOOSE g : AddsUp(g, al, S))[S]

LEMMA Picked ==
  ASSUME NEW s, s # {}
  PROVE  Pick(s) \in s
  BY DEF Pick

\* Among finite sets there is one that contains no other.
LEMMA SmallestSet ==
  ASSUME NEW S, IsFiniteSet(S), NEW T \in SUBSET SUBSET S, T # {}
  PROVE  \E s \in T : \A t \in T : t \subseteq s => t = s
  <1>1. T \subseteq FiniteSubsetsOf(S)
    BY FS_FiniteSubsetsOfFinite
  <1>2. PICK s \in T : \A t \in T : <<t, s>> \notin StrictSubsetOrdering(S)
    BY <1>1, FS_StrictSubsetOrderingWellFounded, WFMin
  <1>3. QED
    BY <1>2 DEF StrictSubsetOrdering

\* What two such functions give to a set is the same.
LEMMA AddsUpUnique ==
  ASSUME NEW al, NEW S, NEW R, IsFiniteSet(S), NEW g, NEW h,
         AddsUp(g, al, S), AddsUp(h, al, R),
         NEW u, u \subseteq S, u \subseteq R
  PROVE  g[u] = h[u]
  <1> DEFINE T == { t \in SUBSET (S \cap R) : g[t] # h[t] }
  <1>1. SUFFICES ASSUME T # {} PROVE FALSE
    OBVIOUS
  <1>2. PICK s \in T : \A t \in T : t \subseteq s => t = s
    <2>1. T \in SUBSET SUBSET S
      OBVIOUS
    <2> HIDE DEF T
    <2>2. QED
      BY <1>1, <2>1, SmallestSet
  <1>3. s \subseteq S /\ s \subseteq R /\ g[s] # h[s]
    BY <1>2
  <1>4. /\ g[s] = IF s = {} THEN 0 ELSE al[Pick(s)] + g[s \ {Pick(s)}]
        /\ h[s] = IF s = {} THEN 0 ELSE al[Pick(s)] + h[s \ {Pick(s)}]
    BY <1>3 DEF AddsUp
  <1>5. s # {} /\ g[s \ {Pick(s)}] # h[s \ {Pick(s)}]
    BY <1>3, <1>4
  <1>6. s \ {Pick(s)} \in T /\ s \ {Pick(s)} \subseteq s
    BY <1>3, <1>5
  <1>7. QED
    BY <1>2, <1>5, <1>6, Picked

\* There is such a function, so the fold is what its definition says.
LEMMA AddsUpExists ==
  ASSUME NEW al, NEW S, IsFiniteSet(S)
  PROVE  \E g : AddsUp(g, al, S)
  <1> DEFINE T == { t \in SUBSET S : ~ \E g : AddsUp(g, al, t) }
             G(t) == CHOOSE g : AddsUp(g, al, t)
  <1>1. SUFFICES ASSUME T # {} PROVE FALSE
    OBVIOUS
  <1>2. PICK s \in T : \A t \in T : t \subseteq s => t = s
    <2>1. T \in SUBSET SUBSET S
      OBVIOUS
    <2> HIDE DEF T
    <2>2. QED
      BY <1>1, <2>1, SmallestSet
  <1>3. s \subseteq S /\ ~ \E g : AddsUp(g, al, s)
    BY <1>2
  <1>4. \A t \in SUBSET s : IsFiniteSet(t)
    BY <1>3, FS_Subset
  <1>5. ASSUME NEW t \in SUBSET s, t # s PROVE AddsUp(G(t), al, t)
    <2>1. \E g : AddsUp(g, al, t)
      BY <1>2, <1>3, <1>5
    <2>2. QED
      BY <2>1
  <1> DEFINE h == [t \in SUBSET s |-> IF t = {} THEN 0
                    ELSE al[Pick(t)] + G(t \ {Pick(t)})[t \ {Pick(t)}]]
  <1> HIDE DEF T, G
  <1>6. ASSUME NEW u \in SUBSET s, u # s PROVE h[u] = G(u)[u]
    <2>1. AddsUp(G(u), al, u)
      BY <1>5, <1>6
    <2>2. G(u)[u] = IF u = {} THEN 0 ELSE al[Pick(u)] + G(u)[u \ {Pick(u)}]
      BY <2>1 DEF AddsUp
    <2>3. ASSUME u # {} PROVE G(u)[u \ {Pick(u)}] = G(u \ {Pick(u)})[u \ {Pick(u)}]
      <3> DEFINE v == u \ {Pick(u)}
      <3>1. v \in SUBSET s /\ v # s /\ v \subseteq u
        BY <1>6, <2>3, Picked
      <3>2. AddsUp(G(v), al, v)
        BY <3>1, <1>5
      <3> HIDE DEF v
      <3>3. G(u)[v] = G(v)[v]
        BY <2>1, <3>1, <3>2, <1>4, AddsUpUnique
      <3>4. QED
        BY <3>3 DEF v
    <2>4. QED
      BY <2>2, <2>3
  <1>7. AddsUp(h, al, s)
    <2>1. ASSUME NEW t \in SUBSET s, t # {}
          PROVE  h[t \ {Pick(t)}] = G(t \ {Pick(t)})[t \ {Pick(t)}]
      <3>1. t \ {Pick(t)} \in SUBSET s /\ t \ {Pick(t)} # s
        BY <2>1, Picked
      <3> HIDE DEF h
      <3>2. QED
        BY <3>1, <1>6
    <2>2. \A t \in SUBSET s : (IF t = {} THEN 0 ELSE al[Pick(t)] + G(t \ {Pick(t)})[t \ {Pick(t)}])
                            = IF t = {} THEN 0 ELSE al[Pick(t)] + h[t \ {Pick(t)}]
      <3> HIDE DEF h
      <3> QED BY <2>1
    <2>3. h = [t \in SUBSET s |-> IF t = {} THEN 0 ELSE al[Pick(t)] + h[t \ {Pick(t)}]]
      BY <2>2, Zenon
    <2>4. QED
      BY <2>3 DEF AddsUp
  <1>8. QED
    BY <1>3, <1>7

\* The total in terms of the total of all but one element.
LEMMA TotalStep ==
  ASSUME NEW al, NEW S, IsFiniteSet(S)
  PROVE  TotalOf(al, S) = IF S = {} THEN 0
                          ELSE al[Pick(S)] + TotalOf(al, S \ {Pick(S)})
  <1> DEFINE G(t) == CHOOSE g : AddsUp(g, al, t)
             R == S \ {Pick(S)}
  <1>1. IsFiniteSet(R) /\ R \subseteq S
    BY FS_Subset
  <1>2. AddsUp(G(S), al, S) /\ AddsUp(G(R), al, R)
    <2>1. \A t : (\E g : AddsUp(g, al, t)) => AddsUp(G(t), al, t)
      OBVIOUS
    <2> HIDE DEF R, G
    <2>2. QED
      BY <2>1, <1>1, AddsUpExists
  <1> HIDE DEF G
  <1>3. G(S)[S] = IF S = {} THEN 0 ELSE al[Pick(S)] + G(S)[R]
    BY <1>2 DEF AddsUp
  <1> HIDE DEF R
  <1>4. G(S)[R] = G(R)[R]
    BY <1>1, <1>2, AddsUpUnique
  <1>5. QED
    BY <1>3, <1>4 DEF TotalOf, G, R

\* Totals of integers are integers.
LEMMA TotalType ==
  ASSUME NEW al, NEW S, IsFiniteSet(S), \A x \in S : al[x] \in Int
  PROVE  TotalOf(al, S) \in Int
  <1> DEFINE T == { t \in SUBSET S : TotalOf(al, t) \notin Int }
  <1>1. SUFFICES ASSUME T # {} PROVE FALSE
    OBVIOUS
  <1>2. PICK s \in T : \A t \in T : t \subseteq s => t = s
    <2>1. T \in SUBSET SUBSET S
      OBVIOUS
    <2> HIDE DEF T
    <2>2. QED
      BY <1>1, <2>1, SmallestSet
  <1>3. s \subseteq S /\ TotalOf(al, s) \notin Int /\ IsFiniteSet(s)
    BY <1>2, FS_Subset
  <1>4. s # {} /\ TotalOf(al, s) = al[Pick(s)] + TotalOf(al, s \ {Pick(s)})
    BY <1>3, TotalStep
  <1>5. Pick(s) \in s /\ TotalOf(al, s \ {Pick(s)}) \in Int
    BY <1>2, <1>3, <1>4, Picked
  <1>6. QED
    BY <1>3, <1>4, <1>5

\* The order of adding up does not matter.
LEMMA TotalWithout ==
  ASSUME NEW al, NEW S, IsFiniteSet(S), \A x \in S : al[x] \in Int, NEW b \in S
  PROVE  TotalOf(al, S) = al[b] + TotalOf(al, S \ {b})
  <1> DEFINE T == { t \in SUBSET S : \E x \in t : TotalOf(al, t) # al[x] + TotalOf(al, t \ {x}) }
  <1>1. SUFFICES ASSUME T # {} PROVE FALSE
    OBVIOUS
  <1>2. PICK s \in T : \A t \in T : t \subseteq s => t = s
    <2>1. T \in SUBSET SUBSET S
      OBVIOUS
    <2> HIDE DEF T
    <2>2. QED
      BY <1>1, <2>1, SmallestSet
  <1>3. PICK x \in s : TotalOf(al, s) # al[x] + TotalOf(al, s \ {x})
    BY <1>2
  <1>4. s \subseteq S /\ \A t \in SUBSET s : IsFiniteSet(t)
    BY <1>2, FS_Subset
  <1> DEFINE p == Pick(s)
  <1>5. p \in s /\ TotalOf(al, s) = al[p] + TotalOf(al, s \ {p})
    BY <1>3, <1>4, TotalStep, Picked
  <1> HIDE DEF p
  <1>6. p # x
    BY <1>3, <1>5
  <1>7. TotalOf(al, s \ {p}) = al[x] + TotalOf(al, s \ {p, x})
    <2>1. s \ {p} \notin T /\ s \ {p} \in SUBSET S /\ x \in s \ {p}
      BY <1>2, <1>4, <1>5, <1>6
    <2>2. (s \ {p}) \ {x} = s \ {p, x}
      OBVIOUS
    <2>3. QED
      BY <2>1, <2>2
  <1>8. TotalOf(al, s \ {x}) = al[p] + TotalOf(al, s \ {p, x})
    <2>1. s \ {x} \notin T /\ s \ {x} \in SUBSET S /\ p \in s \ {x}
      BY <1>2, <1>4, <1>5, <1>6
    <2>2. (s \ {x}) \ {p} = s \ {p, x}
      OBVIOUS
    <2>3. QED
      BY <2>1, <2>2
  <1>9. TotalOf(al, s \ {p, x}) \in Int /\ al[x] \in Int /\ al[p] \in Int
    <2>1. IsFiniteSet(s \ {p, x}) /\ \A y \in s \ {p, x} : al[y] \in Int
      BY <1>4
    <2>2. QED
      BY <2>1, <1>4, <1>5, TotalType
  <1>10. QED
    BY <1>3, <1>5, <1>7, <1>8, <1>9

\* Only the elements of the set count.
LEMMA TotalSame ==
  ASSUME NEW al, NEW be, NEW S, IsFiniteSet(S), \A x \in S : al[x] = be[x]
  PROVE  TotalOf(al, S) = TotalOf(be, S)
  <1> DEFINE T == { t \in SUBSET S : TotalOf(al, t) # TotalOf(be, t) }
  <1>1. SUFFICES ASSUME T # {} PROVE FALSE
    OBVIOUS
  <1>2. PICK s \in T : \A t \in T : t \subseteq s => t = s
    <2>1. T \in SUBSET SUBSET S
      OBVIOUS
    <2> HIDE DEF T
    <2>2. QED
      BY <1>1, <2>1, SmallestSet
  <1>3. s \subseteq S /\ IsFiniteSet(s)
    BY <1>2, FS_Subset
  <1>4. s # {} /\ TotalOf(al, s) = al[Pick(s)] + TotalOf(al, s \ {Pick(s)})
               /\ TotalOf(be, s) = be[Pick(s)] + TotalOf(be, s \ {Pick(s)})
    BY <1>2, <1>3, TotalStep
  <1>5. Pick(s) \in s
    BY <1>4, Picked
  <1>6. TotalOf(al, s \ {Pick(s)}) = TotalOf(be, s \ {Pick(s)})
    BY <1>2, <1>3, <1>5
  <1>7. QED
    BY <1>2, <1>3, <1>4, <1>5, <1>6

-----------------------------------------------------------------------------
(***************************************************************************)
(* allocated_ is exact.                                                    *)
(***************************************************************************)
\* What is known of the allocations, disturbed or not.
Ledger ==
  /\ IsFiniteSet(Live)
  /\ \A b \in Live : allocations[b] \in Int
  /\ unswept \subseteq Live
  /\ allocated = TotalOf(allocations, Live)

\* do_allocate adds an entry and its bytes.
AddsEntry ==
  \E b \in Block \ Live, n \in Int :
    /\ allocations' = [x \in Live \cup {b} |-> IF x = b THEN n ELSE allocations[x]]
    /\ allocated' = allocated + n
    /\ unswept' = unswept

\* sweep() removes an entry, deallocate its bytes.
RemovesEntry ==
  \E b \in unswept :
    /\ allocations' = [x \in Live \ {b} |-> allocations[x]]
    /\ allocated' = allocated - allocations[b]
    /\ unswept' = unswept \ {b}

\* Everything else leaves both alone.
KeepsEntries ==
  /\ UNCHANGED <<allocations, allocated>>
  /\ unswept' \subseteq unswept \cup Live

LEMMA LedgerSteps == [Next]_vars => AddsEntry \/ RemovesEntry \/ KeepsEntries
  <1> SUFFICES ASSUME [Next]_vars PROVE AddsEntry \/ RemovesEntry \/ KeepsEntries
    OBVIOUS
  <1>1. CASE Move
    BY <1>1 DEF Move, Mov, MovImm, Lda, Sta, Compute, OnlyRegisters, NoAllocation, colVars, KeepsEntries
  <1>2. CASE Access
    <2>1. NoAllocation => KeepsEntries
      BY DEF NoAllocation, colVars, KeepsEntries
    <2>2. ASSUME NEW rs \in Reg, ArrLength(rs) PROVE NoAllocation
      BY <2>2 DEF ArrLength, OnlyRegisters
    <2>3. ASSUME NEW rd, NEW rs, NEW c, NEW f, Ldfield(rd, rs, c, f) \/ Stfield(rd, rs, c, f)
          PROVE  NoAllocation
      BY <2>3 DEF Ldfield, Stfield, OnlyRegisters
    <2>4. ASSUME NEW r, NEW i, NEW k, ArrLda(r, i, k) \/ ArrSta(r, i, k) PROVE NoAllocation
      BY <2>4 DEF ArrLda, ArrSta, OnlyRegisters
    <2>5. NullAccess => NoAllocation
      BY DEF NullAccess
    <2>6. QED
      BY <1>2, <2>1, <2>2, <2>3, <2>4, <2>5 DEF Access
  <1>3. CASE Control
    BY <1>3 DEF Control, Ret, Call, OnlyRegisters, NoAllocation, colVars, KeepsEntries
  <1>4. CASE TriggerGC
    BY <1>4 DEF TriggerGC, colVars, KeepsEntries
  <1>5. CASE Collect
    <2>1. ASSUME NEW b \in Block, Free(b) PROVE RemovesEntry
      BY <2>1 DEF Free, RemovesEntry
    <2>2. QED
      BY <1>5, <2>1
      DEF Collect, GCNext, MarkRoot, NextRoot, MarkSlot, CollectRoots, SkipRoot, MarkString,
          MarkArray, MissStaleArray, MarkClass, WildRoot, SkipSlot, Descend, WildSlot, Return,
          StartSweep, Keep, StartUnmark, Finish, KeepsEntries
  <1>6. CASE New
    <2>1. ASSUME NEW b \in Block, NEW n \in Int, NEW o, Place(b, n, o) PROVE AddsEntry
      BY <2>1 DEF Place, Available, colVars, AddsEntry
    <2>2. ASSUME NEW n, Exhausted(n) PROVE KeepsEntries
      BY <2>2 DEF Exhausted, colVars, KeepsEntries
    <2>3. CASE NewString
      <3>1. 24 + StrLen \in Int
        BY HeapAssumption
      <3>2. QED
        BY <2>1, <2>2, <2>3, <3>1 DEF NewString
    <2>4. ASSUME NEW rd \in Reg, NEW c \in Class, ObjNew(rd, c)
          PROVE  AddsEntry \/ KeepsEntries
      <3>1. 16 + 8 * Len(FieldClass[c]) \in Int
        BY HeapAssumption
      <3>2. QED
        BY <2>1, <2>2, <2>4, <3>1 DEF ObjNew
    <2>5. ASSUME NEW rd \in Reg, NEW k \in 0 .. NumClasses, NEW size \in ArrSizes,
                 ArrNew(rd, k, size)
          PROVE  AddsEntry \/ KeepsEntries
      <3>1. 20 + 8 * size \in Int
        BY VMAssumption
      <3>2. QED
        BY <2>1, <2>2, <2>5, <3>1 DEF ArrNew
    <2>6. QED
      BY <1>6, <2>3, <2>4, <2>5 DEF New, LdaStr, Substr, Concat
  <1>7. CASE UNCHANGED vars
    BY <1>7 DEF vars, gcVars, KeepsEntries
  <1>8. QED
    BY <1>1, <1>2, <1>3, <1>4, <1>5, <1>6, <1>7 DEF Next

LEMMA LedgerKept == Ledger /\ [Next]_vars => Ledger'
  <1> SUFFICES ASSUME Ledger, [Next]_vars PROVE Ledger'
    OBVIOUS
  <1>1. CASE AddsEntry
    <2>1. PICK b \in Block \ Live, n \in Int :
            /\ allocations' = [x \in Live \cup {b} |-> IF x = b THEN n ELSE allocations[x]]
            /\ allocated' = allocated + n
            /\ unswept' = unswept
      BY <1>1 DEF AddsEntry
    <2>2. Live' = Live \cup {b} /\ b \notin Live
      BY <2>1 DEF Live
    <2>3. IsFiniteSet(Live') /\ unswept' \subseteq Live'
      BY <2>1, <2>2, FS_AddElement DEF Ledger
    <2>4. /\ allocations'[b] = n
          /\ \A x \in Live : allocations'[x] = allocations[x]
          /\ \A x \in Live' : allocations'[x] \in Int
      BY <2>1, <2>2 DEF Ledger
    <2>5. TotalOf(allocations', Live') = n + TotalOf(allocations', Live' \ {b})
      BY <2>2, <2>3, <2>4, TotalWithout
    <2>6. TotalOf(allocations', Live) = TotalOf(allocations, Live)
      BY <2>4, TotalSame DEF Ledger
    <2>7. TotalOf(allocations, Live) \in Int /\ allocated = TotalOf(allocations, Live)
      BY TotalType DEF Ledger
    <2>r. Live' \ {b} = Live
      BY <2>2
    <2>8. allocated' = TotalOf(allocations', Live')
      <3>1. TotalOf(allocations', Live') = n + TotalOf(allocations, Live)
        BY <2>5, <2>6, <2>r
      <3> HIDE DEF Live
      <3>2. QED
        BY <3>1, <2>1, <2>7
    <2>9. QED
      BY <2>3, <2>4, <2>8 DEF Ledger
  <1>2. CASE RemovesEntry
    <2>1. PICK b \in unswept :
            /\ allocations' = [x \in Live \ {b} |-> allocations[x]]
            /\ allocated' = allocated - allocations[b]
            /\ unswept' = unswept \ {b}
      BY <1>2 DEF RemovesEntry
    <2>2. Live' = Live \ {b} /\ b \in Live
      BY <2>1 DEF Live, Ledger
    <2>3. IsFiniteSet(Live') /\ unswept' \subseteq Live'
      BY <2>1, <2>2, FS_RemoveElement DEF Ledger
    <2>4. \A x \in Live' : allocations'[x] = allocations[x] /\ allocations'[x] \in Int
      BY <2>1, <2>2 DEF Ledger
    <2>5. TotalOf(allocations, Live) = allocations[b] + TotalOf(allocations, Live')
      BY <2>2, TotalWithout DEF Ledger
    <2>6. TotalOf(allocations', Live') = TotalOf(allocations, Live')
      BY <2>3, <2>4, TotalSame
    <2>7. TotalOf(allocations', Live') \in Int /\ allocations[b] \in Int
      BY <2>2, <2>3, <2>4, TotalType DEF Ledger
    <2>8. allocated' = TotalOf(allocations', Live')
      BY <2>1, <2>5, <2>6, <2>7 DEF Ledger
    <2>9. QED
      BY <2>3, <2>4, <2>8 DEF Ledger
  <1>3. CASE KeepsEntries
    BY <1>3 DEF KeepsEntries, Ledger, Live
  <1>4. QED
    BY <1>1, <1>2, <1>3, LedgerSteps

\* allocated_ is the sum of the allocations in the list, whatever the program
\* does, and however the heap looks to the collector.
THEOREM AllocationsAddUp == Spec => []Accounting
  <1>1. Init => Ledger
    <2> SUFFICES ASSUME Init PROVE Ledger
      OBVIOUS
    <2>1. Live = {} /\ allocated = 0 /\ unswept = {}
      BY DEF Init, Live
    <2>2. IsFiniteSet(Live) /\ TotalOf(allocations, Live) = 0
      BY <2>1, FS_EmptySet, TotalStep
    <2>3. QED
      BY <2>1, <2>2 DEF Ledger
  <1>2. Ledger => Accounting
    BY DEF Ledger, Accounting, MapThenSumSet, MapThenFoldSet, TotalOf, AddsUp, Pick
  <1>3. QED
    BY <1>1, <1>2, LedgerKept, PTL DEF Spec

=============================================================================
