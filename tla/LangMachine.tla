---------------------------- MODULE LangMachine ----------------------------
(***************************************************************************)
(* The virtual machine as programs of the toy language use it: the tables  *)
(* of functions, frames, and the handlers of the instructions the code     *)
(* generator emits for integers and arrays, on words of two halves         *)
(* (Arith32).  The code is any that is well formed (LangCode); Lang gives  *)
(* the machine what the compiler makes of programs.                        *)
(*                                                                         *)
(* Addresses are words like any other, which the program can move, pass on *)
(* and compute with; the array at Address[k] is arrays[k] (LangValue).     *)
(* What the collector and the allocator do with arrays is left to          *)
(* ShrimpVM.                                                               *)
(***************************************************************************)
EXTENDS LangValue, LangCode

CONSTANTS
  Var,      \* names of variables
  Inputs    \* integers that intrinsic.scan may read

ASSUME InputsAssumption == Inputs \subseteq Int32

VARIABLES
  build,    \* what the compiler wrote: code and functions
  status,   \* "source", "compiled", then of the VM "run", "done" or "undef"
  pc, acc,
  stack,    \* frames [fn, regs, ret, seen]; seen, a history variable, is the
            \* statement the frame is at and the variables when it got there
  arrays,   \* arrays on the heap, sequences of words
  out,      \* what PRINT has written
  result    \* history variable: the accumulator at the last RET

machine == <<build, status, pc, acc, stack, arrays, out, result>>

Zero     == castToWritable(0)
NoBuild  == [code |-> Empty, funcs |-> <<>>]

MachineInit ==
  /\ build = NoBuild
  /\ status = "source"
  /\ pc = 0
  /\ acc = Zero
  /\ stack = <<>>
  /\ arrays = <<>>
  /\ out = <<>>
  /\ result = Integer(0)

\* The file the VM is given: any code that is well formed.
Receive ==
  /\ status = "source"
  /\ status' = "compiled"
  /\ WellFormed(build')
  /\ UNCHANGED <<pc, acc, stack, arrays, out, result>>

-----------------------------------------------------------------------------
\* Registers that were never written are zero.
GetReg(regs, r)    == IF r \in DOMAIN regs THEN regs[r] ELSE Zero
SetReg(regs, r, w) == [x \in DOMAIN regs \cup {r} |-> IF x = r THEN w ELSE regs[x]]

\* What the variables of function fn stand for, given its registers.
Variables(fn, regs) ==
  [v \in Var |-> IF v \in DOMAIN build.funcs[fn].regs
                 THEN ValueOf(GetReg(regs, build.funcs[fn].regs[v].reg))
                 ELSE Integer(0)]

\* A frame in which control has come to offset p.
Arrived(frame, p) ==
  LET marks == build.funcs[frame.fn].marks
  IN  IF \E i \in DOMAIN marks : marks[i] = p
      THEN [frame EXCEPT !.seen = [at  |-> CHOOSE i \in DOMAIN marks : marks[i] = p,
                                   env |-> Variables(frame.fn, frame.regs)]]
      ELSE frame

NewFrame(fn, regs, ret) ==
  Arrived([fn |-> fn, regs |-> regs, ret |-> ret, seen |-> [at |-> 0, env |-> Variables(fn, regs)]],
          build.funcs[fn].start)

\* ShrimpVM's constructor, after the file is read back.  Of the functions
\* with one id only the first is entered in the table main is looked up in.
Load ==
  /\ status = "compiled"
  /\ \E fn \in DOMAIN build.funcs :
       /\ build.funcs[fn].name = "main"
       /\ FuncWithId(build.funcs, build.funcs[fn].id) = fn
       /\ stack' = <<NewFrame(fn, Empty, -1)>>
       /\ pc' = build.funcs[fn].start
  /\ status' = "run"
  /\ UNCHANGED <<build, acc, arrays, out, result>>

-----------------------------------------------------------------------------
Current == stack[Len(stack)]
Instr   == build.code[pc]
Rs(i)   == GetReg(Current.regs, Instr.r[i])    \* operand i of the instruction

Fetched(ops) == status = "run" /\ pc \in DOMAIN build.code /\ Instr.op \in ops

\* Continue at p in the same frame, with the registers regs.
Continue(p, regs) ==
  /\ pc' = p
  /\ stack' = [stack EXCEPT ![Len(stack)] = Arrived([@ EXCEPT !.regs = regs], p)]

Following == pc + ByteSize(Instr.op)

\* The handlers that only set a register.
SetsRegister(i, w) ==
  /\ Continue(Following, SetReg(Current.regs, Instr.r[i], w))
  /\ UNCHANGED <<build, status, acc, out, result>>

Mov    == Fetched({"MOV"}) /\ SetsRegister(2, Rs(1)) /\ UNCHANGED arrays
MovImm == Fetched({"MOV_IMM_I32"}) /\ SetsRegister(1, signExtend(Instr.imm)) /\ UNCHANGED arrays
Sta    == Fetched({"STA"}) /\ SetsRegister(1, acc) /\ UNCHANGED arrays

\* The size is cut to 32 bits.  The elements are what the arena holds, and
\* nothing initialises it: they are zero because the mapping is new.
ArrNew ==
  /\ Fetched({"ARR_NEW_I32"}) /\ Len(arrays) < Len(Address)
  /\ arrays' = Append(arrays, [i \in 1 .. Rs(2).lo |-> Zero])
  /\ SetsRegister(1, Address[Len(arrays')])

\* The handlers that only set the accumulator.
SetsAcc(w) ==
  /\ acc' = w
  /\ Continue(Following, Current.regs)
  /\ UNCHANGED <<build, status, arrays, out, result>>

Lda == Fetched({"LDA"}) /\ SetsAcc(Rs(1))

Results ==
  CASE Instr.op = "ADD_I32"    -> AddI32(acc, Rs(1))
    [] Instr.op = "SUB_I32"    -> SubI32(acc, Rs(1))
    [] Instr.op = "MUL_I32"    -> MulI32(acc, Rs(1))
    [] Instr.op = "DIV_I32"    -> DivI32(acc, Rs(1))
    [] Instr.op = "CMP_EQ_I32" -> CmpEqI32(acc, Rs(1))
    [] Instr.op = "CMP_GG_I32" -> CmpGgI32(acc, Rs(1))
    [] Instr.op = "CMP_LL_I32" -> CmpLlI32(acc, Rs(1))

Compute == Fetched(Computing) /\ \E w \in Results : SetsAcc(w)

Scan ==
  /\ Fetched({"INTRINSIC"}) /\ Instr.imm = "SCAN_I32"
  /\ \E x \in Inputs : SetsAcc(castToWritable(x))

PrintI32 ==
  /\ Fetched({"INTRINSIC"}) /\ Instr.imm = "PRINT_I32"
  /\ out' = Append(out, getValue(Rs(1)))
  /\ Continue(Following, Current.regs)
  /\ UNCHANGED <<build, status, acc, arrays, result>>

\* Mutant of ArrayIn: the address is cut to 32 bits, as integers are.
ArrayInLow(w) ==
  LET ks == { k \in DOMAIN Address : Address[k].lo = w.lo }
  IN  IF ks = {} THEN 0 ELSE CHOOSE k \in ks : TRUE

\* The address is all of a word, the position its low half, unsigned.
ArrayIn(w)     == ArrayNumber(w)
ArrayAt(w)     == arrays[ArrayIn(w)]
InBounds(a, i) == ArrayIn(a) \in DOMAIN arrays /\ i.lo + 1 \in DOMAIN ArrayAt(a)

ArrLda ==
  /\ Fetched({"ARR_LDA_I32"}) /\ InBounds(Rs(1), Rs(2))
  /\ SetsAcc(ArrayAt(Rs(1))[Rs(2).lo + 1])

ArrSta ==
  /\ Fetched({"ARR_STA_I32"}) /\ InBounds(Rs(1), Rs(2))
  /\ arrays' = [arrays EXCEPT ![ArrayIn(Rs(1))][Rs(2).lo + 1] = acc]
  /\ Continue(Following, Current.regs)
  /\ UNCHANGED <<build, status, acc, out, result>>

\* A division that raises a signal; an access outside the array, or through a
\* word that is not the address of one, which is undefined.
Trap ==
  /\ \/ Fetched(Computing) /\ Results = {}
     \/ Fetched({"ARR_LDA_I32", "ARR_STA_I32"}) /\ ~InBounds(Rs(1), Rs(2))
  /\ status' = "undef"
  /\ UNCHANGED <<build, pc, acc, stack, arrays, out, result>>

Jump ==
  /\ Fetched({"JUMP"})
  /\ Continue(pc + Instr.imm, Current.regs)
  /\ UNCHANGED <<build, status, acc, arrays, out, result>>

JumpEq ==
  /\ Fetched({"JUMP_EQ"})
  /\ Continue(IF getValue(acc) = getValue(Rs(1)) THEN pc + Instr.imm ELSE Following, Current.regs)
  /\ UNCHANGED <<build, status, acc, arrays, out, result>>

Call ==
  /\ Fetched(CallOps)
  /\ LET fn   == FuncWithId(build.funcs, Instr.imm)
         regs == [x \in { ArgReg(i) : i \in DOMAIN Instr.r } |-> Rs(NumRegs - x)]
     IN  /\ stack' = Append(stack, NewFrame(fn, regs, Following))
         /\ pc' = build.funcs[fn].start
  /\ UNCHANGED <<build, status, acc, arrays, out, result>>

\* Mutant of Ret: the frame stays.
RetKeepsFrame ==
  /\ Fetched({"RET"})
  /\ result' = ValueOf(acc)
  /\ IF Current.ret = -1 THEN status' = "done" /\ UNCHANGED <<pc, stack>>
     ELSE pc' = Current.ret /\ UNCHANGED <<status, stack>>
  /\ UNCHANGED <<build, acc, arrays, out>>

Ret ==
  /\ Fetched({"RET"})
  /\ result' = ValueOf(acc)
  /\ IF Current.ret = -1
     THEN status' = "done" /\ UNCHANGED <<pc, stack>>
     ELSE LET callers == SubSeq(stack, 1, Len(stack) - 1)
          IN  /\ pc' = Current.ret
              /\ stack' = [callers EXCEPT ![Len(callers)] = Arrived(@, Current.ret)]
              /\ UNCHANGED status
  /\ UNCHANGED <<build, acc, arrays, out>>

Exec == \/ Mov \/ MovImm \/ Sta \/ ArrNew \/ Lda \/ Compute \/ Scan \/ PrintI32 \/ ArrLda \/ ArrSta
        \/ Trap \/ Jump \/ JumpEq \/ Call \/ Ret

MachineNext == Receive \/ Load \/ Exec

MachineSpec == MachineInit /\ [][MachineNext]_machine

-----------------------------------------------------------------------------
(***************************************************************************)
(* Properties.                                                             *)
(***************************************************************************)
\* Types.
LangTypeOK ==
  /\ status \in {"source", "compiled", "run", "done", "undef"}
  /\ acc \in Word
  /\ \A i \in DOMAIN stack : \A r \in DOMAIN stack[i].regs :
       r \in Register /\ stack[i].regs[r] \in Word
  /\ \A k \in DOMAIN arrays : \A i \in DOMAIN arrays[k] : arrays[k][i] \in Word

\* While the program runs, control is at an instruction of the function of the
\* top frame, and every frame below is at the instruction after a call in its
\* own function: the jumps that are patched after the code they skip, the ids
\* of functions called before they are compiled, and the frames agree.
ControlInCode ==
  status = "run" =>
    /\ stack # <<>>
    /\ pc \in FuncCode(build, Current.fn)
    /\ stack[1].ret = -1
    /\ \A i \in 2 .. Len(stack) : stack[i].ret \in FuncCode(build, stack[i - 1].fn)

\* What the words in registers or arrays stand for.
Values(words) == [i \in DOMAIN words |-> ValueOf(words[i])]

Elements(as) == [k \in DOMAIN as |-> Values(as[k])]

Activation(frame) == [regs |-> Values(frame.regs), ret |-> frame.ret]

Activations(frames) == [i \in DOMAIN frames |-> Activation(frames[i])]

OnInt32 == INSTANCE Int32Machine WITH
  acc    <- ValueOf(acc),
  frames <- Activations(stack),
  arrays <- Elements(arrays)

\* The machine computes on int32_t and references: of a word only the number
\* getValue reads, and whether the whole is the address of an array that was
\* made, ever decides what a program does or writes, in whichever of its forms
\* a handler has left the number; and no computation yields an address.
ComputesOnInt32 == OnInt32!Spec

=============================================================================
