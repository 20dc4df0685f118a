---------------------------- MODULE Int32Machine ----------------------------
(***************************************************************************)
(* What the instructions of the toy language's programs mean: a machine    *)
(* whose registers, accumulator and array elements hold integers of 32     *)
(* bits or references to arrays, not words, and whose arithmetic is that   *)
(* of the source language.  Only creating an array makes a reference; what *)
(* is computed, from references too, is an integer.                        *)
(***************************************************************************)
EXTENDS LangValue, LangCode

CONSTANT Inputs   \* integers that intrinsic.scan may read

VARIABLES
  build,    \* the code
  status,   \* "source", "compiled", "run", "done" or "undef"
  pc, acc,
  frames,   \* activations [regs, ret]
  arrays,   \* sequences of values
  out,      \* what has been printed
  result    \* the accumulator at the last return

vars == <<build, status, pc, acc, frames, arrays, out, result>>

Init ==
  /\ status = "source" /\ pc = 0 /\ acc = Integer(0) /\ frames = <<>> /\ arrays = <<>>
  /\ out = <<>> /\ result = Integer(0)

Receive ==
  /\ status = "source" /\ status' = "compiled"
  /\ UNCHANGED <<pc, acc, frames, arrays, out, result>>

Load ==
  /\ status = "compiled" /\ status' = "run"
  /\ \E fn \in DOMAIN build.funcs :
       /\ build.funcs[fn].name = "main" /\ FuncWithId(build.funcs, build.funcs[fn].id) = fn
       /\ pc' = build.funcs[fn].start
  /\ frames' = <<[regs |-> Empty, ret |-> -1]>>
  /\ UNCHANGED <<build, acc, arrays, out, result>>

-----------------------------------------------------------------------------
Depth  == Len(frames)
Regs   == frames[Depth].regs
Instr  == build.code[pc]
Next1  == pc + ByteSize(Instr.op)
Reg(i) == IF Instr.r[i] \in DOMAIN Regs THEN Regs[Instr.r[i]] ELSE Integer(0)

At(ops) == status = "run" /\ pc \in DOMAIN build.code /\ Instr.op \in ops

\* Operand i becomes x.
Sets(i, x) ==
  /\ pc' = Next1
  /\ frames' = [frames EXCEPT ![Depth].regs =
                  [r \in DOMAIN Regs \cup {Instr.r[i]} |-> IF r = Instr.r[i] THEN x ELSE Regs[r]]]
  /\ UNCHANGED <<build, status, acc, out, result>>

\* The accumulator becomes x.
Leaves(x) == acc' = x /\ pc' = Next1 /\ UNCHANGED <<build, status, frames, arrays, out, result>>

Move == /\ \/ At({"MOV"}) /\ Sets(2, Reg(1))
           \/ At({"MOV_IMM_I32"}) /\ Sets(1, Integer(Wrap(Instr.imm)))
           \/ At({"STA"}) /\ Sets(1, acc)
        /\ UNCHANGED arrays

\* Sizes and positions are integers without sign.
Unsigned(v) == v.int % Modulus

New == /\ At({"ARR_NEW_I32"}) /\ Len(arrays) < Len(Address)
       /\ arrays' = Append(arrays, [i \in 1 .. Unsigned(Reg(2)) |-> Integer(0)])
       /\ Sets(1, Reference(Len(arrays')))

\* The operators of the source that instructions compute.
Operator == [ADD_I32 |-> "+", SUB_I32 |-> "-", MUL_I32 |-> "*", DIV_I32 |-> "/",
             CMP_EQ_I32 |-> "==", CMP_GG_I32 |-> ">", CMP_LL_I32 |-> "<"]

Results == Apply(Operator[Instr.op], acc.int, Reg(1).int)

\* The element that operands 1 and 2 name.
Array   == Reg(1).array
Index   == Unsigned(Reg(2)) + 1
Inside  == Array \in DOMAIN arrays /\ Index \in DOMAIN arrays[Array]

Read ==
  \/ At({"LDA"}) /\ Leaves(Reg(1))
  \/ At(DOMAIN Operator) /\ \E x \in Results : Leaves(Integer(x))
  \/ At({"INTRINSIC"}) /\ Instr.imm = "SCAN_I32" /\ \E x \in Inputs : Leaves(Integer(x))
  \/ At({"ARR_LDA_I32"}) /\ Inside /\ Leaves(arrays[Array][Index])

Write ==
  /\ pc' = Next1
  /\ \/ /\ At({"INTRINSIC"}) /\ Instr.imm = "PRINT_I32"
        /\ out' = Append(out, Reg(1).int) /\ UNCHANGED arrays
     \/ /\ At({"ARR_STA_I32"}) /\ Inside
        /\ arrays' = [arrays EXCEPT ![Array][Index] = acc] /\ UNCHANGED out
  /\ UNCHANGED <<build, status, acc, frames, result>>

Trap ==
  /\ \/ At(DOMAIN Operator) /\ Results = {}
     \/ At({"ARR_LDA_I32", "ARR_STA_I32"}) /\ ~Inside
  /\ status' = "undef"
  /\ UNCHANGED <<build, pc, acc, frames, arrays, out, result>>

Jump ==
  /\ At({"JUMP", "JUMP_EQ"})
  /\ pc' = IF Instr.op = "JUMP" \/ acc.int = Reg(1).int THEN pc + Instr.imm ELSE Next1
  /\ UNCHANGED <<build, status, acc, frames, arrays, out, result>>

\* The callee finds the arguments, and nothing else, in its registers.
Call ==
  /\ At(CallOps)
  /\ frames' = Append(frames, [regs |-> [x \in { ArgReg(i) : i \in DOMAIN Instr.r } |-> Reg(NumRegs - x)],
                               ret  |-> Next1])
  /\ pc' = build.funcs[FuncWithId(build.funcs, Instr.imm)].start
  /\ UNCHANGED <<build, status, acc, arrays, out, result>>

\* The caller finds its registers as it left them.
Ret ==
  /\ At({"RET"}) /\ result' = acc
  /\ IF frames[Depth].ret = -1
     THEN status' = "done" /\ UNCHANGED <<pc, frames>>
     ELSE pc' = frames[Depth].ret /\ frames' = SubSeq(frames, 1, Depth - 1) /\ UNCHANGED status
  /\ UNCHANGED <<build, acc, arrays, out>>

Next == Receive \/ Load \/ Move \/ New \/ Read \/ Write \/ Trap \/ Jump \/ Call \/ Ret

Spec == Init /\ [][Next]_vars

=============================================================================
