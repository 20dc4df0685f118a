------------------------------ MODULE LangCode ------------------------------
(***************************************************************************)
(* What the compiler of the toy language hands to the virtual machine: a   *)
(* record of                                                               *)
(*   code    instructions [op, r, imm] by offset                           *)
(*   funcs   functions [name, id, start, nargs, regs, marks], in the order *)
(*           of their code                                                 *)
(***************************************************************************)
EXTENDS Integers, Sequences

CONSTANT NumRegs   \* values of an R8Id, 256 in the code

ASSUME NumRegsAssumption == NumRegs \in Nat /\ NumRegs > 4

Register == 0 .. NumRegs - 1

Empty == [x \in {} |-> 0]

\* Bytes of an instruction.
ByteSize(op) ==
  CASE op = "RET" -> 1
    [] op \in {"MOV", "LDA_STR", "CALL_0ARG", "ARR_NEW_I32", "ARR_NEW_F", "ARR_LDA_I32",
               "ARR_LDA_F", "ARR_STA_I32", "ARR_STA_F"} -> 4
    [] op \in {"MOV_IMM_I32", "MOV_IMM_F", "JUMP", "JUMP_EQ", "INTRINSIC", "CALL_1ARG",
               "CALL_2ARG", "CALL_3ARG", "CALL_4ARG"} -> 8
    [] OTHER -> 2

\* The registers arguments are passed in: the last (255), the one before, ...
ArgReg(i) == NumRegs - i

\* resolveFunc: of the functions with one id the VM keeps the first.
FuncWithId(funcs, id) ==
  CHOOSE i \in DOMAIN funcs :
    funcs[i].id = id /\ \A j \in 1 .. i - 1 : funcs[j].id # id

-----------------------------------------------------------------------------
(***************************************************************************)
(* Code of programs of integers and arrays that the machine can run: the   *)
(* instructions it has handlers for in LangMachine, with their operands,   *)
(* and control that stays in the function.                                 *)
(***************************************************************************)
ArgCount  == [CALL_0ARG |-> 0, CALL_1ARG |-> 1, CALL_2ARG |-> 2, CALL_3ARG |-> 3, CALL_4ARG |-> 4]
CallOps   == DOMAIN ArgCount
Computing == {"ADD_I32", "SUB_I32", "MUL_I32", "DIV_I32", "CMP_EQ_I32", "CMP_GG_I32", "CMP_LL_I32"}
OneReg    == {"MOV_IMM_I32", "STA", "LDA", "JUMP_EQ"} \cup Computing
TwoRegs   == {"MOV", "ARR_NEW_I32", "ARR_LDA_I32", "ARR_STA_I32"}

\* The offsets of the instructions of function i.
FuncCode(b, i) ==
  { p \in DOMAIN b.code : /\ b.funcs[i].start <= p
                          /\ i < Len(b.funcs) => p < b.funcs[i + 1].start }

\* Each instruction has the registers it names.
HasOperands(in) ==
  \/ in.op \in OneReg /\ 1 \in DOMAIN in.r
  \/ in.op \in TwoRegs /\ {1, 2} \subseteq DOMAIN in.r
  \/ in.op = "INTRINSIC" /\ in.imm = "SCAN_I32"
  \/ in.op = "INTRINSIC" /\ in.imm = "PRINT_I32" /\ 1 \in DOMAIN in.r
  \/ in.op \in CallOps /\ DOMAIN in.r = 1 .. ArgCount[in.op]
  \/ in.op \in {"JUMP", "RET"}

\* Where control can go from an instruction at offset p, calls and returns apart.
Successors(in, p) ==
  (IF in.op \in {"JUMP", "RET"} THEN {} ELSE {p + ByteSize(in.op)})
    \cup (IF in.op \in {"JUMP", "JUMP_EQ"} THEN {p + in.imm} ELSE {})

InstrOK(in, funcs) ==
  /\ DOMAIN in = {"op", "r", "imm"}
  /\ HasOperands(in)
  /\ \A k \in DOMAIN in.r : in.r[k] \in Register
  /\ in.op = "MOV_IMM_I32" => in.imm \in Int
  /\ in.op \in CallOps => \E j \in DOMAIN funcs : funcs[j].id = in.imm

WellFormed(b) ==
  /\ DOMAIN b.code \subseteq Nat
  /\ DOMAIN b.funcs = 1 .. Len(b.funcs) /\ Len(b.funcs) \in Nat
  /\ \A i \in DOMAIN b.funcs :
       /\ DOMAIN b.funcs[i].marks \subseteq Nat
       /\ b.funcs[i].start \in FuncCode(b, i)
       /\ \A p \in FuncCode(b, i) :
            InstrOK(b.code[p], b.funcs) /\ Successors(b.code[p], p) \subseteq FuncCode(b, i)

=============================================================================
