----------------------------- MODULE InstrCode -----------------------------
(***************************************************************************)
(* The binary code of one instruction: the assembler's Instr<op> packs the *)
(* operands into bin_code_, setOffset adds the offset of a jump, and the   *)
(* interpreter's Instr<op> takes them out again.  The two classes are      *)
(* generated by two programs from the table isa.yaml.                      *)
(*                                                                         *)
(* A word is the set of its bits that are 1.                               *)
(***************************************************************************)
EXTENDS Integers

CONSTANT Value      \* operands, as 64-bit words

ASSUME InstrCodeAssumption == Value \subseteq SUBSET (0 .. 63)

Bits(n) == 0 .. n - 1

-----------------------------------------------------------------------------
(***************************************************************************)
(* isa.yaml.                                                               *)
(***************************************************************************)
Field(lo, hi)  == [lo |-> lo, hi |-> hi, is_signed |-> FALSE]
Signed(lo, hi) == [lo |-> lo, hi |-> hi, is_signed |-> TRUE]

\* The instructions of one layout: their opcodes, size in bits and fields.
Layout(opcodes, size, fields) ==
  { [name |-> n, opcode |-> opcodes[n], size |-> size, fields |-> fields] : n \in DOMAIN opcodes }

Plain == Layout([NOP |-> 1, RET |-> 18, I32TOF |-> 30, FTOI32 |-> 31],
                8, [f \in {} |-> Field(0, 0)])

Arithmetic ==
  Layout([ LDA |-> 5, ADD_I32 |-> 9, ADD_F |-> 10, SUB_I32 |-> 11, SUB_F |-> 12, MOD |-> 13,
           DIV_I32 |-> 14, DIV_F |-> 15, MUL_I32 |-> 16, MUL_F |-> 17, ARR_LENGTH |-> 33,
           CMP_EQ_I32 |-> 43, CMP_GG_I32 |-> 44, CMP_LL_I32 |-> 45 ],
         16, [rs |-> Field(8, 15)])
  \cup Layout([STA |-> 8], 16, [rd |-> Field(8, 15)])

Moves ==
  Layout([MOV |-> 2], 32, [rs |-> Field(8, 15), rd |-> Field(16, 23)])
  \cup Layout([MOV_IMM_I32 |-> 3], 64, [rd |-> Field(8, 15), imm_i32 |-> Signed(32, 63)])
  \cup Layout([MOV_IMM_F |-> 4], 64, [rd |-> Field(8, 15), imm_f |-> Field(32, 63)])
  \cup Layout([LDA_IMM_I32 |-> 6], 64, [imm_i32 |-> Signed(32, 63)])
  \cup Layout([LDA_IMM_F |-> 7], 64, [imm_f |-> Field(32, 63)])

Intrinsic ==
  Layout([INTRINSIC |-> 19], 64,
         [ intrinsic_code  |-> Field(8, 23),
           intrinsic_arg_0 |-> Field(32, 39), intrinsic_arg_1 |-> Field(40, 47),
           intrinsic_arg_2 |-> Field(48, 55), intrinsic_arg_3 |-> Field(56, 63) ])

JumpInstrs ==
  Layout([JUMP |-> 20], 64, [jump_offset |-> Signed(8, 63)])
  \cup Layout([JUMP_GG |-> 21, JUMP_EQ |-> 22, JUMP_NOT_EQ |-> 23, JUMP_LL |-> 24],
              64, [rs |-> Field(8, 15), jump_offset |-> Signed(16, 63)])

Calls ==
  Layout([CALL_0ARG |-> 25], 32, [func_id |-> Field(8, 31)])
  \cup Layout([CALL_1ARG |-> 26], 64, [func_id |-> Field(8, 31), func_arg0 |-> Field(32, 39)])
  \cup Layout([CALL_2ARG |-> 27], 64, [ func_id   |-> Field(8, 31),  func_arg0 |-> Field(32, 39),
                                        func_arg1 |-> Field(40, 47) ])
  \cup Layout([CALL_3ARG |-> 28], 64, [ func_id   |-> Field(8, 31),  func_arg0 |-> Field(32, 39),
                                        func_arg1 |-> Field(40, 47), func_arg2 |-> Field(48, 55) ])
  \cup Layout([CALL_4ARG |-> 29], 64, [ func_id   |-> Field(8, 31),  func_arg0 |-> Field(32, 39),
                                        func_arg1 |-> Field(40, 47), func_arg2 |-> Field(48, 55),
                                        func_arg3 |-> Field(56, 63) ])

Strings == Layout([LDA_STR |-> 32], 32, [str_id |-> Field(8, 23)])

Arrays ==
  Layout([ARR_NEW_I32 |-> 34, ARR_NEW_F |-> 35, ARR_STA_I32 |-> 40, ARR_STA_F |-> 41, ARR_STA_REF |-> 42],
         32, [rd |-> Field(8, 15), rs |-> Field(16, 23)])
  \cup Layout([ARR_NEW_REF |-> 36], 64, [ rd |-> Field(8, 15), rs |-> Field(16, 23),
                                          class_id |-> Field(24, 47) ])
  \cup Layout([ARR_LDA_I32 |-> 37, ARR_LDA_F |-> 38, ARR_LDA_REF |-> 39],
              32, [rs1 |-> Field(8, 15), rs2 |-> Field(16, 23)])

\* Mutant of Objects: STFIELD with the opcode of LDFIELD.
ObjectsOneOpcode ==
  Layout([OBJ_NEW |-> 46], 64, [rd |-> Field(8, 15), class_id |-> Field(32, 63)])
  \cup Layout([LDFIELD |-> 47, STFIELD |-> 47], 64,
              [ rd |-> Field(8, 15), rs |-> Field(16, 23),
                class_id |-> Field(24, 47), field_id |-> Field(48, 63) ])

Objects ==
  Layout([OBJ_NEW |-> 46], 64, [rd |-> Field(8, 15), class_id |-> Field(32, 63)])
  \cup Layout([LDFIELD |-> 47, STFIELD |-> 48], 64,
              [ rd |-> Field(8, 15), rs |-> Field(16, 23),
                class_id |-> Field(24, 47), field_id |-> Field(48, 63) ])

Instrs == Plain \cup Arithmetic \cup Moves \cup Intrinsic \cup JumpInstrs \cup Calls
          \cup Strings \cup Arrays \cup Objects

IsJump(i) == i \in JumpInstrs

Width(field) == field.hi - field.lo + 1

-----------------------------------------------------------------------------
(***************************************************************************)
(* The generated classes.                                                  *)
(***************************************************************************)
\* Bits of what the parser passes for a field: a register is an R8Id, a code
\* a byte, a string id 16 bits, other ids and a float 32, the rest int64_t.
OperandBits(f) ==
  CASE f = "str_id" -> 16
    [] f \in {"func_id", "class_id", "field_id", "imm_f"} -> 32
    [] f \in {"imm_i32", "jump_offset"} -> 64
    [] OTHER -> 8

\* What the constructor is given for a field; for a jump offset it is 0.
Operand(f)  == { v \in Value : v \subseteq Bits(OperandBits(f)) }
Argument(f) == IF f = "jump_offset" THEN {{}} ELSE Operand(f)

Arguments(i) ==
  { ops \in [DOMAIN i.fields -> UNION { Argument(f) : f \in DOMAIN i.fields }] :
      \A f \in DOMAIN i.fields : ops[f] \in Argument(f) }

\* Mutant of Write: the operand is not masked.
WriteUnmasked(i, f, v) ==
  { b + i.fields[f].lo : b \in v } \cap Bits(i.size)

\* The operand, masked to the width of its field, shifted to its place, and
\* cut to the size of bin_code_.
Write(i, f, v) ==
  { b + i.fields[f].lo : b \in v \cap Bits(Width(i.fields[f])) } \cap Bits(i.size)

Opcode(i) == { b \in Bits(8) : (i.opcode \div 2 ^ b) % 2 = 1 }

VARIABLES
  stage,        \* "none", "built" (Instr constructed) or "resolved" (setOffset)
  instr, operands, bin_code_

vars == <<stage, instr, operands, bin_code_>>

Init ==
  /\ stage = "none"
  /\ instr \in Plain
  /\ operands = [f \in {} |-> {}]
  /\ bin_code_ = {}

\* The constructor.
Construct ==
  /\ stage = "none"
  /\ \E i \in Instrs : \E ops \in Arguments(i) :
       /\ instr' = i
       /\ operands' = ops
       /\ bin_code_' = Opcode(i) \cup UNION { Write(i, f, ops[f]) : f \in DOMAIN i.fields }
  /\ stage' = "built"

\* Or-ed into bin_code_: right because the constructor left zeros there.
setOffset ==
  /\ stage = "built"
  /\ IsJump(instr)
  /\ \E offset \in Operand("jump_offset") :
       /\ operands' = [operands EXCEPT !["jump_offset"] = offset]
       /\ bin_code_' = bin_code_ \cup Write(instr, "jump_offset", offset)
  /\ stage' = "resolved"
  /\ UNCHANGED instr

Next == Construct \/ setOffset

Spec == Init /\ [][Next]_vars

\* Shifts work on int when bin_code_ is shorter.
ShiftBits(i) == IF i.size < 32 THEN 32 ELSE i.size

\* bin_code_ << right_shift >> left_shift
Cut(i, field, code) ==
  LET right_shift == i.size - field.hi - 1
      left_shift  == field.lo + right_shift
      shifted     == { b + right_shift : b \in code } \cap Bits(ShiftBits(i))
  IN  { b - left_shift : b \in { c \in shifted : c >= left_shift } }

signExtend(v, sign_idx) ==
  LET value == v \cap Bits(sign_idx + 1)
  IN  IF sign_idx \in value THEN value \cup (sign_idx .. 63) ELSE value

Get(f) ==
  LET field == instr.fields[f]
      value == Cut(instr, field, bin_code_)
  IN  IF field.is_signed THEN signExtend(value, Width(field) - 1) ELSE value

getOpcode == bin_code_ \cap Bits(8)

-----------------------------------------------------------------------------
(***************************************************************************)
(* Properties.                                                             *)
(***************************************************************************)
Complete == stage = (IF IsJump(instr) THEN "resolved" ELSE "built")

\* v is a value of the field's type.
Fits(v, field) ==
  IF field.is_signed
  THEN \A b \in Width(field) .. 63 : b \in v <=> Width(field) - 1 \in v
  ELSE v \subseteq Bits(Width(field))

\* The interpreter's getter returns what the assembler was given, whatever
\* the other operands are, if it fits the field: no two fields of a layout
\* overlap, both generators shift by the same amounts, negative offsets and
\* immediates come back negative.
OperandsSurvive ==
  Complete => \A f \in DOMAIN instr.fields :
                Fits(operands[f], instr.fields[f]) => Get(f) = operands[f]

\* The dispatch table leads to the handler of the instruction assembled:
\* opcodes are distinct and no operand touches them.
Dispatches ==
  Complete => { i \in Instrs : Opcode(i) = getOpcode } = {instr}

=============================================================================
