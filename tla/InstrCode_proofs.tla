-------------------------- MODULE InstrCode_proofs --------------------------
(***************************************************************************)
(* Proof that operands survive encoding and decoding, and that the opcode  *)
(* selects the instruction, for every 64-bit value of every field of every *)
(* instruction.                                                            *)
(***************************************************************************)
EXTENDS InstrCode, TLAPS

Word == SUBSET (0 .. 63)

\* What the proof needs of a layout: fields lie above the opcode and inside
\* the word, do not overlap, and end at the top of a word of less than 32 bits,
\* whose getters do not cut what int has to the left of it.
FieldOK(size, field) ==
  /\ field.lo \in 8 .. 63 /\ field.hi \in 8 .. 63
  /\ field.lo <= field.hi /\ field.hi < size
  /\ size < 32 => field.hi = size - 1

Apart(x, y) == x.hi < y.lo \/ y.hi < x.lo

FieldsOK(size, fields) ==
  /\ size \in {8, 16, 32, 64}
  /\ \A f \in DOMAIN fields : FieldOK(size, fields[f])
  /\ \A f, g \in DOMAIN fields : f # g => Apart(fields[f], fields[g])

LEMMA LayoutFacts ==
  ASSUME NEW opcodes, NEW size, NEW fields, NEW i \in Layout(opcodes, size, fields),
         FieldsOK(size, fields)
  PROVE  FieldsOK(i.size, i.fields)
  BY DEF Layout

LEMMA PlainOK == \A i \in Plain : FieldsOK(i.size, i.fields)
  <1>1. FieldsOK(8, [f \in {} |-> Field(0, 0)])
    BY DEF FieldsOK
  <1>2. QED
    BY <1>1, LayoutFacts DEF Plain

LEMMA ArithmeticOK == \A i \in Arithmetic : FieldsOK(i.size, i.fields)
  <1>1. FieldsOK(16, [rs |-> Field(8, 15)])
    BY DEF FieldsOK, FieldOK, Field
  <1>2. FieldsOK(16, [rd |-> Field(8, 15)])
    BY DEF FieldsOK, FieldOK, Field
  <1>3. QED
    BY <1>1, <1>2, LayoutFacts DEF Arithmetic

LEMMA MovesOK == \A i \in Moves : FieldsOK(i.size, i.fields)
  <1>1. FieldsOK(32, [rs |-> Field(8, 15), rd |-> Field(16, 23)])
    BY DEF FieldsOK, FieldOK, Apart, Field
  <1>2. FieldsOK(64, [rd |-> Field(8, 15), imm_i32 |-> Signed(32, 63)])
    BY DEF FieldsOK, FieldOK, Apart, Field, Signed
  <1>3. FieldsOK(64, [rd |-> Field(8, 15), imm_f |-> Field(32, 63)])
    BY DEF FieldsOK, FieldOK, Apart, Field
  <1>4. FieldsOK(64, [imm_i32 |-> Signed(32, 63)])
    BY DEF FieldsOK, FieldOK, Signed
  <1>5. FieldsOK(64, [imm_f |-> Field(32, 63)])
    BY DEF FieldsOK, FieldOK, Field
  <1>6. QED
    BY <1>1, <1>2, <1>3, <1>4, <1>5, LayoutFacts DEF Moves

LEMMA IntrinsicOK == \A i \in Intrinsic : FieldsOK(i.size, i.fields)
  <1>1. FieldsOK(64, [ intrinsic_code  |-> Field(8, 23),
                       intrinsic_arg_0 |-> Field(32, 39), intrinsic_arg_1 |-> Field(40, 47),
                       intrinsic_arg_2 |-> Field(48, 55), intrinsic_arg_3 |-> Field(56, 63) ])
    BY DEF FieldsOK, FieldOK, Apart, Field
  <1>2. QED
    BY <1>1, LayoutFacts DEF Intrinsic

LEMMA JumpInstrsOK ==
  \A i \in JumpInstrs : FieldsOK(i.size, i.fields) /\ "jump_offset" \in DOMAIN i.fields
  <1>1. FieldsOK(64, [jump_offset |-> Signed(8, 63)])
    BY DEF FieldsOK, FieldOK, Signed
  <1>2. FieldsOK(64, [rs |-> Field(8, 15), jump_offset |-> Signed(16, 63)])
    BY DEF FieldsOK, FieldOK, Apart, Field, Signed
  <1>3. \A i \in JumpInstrs : FieldsOK(i.size, i.fields)
    BY <1>1, <1>2, LayoutFacts DEF JumpInstrs
  <1>4. \A i \in JumpInstrs : "jump_offset" \in DOMAIN i.fields
    BY DEF JumpInstrs, Layout
  <1>5. QED
    BY <1>3, <1>4

LEMMA CallsOK == \A i \in Calls : FieldsOK(i.size, i.fields)
  <1>1. FieldsOK(32, [func_id |-> Field(8, 31)])
    BY DEF FieldsOK, FieldOK, Field
  <1>2. FieldsOK(64, [func_id |-> Field(8, 31), func_arg0 |-> Field(32, 39)])
    BY DEF FieldsOK, FieldOK, Apart, Field
  <1>3. FieldsOK(64, [ func_id   |-> Field(8, 31),  func_arg0 |-> Field(32, 39),
                       func_arg1 |-> Field(40, 47) ])
    BY DEF FieldsOK, FieldOK, Apart, Field
  <1>4. FieldsOK(64, [ func_id   |-> Field(8, 31),  func_arg0 |-> Field(32, 39),
                       func_arg1 |-> Field(40, 47), func_arg2 |-> Field(48, 55) ])
    BY DEF FieldsOK, FieldOK, Apart, Field
  <1>5. FieldsOK(64, [ func_id   |-> Field(8, 31),  func_arg0 |-> Field(32, 39),
                       func_arg1 |-> Field(40, 47), func_arg2 |-> Field(48, 55),
                       func_arg3 |-> Field(56, 63) ])
    BY DEF FieldsOK, FieldOK, Apart, Field
  <1>6. QED
    BY <1>1, <1>2, <1>3, <1>4, <1>5, LayoutFacts DEF Calls

LEMMA ObjectsOK == \A i \in Strings \cup Arrays \cup Objects : FieldsOK(i.size, i.fields)
  <1>1. FieldsOK(32, [str_id |-> Field(8, 23)])
    BY DEF FieldsOK, FieldOK, Field
  <1>2. FieldsOK(32, [rd |-> Field(8, 15), rs |-> Field(16, 23)])
    BY DEF FieldsOK, FieldOK, Apart, Field
  <1>3. FieldsOK(64, [rd |-> Field(8, 15), rs |-> Field(16, 23), class_id |-> Field(24, 47)])
    BY DEF FieldsOK, FieldOK, Apart, Field
  <1>4. FieldsOK(32, [rs1 |-> Field(8, 15), rs2 |-> Field(16, 23)])
    BY DEF FieldsOK, FieldOK, Apart, Field
  <1>5. FieldsOK(64, [rd |-> Field(8, 15), class_id |-> Field(32, 63)])
    BY DEF FieldsOK, FieldOK, Apart, Field
  <1>6. FieldsOK(64, [ rd |-> Field(8, 15), rs |-> Field(16, 23),
                       class_id |-> Field(24, 47), field_id |-> Field(48, 63) ])
    BY DEF FieldsOK, FieldOK, Apart, Field
  <1>7. \A i \in Strings : FieldsOK(i.size, i.fields)
    BY <1>1, LayoutFacts DEF Strings
  <1>8. \A i \in Arrays : FieldsOK(i.size, i.fields)
    BY <1>2, <1>3, <1>4, LayoutFacts DEF Arrays
  <1>9. \A i \in Objects : FieldsOK(i.size, i.fields)
    BY <1>5, <1>6, LayoutFacts DEF Objects
  <1>10. QED
    BY <1>7, <1>8, <1>9

LEMMA InstrsOK == \A i \in Instrs : FieldsOK(i.size, i.fields)
  BY PlainOK, ArithmeticOK, MovesOK, IntrinsicOK, JumpInstrsOK, CallsOK, ObjectsOK DEF Instrs

-----------------------------------------------------------------------------
\* The word of instruction i with operands ops.
Coded(i, ops) == Opcode(i) \cup UNION { Write(i, f, ops[f]) : f \in DOMAIN i.fields }

\* Bit b of a field from lo to hi lies in the word above the opcode, and is
\* not at the place of a bit c of a field that is apart from it.
LEMMA Place ==
  ASSUME NEW lo \in Int, NEW hi \in Int, NEW size \in Int, NEW b \in Int,
         8 <= lo, hi < size, 0 <= b, b <= hi - lo
  PROVE  b + lo \in Int /\ 8 <= b + lo /\ b + lo <= size - 1
  OBVIOUS

LEMMA PlacesApart ==
  ASSUME NEW lo \in Int, NEW hi \in Int, NEW glo \in Int, NEW ghi \in Int,
         NEW b \in Int, NEW c \in Int,
         0 <= b, b <= hi - lo, 0 <= c, c <= ghi - glo, hi < glo \/ ghi < lo
  PROVE  b + lo # c + glo
  OBVIOUS

LEMMA FieldWidth ==
  ASSUME NEW field, NEW lo \in Int, NEW hi \in Int, lo = field.lo, hi = field.hi,
         NEW b
  PROVE  b \in Bits(Width(field)) <=> b \in Int /\ 0 <= b /\ b <= hi - lo
  <1>1. Width(field) = hi - lo + 1
    BY DEF Width
  <1>2. QED
    BY <1>1 DEF Bits

LEMMA CodedBits ==
  ASSUME NEW i, FieldsOK(i.size, i.fields),
         NEW ops, \A f \in DOMAIN i.fields : ops[f] \in Word,
         NEW f \in DOMAIN i.fields,
         NEW b \in Bits(Width(i.fields[f]))
  PROVE  b + i.fields[f].lo \in Coded(i, ops) <=> b \in ops[f]
  <1>1. PICK lo \in Int, hi \in Int, size \in Int :
          /\ lo = i.fields[f].lo /\ hi = i.fields[f].hi /\ size = i.size
          /\ 8 <= lo /\ hi < size
    BY DEF FieldsOK, FieldOK
  <1>b. b \in Int /\ 0 <= b /\ b <= hi - lo
    BY ONLY <1>1, FieldWidth, b \in Bits(Width(i.fields[f])), lo \in Int, hi \in Int
  <1>w. b + lo \in Int /\ 8 <= b + lo /\ b + lo <= size - 1
    BY <1>1, <1>b, Place
  <1>2. b + lo \notin Opcode(i)
    BY <1>w DEF Opcode, Bits
  <1>3. ASSUME NEW g \in DOMAIN i.fields, g # f
        PROVE  b + lo \notin Write(i, g, ops[g])
    <2> i.fields[g].lo \in Int /\ i.fields[g].hi \in Int
      BY DEF FieldsOK, FieldOK
    <2>1. PICK glo \in Int, ghi \in Int : glo = i.fields[g].lo /\ ghi = i.fields[g].hi
      OBVIOUS
    <2>0. Apart(i.fields[f], i.fields[g])
      BY <1>3 DEF FieldsOK
    <2>2. hi < glo \/ ghi < lo
      BY <1>1, <2>0, <2>1 DEF Apart
    <2>3. SUFFICES ASSUME NEW c \in Bits(Width(i.fields[g])), b + lo = c + glo
                   PROVE  FALSE
      BY <2>1 DEF Write
    <2>4. c \in Int /\ 0 <= c /\ c <= ghi - glo
      BY ONLY <2>1, FieldWidth, c \in Bits(Width(i.fields[g])), glo \in Int, ghi \in Int
    <2>5. b + lo # c + glo
      BY <1>b, <2>2, <2>4, PlacesApart
    <2>6. QED
      BY <2>3, <2>5
  <1>4. b + lo \in Write(i, f, ops[f]) <=> b \in ops[f]
    <2>1. ASSUME b \in ops[f] PROVE b + lo \in Write(i, f, ops[f])
      <3>1. b + lo \in Bits(size)
        BY <1>w DEF Bits
      <3>2. QED
        BY <2>1, <3>1, <1>1 DEF Write
    <2>2. ASSUME b + lo \in Write(i, f, ops[f]) PROVE b \in ops[f]
      <3>1. PICK c \in ops[f] \cap Bits(Width(i.fields[f])) : b + lo = c + lo
        BY <2>2, <1>1 DEF Write
      <3>2. c \in Int
        BY DEF Word
      <3>3. c = b
        BY <1>b, <3>1, <3>2
      <3>4. QED
        BY <3>1, <3>3
    <2>3. QED
      BY <2>1, <2>2
  <1>5. QED
    BY <1>1, <1>2, <1>3, <1>4 DEF Coded

\* The two shifts cut out exactly the bits of the field.
LEMMA CutBits ==
  ASSUME NEW i, FieldsOK(i.size, i.fields), NEW f \in DOMAIN i.fields,
         NEW code \in SUBSET Bits(i.size)
  PROVE  Cut(i, i.fields[f], code)
           = { b \in Bits(Width(i.fields[f])) : b + i.fields[f].lo \in code }
  <1> PICK lo, hi, size : lo = i.fields[f].lo /\ hi = i.fields[f].hi /\ size = i.size
    OBVIOUS
  <1>1. /\ lo \in 8 .. 63 /\ hi \in 8 .. 63 /\ lo <= hi
        /\ size \in {8, 16, 32, 64} /\ hi < size
        /\ size < 32 => hi = size - 1
    BY DEF FieldsOK, FieldOK
  <1>2. PICK r \in Int : r = size - hi - 1
    BY <1>1
  <1>3. PICK top \in Int : top = ShiftBits(i) /\ (size >= 32 => top = size) /\ top >= size
    BY <1>1 DEF ShiftBits
  <1>4. PICK shifted : shifted = { b + r : b \in code } \cap Bits(top)
    OBVIOUS
  <1>5. Cut(i, i.fields[f], code) = { b - (lo + r) : b \in { c \in shifted : c >= lo + r } }
    BY <1>2, <1>3, <1>4 DEF Cut
  <1>6. Bits(Width(i.fields[f])) = 0 .. hi - lo
    BY <1>1 DEF Bits, Width
  <1>7. ASSUME NEW c \in shifted, c >= lo + r
        PROVE  c - (lo + r) \in 0 .. hi - lo /\ (c - (lo + r)) + lo \in code
    <2>1. PICK b \in code : c = b + r /\ c < top
      BY <1>3, <1>4 DEF Bits
    <2>2. b \in Int /\ 0 <= b /\ b < size
      BY <1>1 DEF Bits
    <2>3. c - (lo + r) = b - lo /\ (c - (lo + r)) + lo = b /\ b - lo >= 0
      BY <1>1, <1>2, <1>7, <2>1, <2>2
    <2>4. b <= hi
      <3>1. CASE size >= 32
        BY <3>1, <1>1, <1>2, <1>3, <2>1, <2>2
      <3>2. CASE size < 32
        BY <3>2, <1>1, <2>2
      <3>3. QED
        BY <3>1, <3>2, <1>1
    <2>5. QED
      BY <1>1, <2>2, <2>3, <2>4
  <1>8. ASSUME NEW b \in 0 .. hi - lo, b + lo \in code
        PROVE  /\ b + lo + r \in shifted /\ b + lo + r >= lo + r
               /\ (b + lo + r) - (lo + r) = b
    <2>1. b + lo + r \in Bits(top)
      BY <1>1, <1>2, <1>3 DEF Bits
    <2>2. b + lo + r >= lo + r /\ (b + lo + r) - (lo + r) = b
      BY <1>1, <1>2
    <2>3. QED
      BY <2>1, <2>2, <1>4, <1>8
  <1>9. QED
    BY <1>5, <1>6, <1>7, <1>8

LEMMA CodedWord ==
  ASSUME NEW i, FieldsOK(i.size, i.fields), NEW ops
  PROVE  Coded(i, ops) \in SUBSET Bits(i.size)
  <1>1. Bits(8) \subseteq Bits(i.size)
    BY DEF FieldsOK, Bits
  <1>2. QED
    BY <1>1 DEF Coded, Opcode, Write

-----------------------------------------------------------------------------
IInv ==
  stage # "none" =>
    /\ instr \in Instrs
    /\ operands \in [DOMAIN instr.fields -> Word]
    /\ bin_code_ = Coded(instr, operands)
    /\ (stage = "built" /\ IsJump(instr)) => operands["jump_offset"] = {}

LEMMA ConstructInd == Construct => IInv'
  <1> SUFFICES ASSUME Construct PROVE IInv'
    OBVIOUS
  <1> PICK i \in Instrs : \E ops \in Arguments(i) :
          instr' = i /\ operands' = ops /\ bin_code_' = Coded(i, ops)
    BY DEF Construct, Coded
  <1>1. PICK ops \in Arguments(i) :
          instr' = i /\ operands' = ops /\ bin_code_' = Coded(i, ops)
    OBVIOUS
  <1>2. \A f : Argument(f) \subseteq Word
    BY InstrCodeAssumption DEF Argument, Operand, Word
  <1>3. ops \in [DOMAIN i.fields -> Word] /\ \A f \in DOMAIN i.fields : ops[f] \in Argument(f)
    BY <1>2 DEF Arguments
  <1>4. i \in JumpInstrs => ops["jump_offset"] = {}
    BY <1>3, JumpInstrsOK DEF Argument
  <1>5. QED
    BY <1>1, <1>3, <1>4 DEF IInv, IsJump

LEMMA setOffsetInd == IInv /\ setOffset => IInv'
  <1> SUFFICES ASSUME IInv, setOffset PROVE IInv'
    OBVIOUS
  <1>1. /\ instr \in Instrs /\ instr \in JumpInstrs
        /\ operands \in [DOMAIN instr.fields -> Word]
        /\ bin_code_ = Coded(instr, operands)
        /\ operands["jump_offset"] = {}
        /\ stage' = "resolved" /\ instr' = instr
    BY DEF IInv, setOffset, IsJump
  <1>2. PICK offset \in Word :
          /\ operands' = [operands EXCEPT !["jump_offset"] = offset]
          /\ bin_code_' = bin_code_ \cup Write(instr, "jump_offset", offset)
    BY InstrCodeAssumption DEF setOffset, Operand, Word
  <1>3. "jump_offset" \in DOMAIN instr.fields
    BY <1>1, JumpInstrsOK
  <1>4. operands' \in [DOMAIN instr.fields -> Word]
    BY <1>1, <1>2, <1>3
  <1>5. \A f \in DOMAIN instr.fields :
          operands'[f] = IF f = "jump_offset" THEN offset ELSE operands[f]
    BY <1>1, <1>2
  <1>6. Write(instr, "jump_offset", {}) = {}
    BY DEF Write
  <1>7. bin_code_' = Coded(instr, operands')
    <2>1. ASSUME NEW b \in bin_code_' PROVE b \in Coded(instr, operands')
      BY <2>1, <1>1, <1>2, <1>3, <1>5, <1>6 DEF Coded
    <2>2. ASSUME NEW b \in Coded(instr, operands') PROVE b \in bin_code_'
      BY <2>2, <1>1, <1>2, <1>3, <1>5 DEF Coded
    <2>3. QED
      BY <2>1, <2>2
  <1>8. QED
    BY <1>1, <1>4, <1>7 DEF IInv

LEMMA IInvSurvive == IInv => OperandsSurvive
  <1> SUFFICES ASSUME IInv, Complete, NEW f \in DOMAIN instr.fields,
                      Fits(operands[f], instr.fields[f])
               PROVE  Get(f) = operands[f]
    BY DEF OperandsSurvive
  <1>1. /\ instr \in Instrs /\ operands \in [DOMAIN instr.fields -> Word]
        /\ bin_code_ = Coded(instr, operands)
    BY DEF IInv, Complete
  <1>2. FieldsOK(instr.size, instr.fields)
    BY <1>1, InstrsOK
  <1> PICK w : w = Width(instr.fields[f])
    OBVIOUS
  <1> PICK v : v = operands[f]
    OBVIOUS
  <1>3. w \in 1 .. 64 /\ v \in SUBSET (0 .. 63)
    <2>1. FieldOK(instr.size, instr.fields[f])
      BY <1>2 DEF FieldsOK
    <2>2. w \in 1 .. 64
      <3>1. PICK lo \in 8 .. 63, hi \in 8 .. 63 :
              lo = instr.fields[f].lo /\ hi = instr.fields[f].hi /\ lo <= hi
        BY <2>1 DEF FieldOK
      <3>2. w = hi - lo + 1
        BY <3>1 DEF Width
      <3>3. QED
        BY <3>1, <3>2
    <2>3. v \in Word
      BY <1>1
    <2>4. QED
      BY <2>2, <2>3 DEF Word
  <1>4. Cut(instr, instr.fields[f], bin_code_) = v \cap Bits(w)
    <2>1. bin_code_ \in SUBSET Bits(instr.size)
      BY <1>1, <1>2, CodedWord
    <2>2. Cut(instr, instr.fields[f], bin_code_)
            = { b \in Bits(w) : b + instr.fields[f].lo \in bin_code_ }
      BY <1>2, <2>1, CutBits
    <2>3. \A b \in Bits(w) : b + instr.fields[f].lo \in bin_code_ <=> b \in v
      BY <1>1, <1>2, CodedBits
    <2>4. QED
      BY <2>2, <2>3
  <1>5. CASE ~instr.fields[f].is_signed
    <2>1. v \subseteq Bits(w)
      BY <1>5 DEF Fits
    <2>2. Get(f) = v \cap Bits(w)
      BY <1>4, <1>5 DEF Get
    <2>3. QED
      BY <2>1, <2>2
  <1>6. CASE instr.fields[f].is_signed
    <2>1. Get(f) = signExtend(v \cap Bits(w), w - 1)
      BY <1>4, <1>6 DEF Get
    <2>2. \A b \in w .. 63 : b \in v <=> w - 1 \in v
      BY <1>6 DEF Fits
    <2>3. (v \cap Bits(w)) \cap Bits(w - 1 + 1) = v \cap Bits(w)
      BY <1>3 DEF Bits
    <2>4. w - 1 \in v \cap Bits(w) <=> w - 1 \in v
      BY <1>3 DEF Bits
    <2>5. CASE w - 1 \in v
      <3>1. Get(f) = (v \cap Bits(w)) \cup (w - 1 .. 63)
        BY <2>1, <2>3, <2>4, <2>5 DEF signExtend
      <3>2. w - 1 .. 63 \subseteq v
        BY <1>3, <2>2, <2>5
      <3>3. v \subseteq Bits(w) \cup (w - 1 .. 63)
        BY <1>3 DEF Bits
      <3>4. QED
        BY <3>1, <3>2, <3>3
    <2>6. CASE w - 1 \notin v
      <3>1. Get(f) = v \cap Bits(w)
        BY <2>1, <2>3, <2>4, <2>6 DEF signExtend
      <3>2. v \subseteq Bits(w)
        BY <1>3, <2>2, <2>6 DEF Bits
      <3>3. QED
        BY <3>1, <3>2
    <2>7. QED
      BY <2>5, <2>6
  <1>7. QED
    BY <1>5, <1>6

\* The word of an instruction is always the one its operands code: IInv is an
\* invariant of the assembler's constructors and setOffset.
THEOREM InstrInvariance == Spec => []IInv
  <1>1. Init => IInv
    BY DEF Init, IInv
  <1>2. IInv /\ [Next]_vars => IInv'
    <2> SUFFICES ASSUME IInv, [Next]_vars PROVE IInv'
      OBVIOUS
    <2>1. CASE Construct
      BY <2>1, ConstructInd
    <2>2. CASE setOffset
      BY <2>2, setOffsetInd
    <2>3. CASE UNCHANGED vars
      BY <2>3 DEF vars, IInv
    <2>4. QED
      BY <2>1, <2>2, <2>3 DEF Next
  <1>3. QED
    BY <1>1, <1>2, PTL DEF Spec

\* For every value: what the assembler packs into an instruction the
\* interpreter takes out again (the generators of assembler and interpreter).
THEOREM AllOperandsSurvive == Spec => []OperandsSurvive
  BY InstrInvariance, IInvSurvive, PTL

-----------------------------------------------------------------------------
(***************************************************************************)
(* The opcode determines the instruction.                                  *)
(***************************************************************************)
LEMMA Parity ==
  ASSUME NEW p \in Int, NEW q \in Int, p = 2 * q \/ p = 2 * q + 1
  PROVE  p = 2 * q + (p % 2)
  OBVIOUS

LEMMA Halve ==
  ASSUME NEW p \in Int, NEW q \in Int, NEW x \in Int, NEW k \in {1, 2, 4, 8, 16, 32, 64},
         k * p <= x, x < k * p + k, (2 * k) * q <= x, x < (2 * k) * q + 2 * k
  PROVE  p = 2 * q + (p % 2)
  <1>1. 2 * q <= p /\ p < 2 * q + 2
    OBVIOUS
  <1>2. p = 2 * q \/ p = 2 * q + 1
    BY <1>1
  <1>3. QED
    BY <1>2, Parity

LEMMA Halves ==
  ASSUME NEW x \in 0 .. 255
  PROVE  /\ \A k \in {1, 2, 4, 8, 16, 32, 64} :
               x \div k = 2 * (x \div (2 * k)) + ((x \div k) % 2)
         /\ x \div 128 = (x \div 128) % 2
  <1> DEFINE Near(k) == x \div k \in Int /\ k * (x \div k) <= x /\ x < k * (x \div k) + k
  <1>1. Near(1)
    OBVIOUS
  <1>2. Near(2)
    OBVIOUS
  <1>3. Near(4)
    OBVIOUS
  <1>4. Near(8)
    OBVIOUS
  <1>5. Near(16)
    OBVIOUS
  <1>6. Near(32)
    OBVIOUS
  <1>7. Near(64)
    OBVIOUS
  <1>8. Near(128)
    OBVIOUS
  <1>9. x \div 128 = (x \div 128) % 2
    BY <1>8
  <1>10. ASSUME NEW k \in {1, 2, 4, 8, 16, 32, 64}
         PROVE  x \div k = 2 * (x \div (2 * k)) + ((x \div k) % 2)
    <2>1. Near(k) /\ Near(2 * k)
      BY <1>1, <1>2, <1>3, <1>4, <1>5, <1>6, <1>7, <1>8
    <2>2. \A p, q \in Int :
            k * p <= x /\ x < k * p + k /\ (2 * k) * q <= x /\ x < (2 * k) * q + 2 * k
              => p = 2 * q + (p % 2)
      BY Halve
    <2> HIDE DEF Near
    <2>3. QED
      BY <2>1, <2>2, Zenon DEF Near
  <1>11. QED
    BY <1>9, <1>10

\* A byte is determined by its bits.
LEMMA SameBits ==
  ASSUME NEW x \in 0 .. 255, NEW y \in 0 .. 255,
         \A b \in Bits(8) : (x \div 2 ^ b) % 2 = 1 <=> (y \div 2 ^ b) % 2 = 1
  PROVE  x = y
  <1> DEFINE Same(k) == (x \div k) % 2 = (y \div k) % 2
  <1>1. \A b \in {0, 1, 2, 3, 4, 5, 6, 7} :
          (x \div 2 ^ b) % 2 = 1 <=> (y \div 2 ^ b) % 2 = 1
    <2>1. {0, 1, 2, 3, 4, 5, 6, 7} \subseteq Bits(8)
      BY DEF Bits
    <2>2. QED
      BY <2>1
  <1>2. /\ 2 ^ 0 = 1 /\ 2 ^ 1 = 2 /\ 2 ^ 2 = 4 /\ 2 ^ 3 = 8
        /\ 2 ^ 4 = 16 /\ 2 ^ 5 = 32 /\ 2 ^ 6 = 64 /\ 2 ^ 7 = 128
    OBVIOUS
  <1>3. Same(1)
    <2>1. (x \div 1) % 2 = 1 <=> (y \div 1) % 2 = 1
      BY <1>1, <1>2
    <2>2. QED
      BY <2>1
  <1>4. Same(2)
    <2>1. (x \div 2) % 2 = 1 <=> (y \div 2) % 2 = 1
      BY <1>1, <1>2
    <2>2. QED
      BY <2>1
  <1>5. Same(4)
    <2>1. (x \div 4) % 2 = 1 <=> (y \div 4) % 2 = 1
      BY <1>1, <1>2
    <2>2. QED
      BY <2>1
  <1>6. Same(8)
    <2>1. (x \div 8) % 2 = 1 <=> (y \div 8) % 2 = 1
      BY <1>1, <1>2
    <2>2. QED
      BY <2>1
  <1>7. Same(16)
    <2>1. (x \div 16) % 2 = 1 <=> (y \div 16) % 2 = 1
      BY <1>1, <1>2
    <2>2. QED
      BY <2>1
  <1>8. Same(32)
    <2>1. (x \div 32) % 2 = 1 <=> (y \div 32) % 2 = 1
      BY <1>1, <1>2
    <2>2. QED
      BY <2>1
  <1>9. Same(64)
    <2>1. (x \div 64) % 2 = 1 <=> (y \div 64) % 2 = 1
      BY <1>1, <1>2
    <2>2. QED
      BY <2>1
  <1>10. Same(128)
    <2>1. (x \div 128) % 2 = 1 <=> (y \div 128) % 2 = 1
      BY <1>1, <1>2
    <2>2. QED
      BY <2>1
  <1> HIDE DEF Same
  <1>11. x \div 128 = y \div 128
    BY <1>10, Halves DEF Same
  <1>12. x \div 64 = y \div 64
    BY <1>9, <1>11, Halves DEF Same
  <1>13. x \div 32 = y \div 32
    BY <1>8, <1>12, Halves DEF Same
  <1>14. x \div 16 = y \div 16
    BY <1>7, <1>13, Halves DEF Same
  <1>15. x \div 8 = y \div 8
    BY <1>6, <1>14, Halves DEF Same
  <1>16. x \div 4 = y \div 4
    BY <1>5, <1>15, Halves DEF Same
  <1>17. x \div 2 = y \div 2
    BY <1>4, <1>16, Halves DEF Same
  <1>18. x \div 1 = y \div 1
    BY <1>3, <1>17, Halves DEF Same
  <1>19. QED
    BY <1>18

\* The instructions of S have opcodes of C, no two the same.
Coding(S, C) ==
  /\ \A i \in S : i.opcode \in C
  /\ \A i, j \in S : i.opcode = j.opcode => i = j

LEMMA LayoutCoding ==
  ASSUME NEW opcodes, NEW size, NEW fields, NEW C,
         \A n \in DOMAIN opcodes : opcodes[n] \in C,
         \A m, n \in DOMAIN opcodes : opcodes[m] = opcodes[n] => m = n
  PROVE  Coding(Layout(opcodes, size, fields), C)
  BY DEF Coding, Layout

LEMMA PlainCoding == Coding(Plain, {1, 18, 30, 31})
  <1>1. \A size, fields :
          Coding(Layout([NOP |-> 1, RET |-> 18, I32TOF |-> 30, FTOI32 |-> 31], size, fields),
                 {1, 18, 30, 31})
    BY LayoutCoding
  <1>2. QED
    BY <1>1 DEF Plain, Coding

LEMMA ArithmeticCoding ==
  Coding(Arithmetic, {5, 9, 10, 11, 12, 13, 14, 15, 16, 17, 33, 43, 44, 45, 8})
  <1>1. \A size, fields :
          Coding(Layout([ LDA |-> 5, ADD_I32 |-> 9, ADD_F |-> 10, SUB_I32 |-> 11, SUB_F |-> 12,
                          MOD |-> 13, DIV_I32 |-> 14, DIV_F |-> 15, MUL_I32 |-> 16, MUL_F |-> 17,
                          ARR_LENGTH |-> 33, CMP_EQ_I32 |-> 43, CMP_GG_I32 |-> 44,
                          CMP_LL_I32 |-> 45 ], size, fields),
                 {5, 9, 10, 11, 12, 13, 14, 15, 16, 17, 33, 43, 44, 45})
    BY LayoutCoding
  <1>2. \A size, fields : Coding(Layout([STA |-> 8], size, fields), {8})
    BY LayoutCoding
  <1>3. QED
    BY <1>1, <1>2 DEF Arithmetic, Coding

LEMMA MovesCoding == Coding(Moves, {2, 3, 4, 6, 7})
  <1>1. \A size, fields : Coding(Layout([MOV |-> 2], size, fields), {2})
    BY LayoutCoding
  <1>2. \A size, fields : Coding(Layout([MOV_IMM_I32 |-> 3], size, fields), {3})
    BY LayoutCoding
  <1>3. \A size, fields : Coding(Layout([MOV_IMM_F |-> 4], size, fields), {4})
    BY LayoutCoding
  <1>4. \A size, fields : Coding(Layout([LDA_IMM_I32 |-> 6], size, fields), {6})
    BY LayoutCoding
  <1>5. \A size, fields : Coding(Layout([LDA_IMM_F |-> 7], size, fields), {7})
    BY LayoutCoding
  <1>6. QED
    BY <1>1, <1>2, <1>3, <1>4, <1>5 DEF Moves, Coding

LEMMA IntrinsicCoding == Coding(Intrinsic, {19})
  <1>1. \A size, fields : Coding(Layout([INTRINSIC |-> 19], size, fields), {19})
    BY LayoutCoding
  <1>2. QED
    BY <1>1 DEF Intrinsic, Coding

LEMMA JumpInstrsCoding == Coding(JumpInstrs, {20, 21, 22, 23, 24})
  <1>1. \A size, fields : Coding(Layout([JUMP |-> 20], size, fields), {20})
    BY LayoutCoding
  <1>2. \A size, fields :
          Coding(Layout([JUMP_GG |-> 21, JUMP_EQ |-> 22, JUMP_NOT_EQ |-> 23, JUMP_LL |-> 24],
                 size, fields),
                 {21, 22, 23, 24})
    BY LayoutCoding
  <1>3. QED
    BY <1>1, <1>2 DEF JumpInstrs, Coding

LEMMA CallsCoding == Coding(Calls, {25, 26, 27, 28, 29})
  <1>1. \A size, fields : Coding(Layout([CALL_0ARG |-> 25], size, fields), {25})
    BY LayoutCoding
  <1>2. \A size, fields : Coding(Layout([CALL_1ARG |-> 26], size, fields), {26})
    BY LayoutCoding
  <1>3. \A size, fields : Coding(Layout([CALL_2ARG |-> 27], size, fields), {27})
    BY LayoutCoding
  <1>4. \A size, fields : Coding(Layout([CALL_3ARG |-> 28], size, fields), {28})
    BY LayoutCoding
  <1>5. \A size, fields : Coding(Layout([CALL_4ARG |-> 29], size, fields), {29})
    BY LayoutCoding
  <1>6. QED
    BY <1>1, <1>2, <1>3, <1>4, <1>5 DEF Calls, Coding

LEMMA StringsCoding == Coding(Strings, {32})
  <1>1. \A size, fields : Coding(Layout([LDA_STR |-> 32], size, fields), {32})
    BY LayoutCoding
  <1>2. QED
    BY <1>1 DEF Strings, Coding

LEMMA ArraysCoding == Coding(Arrays, {34, 35, 40, 41, 42, 36, 37, 38, 39})
  <1>1. \A size, fields :
          Coding(Layout([ARR_NEW_I32 |-> 34, ARR_NEW_F |-> 35, ARR_STA_I32 |-> 40,
                         ARR_STA_F |-> 41, ARR_STA_REF |-> 42], size, fields),
                 {34, 35, 40, 41, 42})
    BY LayoutCoding
  <1>2. \A size, fields : Coding(Layout([ARR_NEW_REF |-> 36], size, fields), {36})
    BY LayoutCoding
  <1>3. \A size, fields :
          Coding(Layout([ARR_LDA_I32 |-> 37, ARR_LDA_F |-> 38, ARR_LDA_REF |-> 39], size, fields),
                 {37, 38, 39})
    BY LayoutCoding
  <1>4. QED
    BY <1>1, <1>2, <1>3 DEF Arrays, Coding

LEMMA ObjectsCoding == Coding(Objects, {46, 47, 48})
  <1>1. \A size, fields : Coding(Layout([OBJ_NEW |-> 46], size, fields), {46})
    BY LayoutCoding
  <1>2. \A size, fields : Coding(Layout([LDFIELD |-> 47, STFIELD |-> 48], size, fields), {47, 48})
    BY LayoutCoding
  <1>3. QED
    BY <1>1, <1>2 DEF Objects, Coding

LEMMA InstrsCoding == Coding(Instrs, 0 .. 255)
  BY PlainCoding, ArithmeticCoding, MovesCoding, IntrinsicCoding, JumpInstrsCoding,
     CallsCoding, StringsCoding, ArraysCoding, ObjectsCoding
  DEF Instrs, Coding

\* The operands leave the opcode alone.
LEMMA CodedOpcode ==
  ASSUME NEW i, FieldsOK(i.size, i.fields), NEW ops, \A f \in DOMAIN i.fields : ops[f] \in Word
  PROVE  Coded(i, ops) \cap Bits(8) = Opcode(i)
  <1>1. ASSUME NEW f \in DOMAIN i.fields, NEW b \in Write(i, f, ops[f])
        PROVE  b \notin Bits(8)
    <2>1. PICK lo \in Int : lo = i.fields[f].lo /\ 8 <= lo
      BY DEF FieldsOK, FieldOK
    <2>2. PICK c \in ops[f] : b = c + lo
      BY <2>1 DEF Write
    <2>3. c \in Int /\ 0 <= c
      BY DEF Word
    <2>4. QED
      BY <2>1, <2>2, <2>3 DEF Bits
  <1>2. QED
    BY <1>1 DEF Coded, Opcode

LEMMA IInvDispatches == IInv => Dispatches
  <1> SUFFICES ASSUME IInv, Complete
               PROVE  { i \in Instrs : Opcode(i) = getOpcode } = {instr}
    BY DEF Dispatches
  <1>1. /\ instr \in Instrs /\ operands \in [DOMAIN instr.fields -> Word]
        /\ bin_code_ = Coded(instr, operands)
    BY DEF IInv, Complete
  <1>2. getOpcode = Opcode(instr)
    BY <1>1, InstrsOK, CodedOpcode DEF getOpcode
  <1>3. ASSUME NEW i \in Instrs, Opcode(i) = Opcode(instr)
        PROVE  i = instr
    <2>1. i.opcode \in 0 .. 255 /\ instr.opcode \in 0 .. 255
      BY <1>1, InstrsCoding DEF Coding
    <2>2. \A b \in Bits(8) :
            (i.opcode \div 2 ^ b) % 2 = 1 <=> (instr.opcode \div 2 ^ b) % 2 = 1
      BY <1>3 DEF Opcode
    <2>3. i.opcode = instr.opcode
      BY <2>1, <2>2, SameBits
    <2>4. QED
      BY <1>1, <2>3, InstrsCoding DEF Coding
  <1>4. QED
    BY <1>1, <1>2, <1>3

\* For every value of every operand: the opcode the interpreter fetches is the
\* one of the instruction assembled, and of no other (the dispatch table).
THEOREM AlwaysDispatches == Spec => []Dispatches
  BY InstrInvariance, IInvDispatches, PTL

=============================================================================
