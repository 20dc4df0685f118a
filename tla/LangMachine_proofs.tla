------------------------- MODULE LangMachine_proofs -------------------------
(***************************************************************************)
(* The machine that runs programs of the toy language computes on 32-bit   *)
(* integers and references to arrays, whatever the high halves of its      *)
(* words hold, for every width of a half, every number of registers, every *)
(* well-formed code and every input, as long as no array lies at an        *)
(* address that is a number extended by zeros or by its sign               *)
(* (AddressAssumption): then no instruction computes an address, and one   *)
(* that is used reached its register by moves, all 64 bits of it.  And its *)
(* control stays in the functions of the code.                             *)
(*                                                                         *)
(* First the handlers (Arith32), then the machine around them.             *)
(***************************************************************************)
EXTENDS LangMachine, SequenceTheorems, FiniteSetTheorems, TLAPS

\* A word that is a number in one of its forms, zeros or the sign above, is
\* read as that number and is the address of no array.
Plain(w, x) == w \in Word /\ getValue(w) = x /\ ArrayNumber(w) = 0

\* All words of ws are the number x, and there is one.
ReadAs(ws, x) == ws # {} /\ \A w \in ws : Plain(w, x)

LEMMA HalfModulus == Modulus \div 2 \in Nat /\ 2 * (Modulus \div 2) = Modulus /\ Modulus \div 2 > 1
  BY ModulusAssumption

LEMMA ModBounds ==
  ASSUME NEW x \in Int
  PROVE  x % Modulus \in Half
  BY ModulusAssumption DEF Half

LEMMA ModSmall ==
  ASSUME NEW x \in Half
  PROVE  x % Modulus = x
  BY ModulusAssumption DEF Half

LEMMA ModNegative ==
  ASSUME NEW x \in Int, -Modulus <= x, x < 0
  PROVE  x % Modulus = x + Modulus
  BY ModulusAssumption

LEMMA SignedInt32 ==
  ASSUME NEW n \in Half
  PROVE  Signed(n) \in Int32
  BY HalfModulus, ModulusAssumption DEF Signed, Half, Int32

LEMMA ValueInt32 ==
  ASSUME NEW w \in Word
  PROVE  getValue(w) \in Int32 /\ getValue(w) \in Int
  <1>1. getValue(w) \in Int32
    BY SignedInt32 DEF getValue, Word
  <1>2. QED
    BY <1>1, HalfModulus DEF Int32

\* A number that fits is not changed by cutting it.
THEOREM WrapFits ==
  ASSUME NEW x \in Int32
  PROVE  Wrap(x) = x
  <1>1. CASE x < 0
    BY <1>1, ModNegative, HalfModulus, ModulusAssumption DEF Wrap, Signed, Int32
  <1>2. CASE x >= 0
    BY <1>2, ModSmall, HalfModulus, ModulusAssumption DEF Wrap, Signed, Int32, Half
  <1>3. QED
    BY <1>1, <1>2, HalfModulus DEF Int32

LEMMA WrapInt32 ==
  ASSUME NEW x \in Int
  PROVE  Wrap(x) \in Int32
  BY ModBounds, SignedInt32 DEF Wrap

-----------------------------------------------------------------------------
\* Zeros or ones above: not an address.
LEMMA NotAddress ==
  ASSUME NEW w, w.hi \in {0, Modulus - 1}
  PROVE  ArrayNumber(w) = 0
  BY AddressAssumption DEF ArrayNumber

LEMMA CastReads ==
  ASSUME NEW x \in Int
  PROVE  Plain(castToWritable(x), Wrap(x))
  <1>1. castToWritable(x) \in Word /\ getValue(castToWritable(x)) = Wrap(x)
    BY ModBounds, ModulusAssumption DEF castToWritable, getValue, Wrap, Word, Half
  <1>2. QED
    BY <1>1, NotAddress DEF Plain, castToWritable

LEMMA ExtendReads ==
  ASSUME NEW x \in Int
  PROVE  Plain(signExtend(x), Wrap(x))
  <1>1. signExtend(x) \in Word /\ getValue(signExtend(x)) = Wrap(x)
    BY ModBounds, ModulusAssumption DEF signExtend, getValue, Wrap, Word, Half
  <1>2. QED
    BY <1>1, NotAddress DEF Plain, signExtend

LEMMA ExtendedReads ==
  ASSUME NEW x \in Int
  PROVE  ReadAs(Extended(x), Wrap(x))
  <1>1. Wrap(x) \in Int
    BY WrapInt32, HalfModulus DEF Int32
  <1>2. \A y \in {x, Wrap(x)} :
          LET w == [signExtend(y) EXCEPT !.lo = x % Modulus]
          IN  w \in Word /\ getValue(w) = Wrap(x) /\ w.hi \in {0, Modulus - 1}
    BY <1>1, ModBounds, ModulusAssumption DEF signExtend, getValue, Wrap, Word, Half
  <1>3. ASSUME NEW y \in {x, Wrap(x)}
        PROVE  Plain([signExtend(y) EXCEPT !.lo = x % Modulus], Wrap(x))
    <2>1. DEFINE w == [signExtend(y) EXCEPT !.lo = x % Modulus]
    <2>2. w \in Word /\ getValue(w) = Wrap(x) /\ w.hi \in {0, Modulus - 1}
      BY <1>2
    <2>3. HIDE DEF w
    <2>4. Plain(w, Wrap(x))
      BY <2>2, NotAddress DEF Plain
    <2>5. QED
      BY <2>4 DEF w
  <1>4. QED
    BY <1>3 DEF ReadAs, Extended

LEMMA FlagReads == \A b \in {0, 1} : ReadAs({castToWritable(b)}, b)
  <1>1. 0 \in Int32 /\ 1 \in Int32
    BY HalfModulus DEF Int32
  <1>2. QED
    BY <1>1, CastReads, WrapFits DEF ReadAs

LEMMA DivBounds ==
  ASSUME NEW a \in Nat, NEW b \in Nat, b > 0
  PROVE  /\ a \div b \in Nat
         /\ a \div b <= a
         /\ b > 1 => 2 * (a \div b) <= a
  OBVIOUS

LEMMA DivisionRest ==
  ASSUME NEW a \in Nat, NEW b \in Nat, b > 0
  PROVE  a % b = a - b * (a \div b)
  OBVIOUS

LEMMA QuotientFits ==
  ASSUME NEW x \in Int32, NEW y \in Int32, ~Traps(x, y)
  PROVE  Quotient(x, y) \in Int32
  <1>1. /\ x \in Int /\ y \in Int /\ y # 0
        /\ Abs(x) \in Nat /\ Abs(y) \in Nat /\ Abs(y) > 0
    BY HalfModulus DEF Int32, Traps, Abs
  <1>2. DEFINE q == Abs(x) \div Abs(y)
  <1>3. q \in Nat /\ q <= Abs(x) /\ (Abs(y) > 1 => 2 * q <= Abs(x))
    BY <1>1, DivBounds
  <1>4. CASE Abs(y) > 1
    BY <1>1, <1>3, <1>4, HalfModulus DEF Quotient, Int32, Abs
  <1>5. CASE Abs(y) = 1
    BY <1>1, <1>3, <1>5, HalfModulus DEF Quotient, Int32, Abs, Traps
  <1>6. QED
    BY <1>1, <1>4, <1>5

LEMMA RemainderFits ==
  ASSUME NEW x \in Int32, NEW y \in Int32, ~Traps(x, y)
  PROVE  Remainder(x, y) \in Int32
  <1>1. /\ x \in Int /\ y \in Int /\ y # 0
        /\ Abs(x) \in Nat /\ Abs(y) \in Nat /\ Abs(y) > 0
    BY HalfModulus DEF Int32, Traps, Abs
  <1>2. Remainder(x, y) = IF x < 0 THEN -(Abs(x) % Abs(y)) ELSE Abs(x) % Abs(y)
    <2>1. PICK q \in Nat : q = Abs(x) \div Abs(y) /\ Abs(x) % Abs(y) = Abs(x) - Abs(y) * q
      BY <1>1, DivisionRest, DivBounds
    <2>2. CASE x < 0 /\ y < 0
      BY <1>1, <2>1, <2>2 DEF Remainder, Quotient, Abs
    <2>3. CASE x < 0 /\ y > 0
      BY <1>1, <2>1, <2>3 DEF Remainder, Quotient, Abs
    <2>4. CASE x >= 0 /\ y < 0
      BY <1>1, <2>1, <2>4 DEF Remainder, Quotient, Abs
    <2>5. CASE x >= 0 /\ y > 0
      BY <1>1, <2>1, <2>5 DEF Remainder, Quotient, Abs
    <2>6. QED
      BY <1>1, <2>2, <2>3, <2>4, <2>5
  <1>3. Abs(x) % Abs(y) \in Nat /\ Abs(x) % Abs(y) <= Abs(x)
    BY <1>1
  <1>4. QED
    BY <1>1, <1>2, <1>3, HalfModulus DEF Int32, Abs

-----------------------------------------------------------------------------
\* What every integer handler leaves in the accumulator, read again as an
\* integer: the operation on the operands as they are read, wrapped around,
\* or no result at all where the division traps.  And it is never an address,
\* of whatever the operands were.
THEOREM HandlersCorrect ==
  ASSUME NEW ac \in Word, NEW rs \in Word,
         NEW x, x = getValue(ac), NEW y, y = getValue(rs)
  PROVE  /\ ReadAs(AddI32(ac, rs), Wrap(x + y))
         /\ ReadAs(SubI32(ac, rs), Wrap(x - y))
         /\ ReadAs(MulI32(ac, rs), Wrap(x * y))
         /\ IF Traps(x, y) THEN DivI32(ac, rs) = {} /\ Mod(ac, rs) = {}
            ELSE ReadAs(DivI32(ac, rs), Quotient(x, y)) /\ ReadAs(Mod(ac, rs), Remainder(x, y))
         /\ ReadAs(CmpEqI32(ac, rs), IF x = y THEN 1 ELSE 0)
         /\ ReadAs(CmpGgI32(ac, rs), IF x > y THEN 1 ELSE 0)
         /\ ReadAs(CmpLlI32(ac, rs), IF x < y THEN 1 ELSE 0)
  <1>1. x \in Int32 /\ y \in Int32 /\ x \in Int /\ y \in Int
    BY ValueInt32
  <1>2. ReadAs(AddI32(ac, rs), Wrap(x + y))
    BY <1>1, ExtendedReads DEF AddI32
  <1>3. ReadAs(SubI32(ac, rs), Wrap(x - y))
    BY <1>1, CastReads DEF SubI32, ReadAs
  <1>4. ReadAs(MulI32(ac, rs), Wrap(x * y))
    BY <1>1, ExtendedReads DEF MulI32
  <1>5. ReadAs(CmpEqI32(ac, rs), IF x = y THEN 1 ELSE 0)
    BY <1>1, FlagReads DEF CmpEqI32, Flag
  <1>6. ReadAs(CmpGgI32(ac, rs), IF x > y THEN 1 ELSE 0)
    BY <1>1, FlagReads DEF CmpGgI32, Flag
  <1>7. ReadAs(CmpLlI32(ac, rs), IF x < y THEN 1 ELSE 0)
    BY <1>1, FlagReads DEF CmpLlI32, Flag
  <1>8. ASSUME Traps(x, y)
        PROVE  DivI32(ac, rs) = {} /\ Mod(ac, rs) = {}
    BY <1>8 DEF DivI32, Mod
  <1>9. ASSUME ~Traps(x, y)
        PROVE  ReadAs(DivI32(ac, rs), Quotient(x, y)) /\ ReadAs(Mod(ac, rs), Remainder(x, y))
    <2>1. Quotient(x, y) \in Int32 /\ Remainder(x, y) \in Int32
      BY <1>1, <1>9, QuotientFits, RemainderFits
    <2>2. QED
      BY <1>9, <2>1, ExtendReads, WrapFits, HalfModulus DEF DivI32, Mod, ReadAs, Int32
  <1>10. QED
    BY <1>2, <1>3, <1>4, <1>5, <1>6, <1>7, <1>8, <1>9

\* Words that differ in the high half only are the same operand: it does not
\* matter which handler produced them.
THEOREM HighHalvesIgnored ==
  ASSUME NEW a \in Word, NEW b \in Word, a.lo = b.lo,
         NEW r \in Word, NEW s \in Word, r.lo = s.lo
  PROVE  /\ AddI32(a, r) = AddI32(b, s)
         /\ SubI32(a, r) = SubI32(b, s)
         /\ MulI32(a, r) = MulI32(b, s)
         /\ DivI32(a, r) = DivI32(b, s)
         /\ Mod(a, r) = Mod(b, s)
         /\ CmpEqI32(a, r) = CmpEqI32(b, s)
         /\ CmpGgI32(a, r) = CmpGgI32(b, s)
         /\ CmpLlI32(a, r) = CmpLlI32(b, s)
  <1>1. getValue(a) = getValue(b) /\ getValue(r) = getValue(s)
    BY DEF getValue
  <1>2. QED
    BY <1>1 DEF AddI32, SubI32, MulI32, DivI32, Mod, CmpEqI32, CmpGgI32, CmpLlI32

-----------------------------------------------------------------------------
(***************************************************************************)
(* The machine.                                                            *)
(***************************************************************************)
RegSets == {[D -> Word] : D \in SUBSET Register}
RegFile == UNION RegSets
Seen    == [at : Nat, env : [Var -> Value]]
Frame   == [fn : Nat, regs : RegFile, ret : Int, seen : Seen]

MachineTypes ==
  /\ status \in {"source", "compiled", "run", "done", "undef"}
  /\ acc \in Word
  /\ stack \in Seq(Frame)
  /\ arrays \in Seq(Seq(Word))

\* Frames are of functions of the code, which is well formed once there is any.
CodeOK ==
  /\ status # "source" => WellFormed(build)
  /\ status \in {"source", "compiled"} => stack = <<>>
  /\ \A i \in 1 .. Len(stack) : stack[i].fn \in DOMAIN build.funcs

MachineInv == MachineTypes /\ CodeOK /\ ControlInCode

\* What words stand for.
LEMMA PlainValue ==
  ASSUME NEW w, NEW x, Plain(w, x)
  PROVE  w \in Word /\ ValueOf(w) = Integer(x)
  BY DEF Plain, ValueOf, Integer

LEMMA AddressWord ==
  ASSUME NEW k \in 1 .. Len(Address)
  PROVE  Address[k] \in Word /\ ValueOf(Address[k]) = Reference(k)
  <1>1. Address \in Seq(Word) /\ DOMAIN Address = 1 .. Len(Address)
    BY AddressAssumption, LenProperties
  <1>2. ArrayNumber(Address[k]) = k
    BY <1>1, AddressAssumption DEF ArrayNumber
  <1>3. QED
    BY <1>1, <1>2, ElementOfSeq DEF ValueOf, Reference

LEMMA WordValue ==
  ASSUME NEW w \in Word
  PROVE  ValueOf(w) \in Value /\ ValueOf(w).int = getValue(w) /\ ValueOf(w).array = ArrayNumber(w)
  <1>1. DOMAIN Address = 1 .. Len(Address) /\ Len(Address) \in Nat
    BY AddressAssumption, LenProperties
  <1>2. ArrayNumber(w) \in 0 .. Len(Address)
    BY <1>1 DEF ArrayNumber
  <1>3. QED
    BY <1>2, ValueInt32 DEF ValueOf, Value

LEMMA ZeroWord == Zero \in Word /\ ValueOf(Zero) = Integer(0)
  <1>1. Plain(Zero, 0)
    BY CastReads, WrapFits, HalfModulus DEF Zero, Int32
  <1>2. QED
    BY <1>1, PlainValue

LEMMA RegFileIs ==
  ASSUME NEW f \in RegFile
  PROVE  /\ DOMAIN f \subseteq Register
         /\ f \in [DOMAIN f -> Word]
         /\ \A r \in DOMAIN f : f[r] \in Word
  BY DEF RegFile, RegSets

LEMMA IsRegFile ==
  ASSUME NEW D, D \subseteq Register, NEW f, f \in [D -> Word]
  PROVE  f \in RegFile
  BY DEF RegFile, RegSets

LEMMA GetRegWord ==
  ASSUME NEW f \in RegFile, NEW r
  PROVE  GetReg(f, r) \in Word
  BY RegFileIs, ZeroWord DEF GetReg

LEMMA SetRegFile ==
  ASSUME NEW f \in RegFile, NEW r \in Register, NEW w \in Word
  PROVE  SetReg(f, r, w) \in RegFile
  <1>1. SetReg(f, r, w) \in [DOMAIN f \cup {r} -> Word]
    BY RegFileIs DEF SetReg
  <1>2. QED
    BY <1>1, RegFileIs, IsRegFile

LEMMA VariablesType ==
  ASSUME NEW fn, NEW regs \in RegFile
  PROVE  Variables(fn, regs) \in [Var -> Value]
  <1>1. Integer(0) \in Value
    BY ZeroWord, WordValue
  <1>2. QED
    BY <1>1, GetRegWord, WordValue DEF Variables

LEMMA ArrivedFrame ==
  ASSUME WellFormed(build), NEW f \in Frame, f.fn \in DOMAIN build.funcs, NEW p
  PROVE  /\ Arrived(f, p) \in Frame
         /\ Arrived(f, p).fn = f.fn
         /\ Arrived(f, p).regs = f.regs
         /\ Arrived(f, p).ret = f.ret
  <1> DEFINE marks == build.funcs[f.fn].marks
  <1>1. CASE \E i \in DOMAIN marks : marks[i] = p
    <2>1. PICK i \in DOMAIN marks : i = CHOOSE j \in DOMAIN marks : marks[j] = p
      BY <1>1
    <2>2. i \in Nat
      BY <2>1 DEF WellFormed
    <2>3. [at |-> i, env |-> Variables(f.fn, f.regs)] \in Seen
      BY <2>2, VariablesType DEF Seen, Frame
    <2>4. Arrived(f, p) = [f EXCEPT !.seen = [at |-> i, env |-> Variables(f.fn, f.regs)]]
      BY <1>1, <2>1 DEF Arrived
    <2>5. QED
      BY <2>3, <2>4 DEF Frame
  <1>2. CASE ~ \E i \in DOMAIN marks : marks[i] = p
    BY <1>2 DEF Arrived
  <1>3. QED
    BY <1>1, <1>2

LEMMA NewFrameIs ==
  ASSUME WellFormed(build), NEW fn \in DOMAIN build.funcs, NEW regs \in RegFile, NEW ret \in Int
  PROVE  /\ NewFrame(fn, regs, ret) \in Frame
         /\ NewFrame(fn, regs, ret).fn = fn
         /\ NewFrame(fn, regs, ret).regs = regs
         /\ NewFrame(fn, regs, ret).ret = ret
  <1> DEFINE f == [fn |-> fn, regs |-> regs, ret |-> ret,
                   seen |-> [at |-> 0, env |-> Variables(fn, regs)]]
  <1>1. fn \in Nat
    BY DEF WellFormed
  <1>2. f \in Frame /\ f.fn = fn /\ f.regs = regs /\ f.ret = ret
    BY <1>1, VariablesType DEF Frame, Seen
  <1> HIDE DEF f
  <1>3. NewFrame(fn, regs, ret) = Arrived(f, build.funcs[fn].start)
    BY DEF NewFrame, f
  <1>4. QED
    BY <1>2, <1>3, ArrivedFrame

-----------------------------------------------------------------------------
\* A set of numbers up to n has a least element.
LEMMA SmallestNat ==
  ASSUME NEW n \in Nat, NEW S \in SUBSET (1 .. n), S # {}
  PROVE  \E k \in S : \A i \in S : k <= i
  <1> DEFINE N == 1 .. n
             T == { 1 .. k : k \in S }
  <1>1. T \subseteq FiniteSubsetsOf(N)
    <2>1. IsFiniteSet(N)
      BY FS_Interval
    <2>2. T \subseteq SUBSET N
      OBVIOUS
    <2>3. QED
      BY <2>1, <2>2, FS_FiniteSubsetsOfFinite
  <1>2. PICK s \in T : \A t \in T : <<t, s>> \notin StrictSubsetOrdering(N)
    <2>1. T # {}
      OBVIOUS
    <2>2. IsFiniteSet(N)
      BY FS_Interval
    <2> HIDE DEF N, T
    <2>3. QED
      BY <1>1, <2>1, <2>2, FS_StrictSubsetOrderingWellFounded, WFMin
  <1>3. PICK k \in S : s = 1 .. k
    BY <1>2
  <1>4. ASSUME NEW i \in S, i < k PROVE FALSE
    <2>1. 1 .. i \in T /\ 1 .. i \subseteq s /\ k \notin 1 .. i /\ k \in s
      BY <1>3, <1>4
    <2>2. 1 .. i \in SUBSET N /\ s \in SUBSET N
      BY <1>2
    <2>3. <<1 .. i, s>> \in StrictSubsetOrdering(N)
      BY <2>1, <2>2 DEF StrictSubsetOrdering
    <2>4. QED
      BY <1>2, <2>1, <2>3
  <1>5. QED
    BY <1>4

\* What is known of the instruction at pc.
LEMMA Running ==
  ASSUME MachineInv, status = "run"
  PROVE  /\ WellFormed(build)
         /\ Len(stack) \in Nat /\ Len(stack) > 0 /\ DOMAIN stack = 1 .. Len(stack)
         /\ Current \in Frame
         /\ Current.fn \in DOMAIN build.funcs
         /\ pc \in FuncCode(build, Current.fn)
         /\ pc \in Nat /\ pc \in DOMAIN build.code
         /\ InstrOK(Instr, build.funcs)
         /\ Successors(Instr, pc) \subseteq FuncCode(build, Current.fn)
  <1>1. stack \in Seq(Frame) /\ stack # <<>> /\ pc \in FuncCode(build, Current.fn) /\ WellFormed(build)
    BY DEF MachineInv, MachineTypes, ControlInCode, CodeOK
  <1>2. Len(stack) \in Nat /\ Len(stack) > 0 /\ DOMAIN stack = 1 .. Len(stack)
    BY <1>1, EmptySeq, LenProperties
  <1>3. Current \in Frame /\ Current.fn \in DOMAIN build.funcs
    BY <1>1, <1>2, ElementOfSeq DEF Current, MachineInv, CodeOK
  <1>4. pc \in Nat /\ pc \in DOMAIN build.code
    BY <1>1 DEF FuncCode, WellFormed
  <1>5. InstrOK(Instr, build.funcs) /\ Successors(Instr, pc) \subseteq FuncCode(build, Current.fn)
    BY <1>1, <1>3 DEF WellFormed, Instr
  <1>6. QED
    BY <1>1, <1>2, <1>3, <1>4, <1>5

LEMMA OperandWord ==
  ASSUME MachineInv, status = "run", NEW k
  PROVE  Rs(k) \in Word
  BY Running, GetRegWord DEF Rs, Frame

\* Where control goes after an instruction, and the registers it names.
LEMMA Going ==
  ASSUME MachineInv, status = "run"
  PROVE  /\ Instr.op \notin {"JUMP", "RET"} => Following \in FuncCode(build, Current.fn)
         /\ Instr.op \in {"JUMP", "JUMP_EQ"} => pc + Instr.imm \in FuncCode(build, Current.fn)
         /\ Instr.op \in OneReg => Instr.r[1] \in Register
         /\ Instr.op \in TwoRegs => Instr.r[1] \in Register /\ Instr.r[2] \in Register
         /\ Instr.op = "MOV_IMM_I32" => Instr.imm \in Int
  <1>1. InstrOK(Instr, build.funcs) /\ Successors(Instr, pc) \subseteq FuncCode(build, Current.fn)
    BY Running
  <1>2. /\ Instr.op \notin {"JUMP", "RET"} => Following \in FuncCode(build, Current.fn)
        /\ Instr.op \in {"JUMP", "JUMP_EQ"} => pc + Instr.imm \in FuncCode(build, Current.fn)
    BY <1>1 DEF Successors, Following
  <1>3. /\ Instr.op \in OneReg => 1 \in DOMAIN Instr.r
        /\ Instr.op \in TwoRegs => 1 \in DOMAIN Instr.r /\ 2 \in DOMAIN Instr.r
    BY <1>1 DEF InstrOK, HasOperands, OneReg, TwoRegs, Computing, CallOps, ArgCount
  <1>4. \A k \in DOMAIN Instr.r : Instr.r[k] \in Register
    BY <1>1 DEF InstrOK
  <1>5. Instr.op = "MOV_IMM_I32" => Instr.imm \in Int
    BY <1>1 DEF InstrOK
  <1>6. QED
    BY <1>2, <1>3, <1>4, <1>5

\* A handler that goes on in the same frame.
SameFrames(regs) ==
  /\ stack' \in Seq(Frame)
  /\ Len(stack') = Len(stack)
  /\ \A i \in 1 .. Len(stack) :
       /\ stack'[i].fn = stack[i].fn
       /\ stack'[i].ret = stack[i].ret
       /\ stack'[i].regs = IF i = Len(stack) THEN regs ELSE stack[i].regs

LEMMA ContinueFrames ==
  ASSUME MachineInv, status = "run", NEW p, NEW regs \in RegFile, Continue(p, regs)
  PROVE  SameFrames(regs)
  <1> DEFINE f == [Current EXCEPT !.regs = regs]
             n == Len(stack)
  <1>1. /\ stack \in Seq(Frame) /\ n \in 1 .. n /\ Current \in Frame /\ WellFormed(build)
        /\ Current.fn \in DOMAIN build.funcs
    BY Running DEF MachineInv, MachineTypes
  <1>2. f \in Frame /\ f.fn = Current.fn /\ f.ret = Current.ret /\ f.regs = regs
    BY <1>1 DEF Frame
  <1>3. stack' = [stack EXCEPT ![n] = Arrived(f, p)]
    BY DEF Continue, Current
  <1> HIDE DEF f
  <1>4. /\ Arrived(f, p) \in Frame /\ Arrived(f, p).fn = Current.fn
        /\ Arrived(f, p).ret = Current.ret /\ Arrived(f, p).regs = regs
    BY <1>1, <1>2, ArrivedFrame
  <1>5. /\ stack' \in Seq(Frame) /\ Len(stack') = n
        /\ \A i \in 1 .. n : stack'[i] = IF i = n THEN Arrived(f, p) ELSE stack[i]
    BY <1>1, <1>3, <1>4, ExceptSeq
  <1>6. QED
    BY <1>4, <1>5 DEF SameFrames, Current

LEMMA ContinueInv ==
  ASSUME MachineInv, status = "run", UNCHANGED <<build, status>>,
         NEW p \in FuncCode(build, Current.fn), NEW regs \in RegFile, Continue(p, regs),
         acc' \in Word, arrays' \in Seq(Seq(Word))
  PROVE  MachineInv'
  <1>1. SameFrames(regs) /\ pc' = p
    BY ContinueFrames DEF Continue
  <1>2. Len(stack) \in Nat /\ Len(stack) > 0 /\ DOMAIN stack = 1 .. Len(stack)
    BY Running
  <1>3. MachineTypes'
    BY <1>1 DEF MachineTypes, SameFrames, MachineInv
  <1>4. CodeOK'
    BY <1>1, <1>2 DEF CodeOK, SameFrames, MachineInv
  <1>5. Current'.fn = Current.fn
    BY <1>1, <1>2 DEF Current, SameFrames
  <1>6. stack' # <<>>
    BY <1>1, <1>2, EmptySeq DEF SameFrames
  <1>7. ControlInCode'
    <2>1. pc' \in FuncCode(build', Current'.fn)
      BY <1>1, <1>5
    <2>2. stack'[1].ret = -1
      BY <1>1, <1>2 DEF ControlInCode, SameFrames, MachineInv
    <2>3. \A i \in 2 .. Len(stack') : stack'[i].ret \in FuncCode(build', stack'[i - 1].fn)
      BY <1>1, <1>2 DEF ControlInCode, SameFrames, MachineInv
    <2>4. QED
      BY <1>6, <2>1, <2>2, <2>3 DEF ControlInCode
  <1>8. QED
    BY <1>3, <1>4, <1>7 DEF MachineInv

-----------------------------------------------------------------------------
\* The instructions, one by one.
LEMMA SetsRegisterInv ==
  ASSUME MachineInv, status = "run", Instr.op \notin {"JUMP", "RET"}, NEW i, NEW w \in Word,
         Instr.r[i] \in Register, SetsRegister(i, w), arrays' \in Seq(Seq(Word))
  PROVE  MachineInv'
  <1>1. SetReg(Current.regs, Instr.r[i], w) \in RegFile
    BY Running, SetRegFile DEF Frame
  <1>2. acc' \in Word /\ UNCHANGED <<build, status>>
    BY DEF SetsRegister, MachineInv, MachineTypes
  <1>3. QED
    BY <1>1, <1>2, Going, ContinueInv DEF SetsRegister

LEMMA SetsAccInv ==
  ASSUME MachineInv, status = "run", Instr.op \notin {"JUMP", "RET"}, NEW w \in Word, SetsAcc(w)
  PROVE  MachineInv'
  <1>1. Current.regs \in RegFile
    BY Running DEF Frame
  <1>2. acc' \in Word /\ arrays' \in Seq(Seq(Word)) /\ UNCHANGED <<build, status>>
    BY DEF SetsAcc, MachineInv, MachineTypes
  <1>3. QED
    BY <1>1, <1>2, Going, ContinueInv DEF SetsAcc

LEMMA KeepsInv ==
  ASSUME MachineInv, status = "run", UNCHANGED <<build, status, acc>>,
         NEW p \in FuncCode(build, Current.fn), Continue(p, Current.regs), arrays' \in Seq(Seq(Word))
  PROVE  MachineInv'
  <1>1. Current.regs \in RegFile
    BY Running DEF Frame
  <1>2. acc' \in Word
    BY DEF MachineInv, MachineTypes
  <1>3. QED
    BY <1>1, <1>2, ContinueInv

LEMMA MovesInv ==
  ASSUME MachineInv, Mov \/ MovImm \/ Sta
  PROVE  MachineInv'
  <1>1. arrays \in Seq(Seq(Word)) /\ acc \in Word
    BY DEF MachineInv, MachineTypes
  <1>2. CASE Mov
    BY <1>1, <1>2, Going, OperandWord, SetsRegisterInv DEF Mov, Fetched, TwoRegs
  <1>3. CASE MovImm
    <2>1. signExtend(Instr.imm) \in Word
      BY <1>3, Going, ExtendReads DEF MovImm, Fetched, Plain
    <2>2. QED
      BY <1>1, <1>3, <2>1, Going, SetsRegisterInv DEF MovImm, Fetched, OneReg
  <1>4. CASE Sta
    BY <1>1, <1>4, Going, SetsRegisterInv DEF Sta, Fetched, OneReg
  <1>5. QED
    BY <1>2, <1>3, <1>4

\* A new array is a sequence of words.
NewArray(n) == [i \in 1 .. n |-> Zero]

LEMMA NewArrayWords ==
  ASSUME NEW n \in Nat
  PROVE  NewArray(n) \in Seq(Word) /\ DOMAIN NewArray(n) = 1 .. n
  BY ZeroWord DEF NewArray

LEMMA ArrNewInv ==
  ASSUME MachineInv, ArrNew
  PROVE  MachineInv'
  <1>1. arrays \in Seq(Seq(Word)) /\ status = "run" /\ Instr.op = "ARR_NEW_I32"
    BY DEF MachineInv, MachineTypes, ArrNew, Fetched
  <1>2. Rs(2).lo \in Nat
    BY <1>1, OperandWord DEF Word, Half
  <1>3. arrays' = Append(arrays, NewArray(Rs(2).lo))
    BY DEF ArrNew, NewArray
  <1>4. arrays' \in Seq(Seq(Word))
    BY <1>1, <1>2, <1>3, NewArrayWords
  <1>5. Len(arrays') \in 1 .. Len(Address)
    <2>1. Len(arrays') = Len(arrays) + 1 /\ Len(arrays) \in Nat /\ Len(arrays) < Len(Address)
      BY <1>1, <1>2, <1>3, NewArrayWords, LenProperties DEF ArrNew
    <2>2. Len(Address) \in Nat
      BY AddressAssumption, LenProperties
    <2>3. QED
      BY <2>1, <2>2
  <1>6. Address[Len(arrays')] \in Word
    BY <1>5, AddressWord
  <1>7. QED
    BY <1>1, <1>4, <1>6, Going, SetsRegisterInv DEF ArrNew, TwoRegs

\* What the handlers leave are words.
LEMMA ResultWords ==
  ASSUME MachineInv, status = "run", Instr.op \in Computing, NEW w \in Results
  PROVE  w \in Word
  <1>1. acc \in Word /\ Rs(1) \in Word
    BY OperandWord DEF MachineInv, MachineTypes
  <1>2. /\ \A u \in AddI32(acc, Rs(1)) \cup SubI32(acc, Rs(1)) \cup MulI32(acc, Rs(1)) : u \in Word
        /\ \A u \in CmpEqI32(acc, Rs(1)) \cup CmpGgI32(acc, Rs(1)) \cup CmpLlI32(acc, Rs(1)) : u \in Word
        /\ \A u \in DivI32(acc, Rs(1)) : u \in Word
    BY <1>1, HandlersCorrect DEF ReadAs, Plain
  <1>3. QED
    BY <1>2 DEF Results, Computing

LEMMA ElementWord ==
  ASSUME MachineInv, NEW a, NEW i, InBounds(a, i)
  PROVE  /\ ArrayIn(a) \in 1 .. Len(arrays)
         /\ ArrayAt(a) \in Seq(Word)
         /\ i.lo + 1 \in 1 .. Len(ArrayAt(a))
         /\ ArrayAt(a)[i.lo + 1] \in Word
  <1>1. arrays \in Seq(Seq(Word))
    BY DEF MachineInv, MachineTypes
  <1>2. ArrayIn(a) \in 1 .. Len(arrays)
    BY <1>1, LenProperties DEF InBounds
  <1>3. ArrayAt(a) \in Seq(Word)
    BY <1>1, <1>2, ElementOfSeq DEF ArrayAt
  <1>4. i.lo + 1 \in 1 .. Len(ArrayAt(a))
    BY <1>3, LenProperties DEF InBounds
  <1>5. QED
    BY <1>2, <1>3, <1>4, ElementOfSeq

LEMMA LeavesInv ==
  ASSUME MachineInv, Lda \/ Compute \/ Scan \/ ArrLda
  PROVE  MachineInv'
  <1>1. CASE Lda
    BY <1>1, OperandWord, SetsAccInv DEF Lda, Fetched
  <1>2. CASE Compute
    BY <1>2, ResultWords, SetsAccInv DEF Compute, Fetched, Computing
  <1>3. CASE Scan
    <2>1. \A x \in Inputs : castToWritable(x) \in Word
      BY CastReads, InputsAssumption, HalfModulus DEF Int32, Plain
    <2>2. QED
      BY <1>3, <2>1, SetsAccInv DEF Scan, Fetched
  <1>4. CASE ArrLda
    BY <1>4, ElementWord, SetsAccInv DEF ArrLda, Fetched
  <1>5. QED
    BY <1>1, <1>2, <1>3, <1>4

LEMMA WritesInv ==
  ASSUME MachineInv, PrintI32 \/ ArrSta
  PROVE  MachineInv'
  <1>1. arrays \in Seq(Seq(Word)) /\ acc \in Word /\ status = "run"
    BY DEF MachineInv, MachineTypes, PrintI32, ArrSta, Fetched
  <1>2. CASE PrintI32
    BY <1>1, <1>2, Going, KeepsInv DEF PrintI32, Fetched
  <1>3. CASE ArrSta
    <2> DEFINE a == Rs(1)
               i == Rs(2)
               new == [arrays[ArrayIn(a)] EXCEPT ![i.lo + 1] = acc]
    <2>1. InBounds(a, i)
      BY <1>3 DEF ArrSta
    <2>2. /\ ArrayIn(a) \in 1 .. Len(arrays) /\ arrays[ArrayIn(a)] \in Seq(Word)
          /\ i.lo + 1 \in 1 .. Len(arrays[ArrayIn(a)])
      BY <2>1, ElementWord DEF ArrayAt
    <2>3. new \in Seq(Word)
      BY <1>1, <2>2, ExceptSeq
    <2>4. arrays' = [arrays EXCEPT ![ArrayIn(a)] = new]
      BY <1>3 DEF ArrSta
    <2>5. arrays' \in Seq(Seq(Word))
      BY <1>1, <2>2, <2>3, <2>4, ExceptSeq
    <2>6. QED
      BY <1>1, <1>3, <2>5, Going, KeepsInv DEF ArrSta, Fetched
  <1>4. QED
    BY <1>2, <1>3

LEMMA JumpsInv ==
  ASSUME MachineInv, Jump \/ JumpEq
  PROVE  MachineInv'
  <1>1. arrays \in Seq(Seq(Word)) /\ status = "run"
    BY DEF MachineInv, MachineTypes, Jump, JumpEq, Fetched
  <1>2. CASE Jump
    BY <1>1, <1>2, Going, KeepsInv DEF Jump, Fetched
  <1>3. CASE JumpEq
    <2>1. pc + Instr.imm \in FuncCode(build, Current.fn) /\ Following \in FuncCode(build, Current.fn)
      BY <1>1, <1>3, Going DEF JumpEq, Fetched
    <2>2. QED
      BY <1>1, <1>3, <2>1, KeepsInv DEF JumpEq
  <1>4. QED
    BY <1>2, <1>3

\* A trap and the end of the program.
LEMMA StoppedInv ==
  ASSUME MachineInv, status = "run", status' \in {"done", "undef"},
         UNCHANGED <<build, pc, acc, stack, arrays>>
  PROVE  MachineInv'
  BY DEF MachineInv, MachineTypes, CodeOK, ControlInCode

\* Calls.  The VM finds the function, and the callee's registers are the
\* arguments.
Args == [x \in { ArgReg(i) : i \in DOMAIN Instr.r } |-> Rs(NumRegs - x)]

LEMMA CalleeFound ==
  ASSUME MachineInv, status = "run", Instr.op \in CallOps
  PROVE  /\ FuncWithId(build.funcs, Instr.imm) \in DOMAIN build.funcs
         /\ Args \in RegFile
  <1>1. /\ WellFormed(build) /\ InstrOK(Instr, build.funcs)
        /\ DOMAIN build.funcs = 1 .. Len(build.funcs) /\ Len(build.funcs) \in Nat
    BY Running DEF WellFormed
  <1> DEFINE S == { j \in DOMAIN build.funcs : build.funcs[j].id = Instr.imm }
  <1>2. S # {} /\ S \in SUBSET (1 .. Len(build.funcs))
    BY <1>1 DEF InstrOK
  <1>3. PICK i \in S : \A j \in S : i <= j
    BY <1>1, <1>2, SmallestNat
  <1>4. i \in DOMAIN build.funcs /\ build.funcs[i].id = Instr.imm
        /\ \A j \in 1 .. i - 1 : build.funcs[j].id # Instr.imm
    BY <1>1, <1>3
  <1>5. FuncWithId(build.funcs, Instr.imm) \in DOMAIN build.funcs
    BY <1>4 DEF FuncWithId
  <1>6. \A k \in DOMAIN Instr.r : k \in 1 .. 4
    BY <1>1 DEF InstrOK, HasOperands, CallOps, ArgCount, OneReg, TwoRegs, Computing
  <1>7. { ArgReg(k) : k \in DOMAIN Instr.r } \subseteq Register
    BY <1>6, NumRegsAssumption DEF ArgReg, Register
  <1>8. Args \in [{ ArgReg(k) : k \in DOMAIN Instr.r } -> Word]
    BY OperandWord DEF Args
  <1>9. QED
    BY <1>5, <1>7, <1>8, IsRegFile

LEMMA CallInv ==
  ASSUME MachineInv, Call
  PROVE  MachineInv'
  <1> DEFINE fn == FuncWithId(build.funcs, Instr.imm)
             f  == NewFrame(fn, Args, Following)
             n  == Len(stack)
  <1>1. status = "run" /\ Instr.op \in CallOps
    BY DEF Call, Fetched
  <1>2. /\ fn \in DOMAIN build.funcs /\ Args \in RegFile /\ WellFormed(build)
        /\ Following \in FuncCode(build, Current.fn) /\ Following \in Int
        /\ stack \in Seq(Frame) /\ n \in Nat /\ n > 0
    <2>1. Following \in FuncCode(build, Current.fn)
      BY <1>1, Going DEF CallOps, ArgCount
    <2>2. Following \in Int
      BY <1>1, <2>1, Running DEF FuncCode, WellFormed
    <2>3. QED
      BY <1>1, <2>1, <2>2, CalleeFound, Running DEF MachineInv, MachineTypes
  <1>3. f \in Frame /\ f.fn = fn /\ f.ret = Following
    BY <1>2, NewFrameIs
  <1>4. /\ stack' = Append(stack, f) /\ pc' = build.funcs[fn].start
        /\ UNCHANGED <<build, status, acc, arrays>>
    BY DEF Call, Args
  <1> HIDE DEF fn, f
  <1>5. /\ stack' \in Seq(Frame) /\ Len(stack') = n + 1
        /\ \A i \in 1 .. n : stack'[i] = stack[i]
        /\ stack'[n + 1] = f
    BY <1>2, <1>3, <1>4
  <1>6. MachineTypes'
    BY <1>4, <1>5 DEF MachineTypes, MachineInv
  <1>7. \A i \in 1 .. Len(stack') : stack'[i].fn \in DOMAIN build'.funcs
    BY <1>2, <1>3, <1>4, <1>5 DEF MachineInv, CodeOK
  <1>8. CodeOK'
    BY <1>1, <1>4, <1>7 DEF MachineInv, CodeOK
  <1>9. ControlInCode'
    <2>1. pc' \in FuncCode(build', Current'.fn)
      <3>1. Current' = f
        BY <1>5 DEF Current
      <3>2. build.funcs[fn].start \in FuncCode(build, fn)
        BY <1>2 DEF WellFormed
      <3>3. QED
        BY <1>3, <1>4, <3>1, <3>2
    <2>2. stack'[1].ret = -1
      BY <1>1, <1>2, <1>5 DEF MachineInv, ControlInCode
    <2>3. ASSUME NEW i \in 2 .. Len(stack')
          PROVE  stack'[i].ret \in FuncCode(build', stack'[i - 1].fn)
      <3>1. CASE i <= n
        BY <1>1, <1>2, <1>4, <1>5, <3>1 DEF MachineInv, ControlInCode
      <3>2. CASE i = n + 1
        BY <1>2, <1>3, <1>4, <1>5, <3>2 DEF Current
      <3>3. QED
        BY <1>2, <1>5, <3>1, <3>2
    <2>4. stack' # <<>>
      BY <1>2, <1>5, EmptySeq
    <2>5. QED
      BY <2>1, <2>2, <2>3, <2>4 DEF ControlInCode
  <1>10. QED
    BY <1>6, <1>8, <1>9 DEF MachineInv

\* The frames below the top, the last of which goes on.
LEMMA ReturnFrames ==
  ASSUME MachineInv, Ret, Current.ret # -1
  PROVE  /\ Len(stack) > 1 /\ Len(stack) \in Nat
         /\ pc' = Current.ret
         /\ pc' \in FuncCode(build, stack[Len(stack) - 1].fn)
         /\ UNCHANGED <<build, status, acc, arrays, out>>
         /\ result' = ValueOf(acc)
         /\ stack' \in Seq(Frame)
         /\ Len(stack') = Len(stack) - 1
         /\ \A i \in 1 .. Len(stack) - 1 :
              /\ stack'[i].fn = stack[i].fn
              /\ stack'[i].ret = stack[i].ret
              /\ stack'[i].regs = stack[i].regs
  <1> DEFINE n == Len(stack)
             callers == SubSeq(stack, 1, n - 1)
             g == Arrived(stack[n - 1], pc')
  <1>1. status = "run" /\ pc' = Current.ret /\ UNCHANGED <<build, status, acc, arrays, out>>
        /\ result' = ValueOf(acc)
        /\ stack' = [callers EXCEPT ![Len(callers)] = Arrived(@, Current.ret)]
    BY DEF Ret, Fetched
  <1>2. stack \in Seq(Frame) /\ n \in Nat /\ n > 0 /\ WellFormed(build)
    BY <1>1, Running DEF MachineInv, MachineTypes
  <1>3. n > 1 /\ pc' \in FuncCode(build, stack[n - 1].fn)
    BY <1>1, <1>2 DEF MachineInv, ControlInCode, Current
  <1>4. /\ callers \in Seq(Frame) /\ Len(callers) = n - 1
        /\ \A i \in 1 .. n - 1 : callers[i] = stack[i]
    BY <1>2, <1>3
  <1>5. stack[n - 1] \in Frame /\ stack[n - 1].fn \in DOMAIN build.funcs
    BY <1>2, <1>3 DEF MachineInv, CodeOK
  <1>6. /\ g \in Frame /\ g.fn = stack[n - 1].fn /\ g.ret = stack[n - 1].ret
        /\ g.regs = stack[n - 1].regs
    BY <1>2, <1>5, ArrivedFrame
  <1>7. stack' = [callers EXCEPT ![n - 1] = g]
    BY <1>1, <1>3, <1>4
  <1> HIDE DEF callers, g
  <1>8. /\ stack' \in Seq(Frame) /\ Len(stack') = n - 1
        /\ \A i \in 1 .. n - 1 : stack'[i] = IF i = n - 1 THEN g ELSE callers[i]
    BY <1>3, <1>4, <1>6, <1>7, <1>2, ExceptSeq
  <1>9. QED
    BY <1>1, <1>2, <1>3, <1>4, <1>6, <1>8

LEMMA RetInv ==
  ASSUME MachineInv, Ret
  PROVE  MachineInv'
  <1>1. CASE Current.ret = -1
    BY <1>1, StoppedInv DEF Ret, Fetched
  <1>2. CASE Current.ret # -1
    <2> DEFINE n == Len(stack)
    <2>1. status = "run"
      BY DEF Ret, Fetched
    <2>2. MachineTypes'
      BY <1>2, ReturnFrames DEF MachineTypes, MachineInv
    <2>3. CodeOK'
      BY <1>2, <2>1, ReturnFrames DEF CodeOK, MachineInv
    <2>4. ControlInCode'
      <3>1. pc' \in FuncCode(build', Current'.fn)
        BY <1>2, ReturnFrames DEF Current
      <3>2. stack'[1].ret = -1
        BY <1>2, <2>1, ReturnFrames DEF MachineInv, ControlInCode
      <3>3. \A i \in 2 .. Len(stack') : stack'[i].ret \in FuncCode(build', stack'[i - 1].fn)
        BY <1>2, <2>1, ReturnFrames DEF MachineInv, ControlInCode
      <3>4. stack' # <<>>
        BY <1>2, ReturnFrames, EmptySeq
      <3>5. QED
        BY <3>1, <3>2, <3>3, <3>4 DEF ControlInCode
    <2>5. QED
      BY <2>2, <2>3, <2>4 DEF MachineInv
  <1>3. QED
    BY <1>1, <1>2

LEMMA LoadInv ==
  ASSUME MachineInv, Load
  PROVE  MachineInv'
  <1>1. WellFormed(build) /\ UNCHANGED <<build, acc, arrays>> /\ status' = "run"
    BY DEF Load, MachineInv, CodeOK
  <1>2. Empty \in RegFile
    <2>1. Empty \in [{} -> Word] /\ {} \subseteq Register
      BY DEF Empty
    <2>2. QED
      BY <2>1, IsRegFile
  <1>3. PICK fn \in DOMAIN build.funcs : stack' = <<NewFrame(fn, Empty, -1)>> /\ pc' = build.funcs[fn].start
    BY DEF Load
  <1> DEFINE f == NewFrame(fn, Empty, -1)
  <1>4. f \in Frame /\ f.fn = fn /\ f.ret = -1
    BY <1>1, <1>2, NewFrameIs
  <1>5. build.funcs[fn].start \in FuncCode(build, fn)
    BY <1>1 DEF WellFormed
  <1> HIDE DEF f
  <1>6. stack' \in Seq(Frame) /\ Len(stack') = 1 /\ stack'[1] = f /\ stack' # <<>>
    BY <1>3, <1>4 DEF f
  <1>7. MachineTypes'
    BY <1>1, <1>6 DEF MachineTypes, MachineInv
  <1>8. CodeOK'
    BY <1>1, <1>4, <1>6 DEF CodeOK
  <1>9. ControlInCode'
    BY <1>1, <1>3, <1>4, <1>5, <1>6 DEF ControlInCode, Current
  <1>10. QED
    BY <1>7, <1>8, <1>9 DEF MachineInv

LEMMA InitInv == MachineInit => MachineInv
  <1> SUFFICES ASSUME MachineInit PROVE MachineInv
    OBVIOUS
  <1>1. MachineTypes
    BY ZeroWord DEF MachineInit, MachineTypes
  <1>2. CodeOK /\ ControlInCode
    BY DEF MachineInit, CodeOK, ControlInCode
  <1>3. QED
    BY <1>1, <1>2 DEF MachineInv

LEMMA NextInv == MachineInv /\ [MachineNext]_machine => MachineInv'
  <1> SUFFICES ASSUME MachineInv, [MachineNext]_machine PROVE MachineInv'
    OBVIOUS
  <1>1. CASE Receive
    <2>1. MachineTypes' /\ stack = <<>>
      BY <1>1 DEF Receive, MachineInv, MachineTypes, CodeOK
    <2>2. QED
      BY <1>1, <2>1 DEF Receive, MachineInv, CodeOK, ControlInCode
  <1>2. CASE Load
    BY <1>2, LoadInv
  <1>3. CASE Mov \/ MovImm \/ Sta
    BY <1>3, MovesInv
  <1>4. CASE ArrNew
    BY <1>4, ArrNewInv
  <1>5. CASE Lda \/ Compute \/ Scan \/ ArrLda
    BY <1>5, LeavesInv
  <1>6. CASE PrintI32 \/ ArrSta
    BY <1>6, WritesInv
  <1>7. CASE Trap
    BY <1>7, StoppedInv DEF Trap, Fetched
  <1>8. CASE Jump \/ JumpEq
    BY <1>8, JumpsInv
  <1>9. CASE Call
    BY <1>9, CallInv
  <1>10. CASE Ret
    BY <1>10, RetInv
  <1>11. CASE UNCHANGED machine
    BY <1>11 DEF machine, MachineInv, MachineTypes, CodeOK, ControlInCode, Current
  <1>12. QED
    BY <1>1, <1>2, <1>3, <1>4, <1>5, <1>6, <1>7, <1>8, <1>9, <1>10, <1>11 DEF MachineNext, Exec

THEOREM MachineInvariant == MachineSpec => []MachineInv
  BY InitInv, NextInv, PTL DEF MachineSpec

\* Registers, the accumulator and arrays hold words, in registers there are,
\* for every code.
THEOREM MachineTypeCorrect == MachineSpec => []LangTypeOK
  <1>1. MachineInv => LangTypeOK
    <2> SUFFICES ASSUME MachineInv PROVE LangTypeOK
      OBVIOUS
    <2>1. status \in {"source", "compiled", "run", "done", "undef"} /\ acc \in Word
      BY DEF MachineInv, MachineTypes
    <2>2. ASSUME NEW i \in DOMAIN stack
          PROVE  \A r \in DOMAIN stack[i].regs : r \in Register /\ stack[i].regs[r] \in Word
      <3>1. stack[i] \in Frame
        BY LenProperties, ElementOfSeq DEF MachineInv, MachineTypes
      <3>2. QED
        BY <3>1, RegFileIs DEF Frame
    <2>3. ASSUME NEW k \in DOMAIN arrays
          PROVE  \A i \in DOMAIN arrays[k] : arrays[k][i] \in Word
      <3>1. arrays[k] \in Seq(Word)
        BY LenProperties, ElementOfSeq DEF MachineInv, MachineTypes
      <3>2. QED
        BY <3>1, LenProperties, ElementOfSeq
    <2>4. QED
      BY <2>1, <2>2, <2>3 DEF LangTypeOK
  <1>2. QED
    BY <1>1, MachineInvariant, PTL

\* Control stays in the code: the machine never runs off the end of a
\* function, and every return comes back behind the call.
THEOREM ControlStaysInCode == MachineSpec => []ControlInCode
  <1>1. MachineInv => ControlInCode
    BY DEF MachineInv
  <1>2. QED
    BY <1>1, MachineInvariant, PTL

-----------------------------------------------------------------------------
(***************************************************************************)
(* The machine on words implements the machine on integers.                *)
(***************************************************************************)
\* Both have the same layout of code and the same arithmetic.
LEMMA SameCode ==
  /\ \A op : OnInt32!ByteSize(op) = ByteSize(op)
  /\ \A funcs, id : OnInt32!FuncWithId(funcs, id) = FuncWithId(funcs, id)
  /\ \A i : OnInt32!ArgReg(i) = ArgReg(i)
  /\ OnInt32!CallOps = CallOps /\ OnInt32!Empty = Empty
  BY DEF OnInt32!ByteSize, ByteSize, OnInt32!FuncWithId, FuncWithId, OnInt32!ArgReg, ArgReg,
         OnInt32!CallOps, CallOps, OnInt32!ArgCount, ArgCount, OnInt32!Empty, Empty

LEMMA SameArithmetic ==
  /\ \A op, x, y : OnInt32!Apply(op, x, y) = Apply(op, x, y)
  /\ \A x : OnInt32!Wrap(x) = Wrap(x)
  <1>1. \A x : OnInt32!Wrap(x) = Wrap(x)
    BY DEF OnInt32!Wrap, Wrap, OnInt32!Signed, Signed
  <1>2. \A x, y : OnInt32!Traps(x, y) = Traps(x, y) /\ OnInt32!Quotient(x, y) = Quotient(x, y)
    BY DEF OnInt32!Traps, Traps, OnInt32!Quotient, Quotient, OnInt32!Abs, Abs
  <1>3. QED
    BY <1>1, <1>2 DEF OnInt32!Apply, Apply

LEMMA SameValues ==
  /\ \A x : OnInt32!Integer(x) = Integer(x)
  /\ \A k : OnInt32!Reference(k) = Reference(k)
  BY DEF OnInt32!Integer, Integer, OnInt32!Reference, Reference, OnInt32!getValue, getValue,
         OnInt32!Signed, Signed

LEMMA UnsignedValue ==
  ASSUME NEW w \in Word
  PROVE  OnInt32!Unsigned(ValueOf(w)) = w.lo
  <1>1. w.lo \in Half /\ w.lo \in Int
    BY DEF Word, Half
  <1>2. CASE w.lo < Modulus \div 2
    BY <1>1, <1>2, ModSmall DEF OnInt32!Unsigned, ValueOf, getValue, Signed
  <1>3. CASE w.lo >= Modulus \div 2
    <2>1. getValue(w) = w.lo - Modulus
      BY <1>1, <1>3, HalfModulus DEF getValue, Signed
    <2>2. getValue(w) \in Int /\ -Modulus <= getValue(w) /\ getValue(w) < 0
      BY <1>1, <2>1, ModulusAssumption DEF Half
    <2>3. QED
      BY <1>1, <2>1, <2>2, ModNegative, ModulusAssumption DEF OnInt32!Unsigned, ValueOf
  <1>4. QED
    BY <1>1, <1>2, <1>3, HalfModulus

\* What the words that an integer handler may leave stand for, and integers.
ReadFrom(ws) == { ValueOf(w) : w \in ws }
AsIntegers(xs) == { Integer(x) : x \in xs }

LEMMA ReadAsOne ==
  ASSUME NEW ws, NEW x, ReadAs(ws, x)
  PROVE  ReadFrom(ws) = AsIntegers({x})
  BY PlainValue DEF ReadAs, ReadFrom, AsIntegers

\* Each handler is the operator of the source language on what its operands
\* are read as, and leaves an integer, not a reference.
THEOREM HandlersAreOperators ==
  ASSUME NEW u \in Word, NEW rs \in Word,
         NEW x, x = getValue(u), NEW y, y = getValue(rs)
  PROVE  /\ ReadFrom(AddI32(u, rs)) = AsIntegers(Apply("+", x, y))
         /\ ReadFrom(SubI32(u, rs)) = AsIntegers(Apply("-", x, y))
         /\ ReadFrom(MulI32(u, rs)) = AsIntegers(Apply("*", x, y))
         /\ ReadFrom(DivI32(u, rs)) = AsIntegers(Apply("/", x, y))
         /\ ReadFrom(CmpEqI32(u, rs)) = AsIntegers(Apply("==", x, y))
         /\ ReadFrom(CmpGgI32(u, rs)) = AsIntegers(Apply(">", x, y))
         /\ ReadFrom(CmpLlI32(u, rs)) = AsIntegers(Apply("<", x, y))
  <1>1. ReadFrom(DivI32(u, rs)) = AsIntegers(Apply("/", x, y))
    <2>1. CASE Traps(x, y)
      <3>1. DivI32(u, rs) = {}
        BY <2>1, HandlersCorrect
      <3>2. QED
        BY <2>1, <3>1 DEF Apply, ReadFrom, AsIntegers
    <2>2. CASE ~Traps(x, y)
      <3>1. ReadAs(DivI32(u, rs), Quotient(x, y))
        BY <2>2, HandlersCorrect
      <3>2. QED
        BY <2>2, <3>1, ReadAsOne DEF Apply
    <2>3. QED
      BY <2>1, <2>2
  <1>2. /\ ReadFrom(AddI32(u, rs)) = AsIntegers({Wrap(x + y)})
        /\ ReadFrom(SubI32(u, rs)) = AsIntegers({Wrap(x - y)})
        /\ ReadFrom(MulI32(u, rs)) = AsIntegers({Wrap(x * y)})
        /\ ReadFrom(CmpEqI32(u, rs)) = AsIntegers({IF x = y THEN 1 ELSE 0})
        /\ ReadFrom(CmpGgI32(u, rs)) = AsIntegers({IF x > y THEN 1 ELSE 0})
        /\ ReadFrom(CmpLlI32(u, rs)) = AsIntegers({IF x < y THEN 1 ELSE 0})
    BY HandlersCorrect, ReadAsOne
  <1>3. QED
    BY <1>1, <1>2 DEF Apply

\* What the integer machine sees of the state.
LEMMA Seeing ==
  ASSUME MachineInv, status = "run"
  PROVE  /\ DOMAIN Activations(stack) = 1 .. Len(stack)
         /\ OnInt32!Depth = Len(stack)
         /\ OnInt32!Regs = Values(Current.regs)
         /\ Activations(stack)[Len(stack)].ret = Current.ret
         /\ OnInt32!Instr = Instr
         /\ OnInt32!Next1 = Following
         /\ \A k : OnInt32!Reg(k) = ValueOf(Rs(k))
  <1>1. Len(stack) \in Nat /\ Len(stack) > 0 /\ DOMAIN stack = 1 .. Len(stack)
    BY Running
  <1>2. DOMAIN Activations(stack) = 1 .. Len(stack)
    BY <1>1 DEF Activations, Activation
  <1>3. OnInt32!Depth = Len(stack)
    BY <1>1, <1>2 DEF OnInt32!Depth, Activations
  <1>4. OnInt32!Regs = Values(Current.regs) /\ Activations(stack)[Len(stack)].ret = Current.ret
    BY <1>1, <1>3 DEF OnInt32!Regs, Activations, Activation, Current
  <1>5. OnInt32!Instr = Instr /\ OnInt32!Next1 = Following
    BY SameCode DEF OnInt32!Instr, Instr, OnInt32!Next1, Following
  <1>6. ASSUME NEW k PROVE OnInt32!Reg(k) = ValueOf(Rs(k))
    BY <1>4, <1>5, ZeroWord, SameValues DEF OnInt32!Reg, Values, Rs, GetReg
  <1>7. QED
    BY <1>2, <1>3, <1>4, <1>5, <1>6

\* How activations change: with the registers of the top frame, when a frame
\* is added, and when it is left.
LEMMA SameFramesMap ==
  ASSUME MachineInv, status = "run", NEW regs, SameFrames(regs)
  PROVE  Activations(stack') = [Activations(stack) EXCEPT ![Len(stack)].regs = Values(regs)]
  <1> DEFINE n   == Len(stack)
             old == Activations(stack)
             new == Activations(stack')
             R(i) == Values(stack[i].regs)
             top == Values(regs)
             ret(i) == stack[i].ret
  <1>1. /\ n \in Nat /\ n > 0 /\ DOMAIN stack = 1 .. n
        /\ DOMAIN stack' = 1 .. n
    BY Running, LenProperties DEF SameFrames
  <1>2. \A i \in 1 .. n :
          /\ stack'[i].ret = stack[i].ret
          /\ stack'[i].regs = IF i = n THEN regs ELSE stack[i].regs
    BY DEF SameFrames
  <1>3. old = [i \in 1 .. n |-> [regs |-> R(i), ret |-> ret(i)]]
    BY <1>1 DEF Activations, Activation
  <1>4. new = [i \in 1 .. n |-> [regs |-> IF i = n THEN top ELSE R(i), ret |-> ret(i)]]
    BY <1>1, <1>2 DEF Activations, Activation
  <1> HIDE DEF n, old, new, R, top, ret
  <1>5. new = [old EXCEPT ![n].regs = top]
    BY <1>1, <1>3, <1>4
  <1>6. QED
    BY <1>5 DEF n, old, new, top

LEMMA SetsMap ==
  ASSUME MachineInv, status = "run", NEW i, NEW w \in Word, Instr.r[i] \in Register, SetsRegister(i, w)
  PROVE  OnInt32!Sets(i, ValueOf(w))
  <1> DEFINE r == Instr.r[i]
             regs == SetReg(Current.regs, r, w)
  <1>1. Current.regs \in RegFile /\ regs \in RegFile
    BY Running, SetRegFile DEF Frame
  <1>2. SameFrames(regs)
    BY <1>1, ContinueFrames DEF SetsRegister
  <1>3. Activations(stack') = [Activations(stack) EXCEPT ![Len(stack)].regs = Values(regs)]
    BY <1>2, SameFramesMap
  <1> HIDE DEF r
  <1>4. Values(SetReg(Current.regs, r, w)) = [x \in DOMAIN Values(Current.regs) \cup {r} |->
                                             IF x = r THEN ValueOf(w) ELSE Values(Current.regs)[x]]
    BY DEF Values, SetReg
  <1>5. pc' = Following /\ UNCHANGED <<build, status, acc, out, result>> /\ ValueOf(acc)' = ValueOf(acc)
    BY DEF SetsRegister, Continue
  <1>6. Values(regs) = [x \in DOMAIN OnInt32!Regs \cup {Instr.r[i]} |->
                       IF x = Instr.r[i] THEN ValueOf(w) ELSE OnInt32!Regs[x]]
    BY <1>4, Seeing DEF r
  <1> DEFINE new == Values(regs)
             old == Activations(stack)
  <1>7. Activations(stack') = [old EXCEPT ![OnInt32!Depth].regs = new]
    BY <1>3, Seeing
  <1> HIDE DEF new, old
  <1>8. Activations(stack') = [old EXCEPT ![OnInt32!Depth].regs =
                                 [x \in DOMAIN OnInt32!Regs \cup {Instr.r[i]} |->
                                    IF x = Instr.r[i] THEN ValueOf(w) ELSE OnInt32!Regs[x]]]
    BY <1>6, <1>7 DEF new
  <1>9. QED
    BY <1>5, <1>8, Seeing DEF OnInt32!Sets, old

\* Frames whose registers stay are the same activations.
LEMMA SameActivations ==
  ASSUME MachineInv, status = "run", NEW p, Continue(p, Current.regs)
  PROVE  Activations(stack') = Activations(stack)
  <1>1. Current.regs \in RegFile /\ Len(stack) \in 1 .. Len(stack)
    BY Running DEF Frame
  <1>2. SameFrames(Current.regs)
    BY <1>1, ContinueFrames
  <1>3. DOMAIN stack = 1 .. Len(stack) /\ DOMAIN stack' = 1 .. Len(stack)
    BY <1>2, Running, LenProperties DEF SameFrames
  <1>4. \A i \in 1 .. Len(stack) : stack'[i].regs = stack[i].regs /\ stack'[i].ret = stack[i].ret
    BY <1>2 DEF SameFrames, Current
  <1>5. QED
    BY <1>3, <1>4 DEF Activations, Activation

LEMMA LeavesMap ==
  ASSUME MachineInv, status = "run", NEW w, SetsAcc(w)
  PROVE  OnInt32!Leaves(ValueOf(w))
  <1>1. Activations(stack') = Activations(stack)
    BY SameActivations DEF SetsAcc
  <1>2. acc' = w /\ pc' = Following /\ UNCHANGED <<build, status, arrays, out, result>>
    BY DEF SetsAcc, Continue
  <1>3. QED
    BY <1>1, <1>2, Seeing DEF OnInt32!Leaves

LEMMA ValuesSeq ==
  ASSUME NEW s, s \in Seq(Word)
  PROVE  Values(s) \in Seq(Value) /\ Len(Values(s)) = Len(s)
  <1>1. DOMAIN s = 1 .. Len(s) /\ Len(s) \in Nat /\ \A i \in 1 .. Len(s) : s[i] \in Word
    BY LenProperties, ElementOfSeq
  <1>2. \A i \in 1 .. Len(s) : ValueOf(s[i]) \in Value
    BY <1>1, WordValue
  <1>3. Values(s) = [i \in 1 .. Len(s) |-> ValueOf(s[i])]
    BY <1>1 DEF Values
  <1>4. QED
    BY <1>1, <1>2, <1>3

LEMMA ElementsSeq ==
  ASSUME NEW as, as \in Seq(Seq(Word))
  PROVE  Elements(as) \in Seq(Seq(Value)) /\ Len(Elements(as)) = Len(as)
  <1>1. DOMAIN as = 1 .. Len(as) /\ Len(as) \in Nat /\ \A k \in 1 .. Len(as) : as[k] \in Seq(Word)
    BY LenProperties, ElementOfSeq
  <1>2. \A k \in 1 .. Len(as) : Values(as[k]) \in Seq(Value)
    BY <1>1, ValuesSeq
  <1>3. Elements(as) = [k \in 1 .. Len(as) |-> Values(as[k])]
    BY <1>1 DEF Elements
  <1> DEFINE S == Seq(Value)
             e == Elements(as)
             n == Len(as)
  <1>4. n \in Nat /\ e \in [1 .. n -> S]
    BY <1>1, <1>2, <1>3
  <1> HIDE DEF S, e, n
  <1>5. e \in Seq(S) /\ Len(e) = n
    BY <1>4
  <1>6. QED
    BY <1>5 DEF S, e, n

\* t is s with a at its end.
Longer(s, a, t) ==
  /\ Len(s) \in Nat
  /\ Len(t) = Len(s) + 1
  /\ DOMAIN s = 1 .. Len(s)
  /\ DOMAIN t = 1 .. Len(s) + 1
  /\ \A k \in 1 .. Len(s) : t[k] = s[k]
  /\ t[Len(s) + 1] = a

LEMMA Appended ==
  ASSUME NEW S, NEW s, s \in Seq(S), NEW a, a \in S
  PROVE  Append(s, a) \in Seq(S) /\ Longer(s, a, Append(s, a))
  BY LenProperties, AppendProperties DEF Longer

LEMMA AppendElements ==
  ASSUME NEW as, as \in Seq(Seq(Word)), NEW a, a \in Seq(Word)
  PROVE  Elements(Append(as, a)) = Append(Elements(as), Values(a))
  <1> DEFINE S == Seq(Word)
             T == Seq(Value)
             n == Len(as)
             b == Append(as, a)
             c == Append(Elements(as), Values(a))
  <1>1. as \in Seq(S) /\ a \in S /\ Elements(as) \in Seq(T) /\ Values(a) \in T /\ Len(Elements(as)) = n
    BY ValuesSeq, ElementsSeq
  <1> HIDE DEF S, T
  <1>a. b \in Seq(S) /\ Longer(as, a, b)
    BY <1>1, Appended
  <1>b. c \in Seq(T) /\ Longer(Elements(as), Values(a), c)
    BY <1>1, Appended
  <1> HIDE DEF b, c
  <1>2. /\ n \in Nat /\ Len(b) = n + 1
        /\ DOMAIN as = 1 .. n /\ DOMAIN b = 1 .. n + 1
        /\ \A k \in 1 .. n : b[k] = as[k]
        /\ b[n + 1] = a
    BY <1>a DEF Longer
  <1>3. /\ Len(c) = n + 1
        /\ \A k \in 1 .. n : c[k] = Elements(as)[k]
        /\ c[n + 1] = Values(a)
    BY <1>1, <1>b DEF Longer
  <1> HIDE DEF n
  <1>4. Elements(b) \in Seq(T) /\ Len(Elements(b)) = n + 1
    BY <1>a, <1>2, ElementsSeq DEF S, T
  <1>5. ASSUME NEW k \in 1 .. n + 1
        PROVE  Elements(b)[k] = c[k]
    <2>1. Elements(b)[k] = Values(b[k])
      BY <1>2 DEF Elements
    <2>2. CASE k \in 1 .. n
      BY <1>2, <1>3, <2>1, <2>2 DEF Elements
    <2>3. CASE k = n + 1
      BY <1>2, <1>3, <2>1, <2>3
    <2>4. QED
      BY <1>2, <2>2, <2>3
  <1>6. Elements(b) = c
    BY <1>b, <1>3, <1>4, <1>5, SeqEqual
  <1>7. QED
    BY <1>6 DEF b, c

\* The same of activations.
ActivationSet == { Activation(f) : f \in Frame }

LEMMA ActivationsSeq ==
  ASSUME NEW s, s \in Seq(Frame)
  PROVE  /\ Activations(s) \in Seq(ActivationSet)
         /\ Len(Activations(s)) = Len(s)
         /\ \A i \in 1 .. Len(s) : Activations(s)[i] = Activation(s[i])
  <1>1. DOMAIN s = 1 .. Len(s) /\ Len(s) \in Nat /\ \A i \in 1 .. Len(s) : s[i] \in Frame
    BY LenProperties, ElementOfSeq
  <1>2. \A i \in 1 .. Len(s) : Activation(s[i]) \in ActivationSet
    BY <1>1 DEF ActivationSet
  <1>3. Activations(s) = [i \in 1 .. Len(s) |-> Activation(s[i])]
    BY <1>1 DEF Activations
  <1>4. QED
    BY <1>1, <1>2, <1>3

LEMMA CallMap ==
  ASSUME MachineInv, Call
  PROVE  OnInt32!Call
  <1> DEFINE fn == FuncWithId(build.funcs, Instr.imm)
             f  == NewFrame(fn, Args, Following)
             n  == Len(stack)
  <1>1. status = "run" /\ Instr.op \in CallOps /\ pc \in DOMAIN build.code
    BY DEF Call, Fetched
  <1>2. /\ fn \in DOMAIN build.funcs /\ Args \in RegFile /\ WellFormed(build)
        /\ Following \in Int /\ stack \in Seq(Frame) /\ n \in Nat
    BY <1>1, CalleeFound, Running, Going DEF CallOps, ArgCount, MachineInv, MachineTypes, FuncCode, WellFormed
  <1>3. f \in Frame /\ f.ret = Following /\ f.regs = Args
    BY <1>2, NewFrameIs
  <1>4. /\ stack' = Append(stack, f) /\ pc' = build.funcs[fn].start
        /\ UNCHANGED <<build, status, acc, arrays, out, result>>
    BY DEF Call, Args
  <1> HIDE DEF fn, f
  <1>5. stack' \in Seq(Frame) /\ Longer(stack, f, stack')
    BY <1>2, <1>3, <1>4, Appended
  <1>6. /\ Activations(stack) \in Seq(ActivationSet) /\ Len(Activations(stack)) = n
        /\ \A i \in 1 .. n : Activations(stack)[i] = Activation(stack[i])
    BY <1>2, ActivationsSeq
  <1>7. /\ Activations(stack') \in Seq(ActivationSet) /\ Len(Activations(stack')) = n + 1
        /\ \A i \in 1 .. n + 1 : Activations(stack')[i] = Activation(stack'[i])
    <2>1. /\ Activations(stack') \in Seq(ActivationSet) /\ Len(Activations(stack')) = Len(stack')
          /\ \A i \in 1 .. Len(stack') : Activations(stack')[i] = Activation(stack'[i])
      BY <1>5, ActivationsSeq
    <2>2. QED
      BY <1>5, <2>1 DEF Longer
  <1> DEFINE a == Activation(f)
             t == Append(Activations(stack), a)
  <1>8. t \in Seq(ActivationSet) /\ Longer(Activations(stack), a, t)
    BY <1>3, <1>6, Appended DEF ActivationSet
  <1> HIDE DEF a, t
  <1>9. Activations(stack') = t
    <2>1. ASSUME NEW i \in 1 .. n + 1 PROVE Activations(stack')[i] = t[i]
      BY <1>2, <1>5, <1>6, <1>7, <1>8 DEF Longer, a
    <2>2. QED
      BY <1>6, <1>7, <1>8, <2>1, SeqEqual DEF Longer
  <1>10. a = [regs |-> [x \in { ArgReg(i) : i \in DOMAIN Instr.r } |-> ValueOf(Rs(NumRegs - x))],
              ret  |-> Following]
    <2>1. Values(Args) = [x \in { ArgReg(i) : i \in DOMAIN Instr.r } |-> ValueOf(Rs(NumRegs - x))]
      BY DEF Values, Args
    <2>2. QED
      BY <1>3, <2>1 DEF a, Activation
  <1>11. [x \in { OnInt32!ArgReg(i) : i \in DOMAIN OnInt32!Instr.r } |-> OnInt32!Reg(NumRegs - x)]
           = [x \in { ArgReg(i) : i \in DOMAIN Instr.r } |-> ValueOf(Rs(NumRegs - x))]
    BY <1>1, Seeing, SameCode
  <1>12. OnInt32!At(OnInt32!CallOps) /\ OnInt32!Next1 = Following /\ OnInt32!Instr = Instr
    BY <1>1, Seeing, SameCode DEF OnInt32!At
  <1>13. ValueOf(acc)' = ValueOf(acc) /\ Elements(arrays)' = Elements(arrays)
    BY <1>4
  <1>14. Activations(stack') = Append(Activations(stack),
            [regs |-> [x \in { OnInt32!ArgReg(i) : i \in DOMAIN OnInt32!Instr.r } |-> OnInt32!Reg(NumRegs - x)],
             ret |-> OnInt32!Next1])
    BY <1>9, <1>10, <1>11, <1>12 DEF t
  <1>15. pc' = build.funcs[OnInt32!FuncWithId(build.funcs, OnInt32!Instr.imm)].start
    BY <1>4, <1>12, SameCode DEF fn
  <1>16. QED
    BY <1>4, <1>12, <1>13, <1>14, <1>15 DEF OnInt32!Call

-----------------------------------------------------------------------------
\* The other instructions, one by one.
LEMMA FetchedMap ==
  ASSUME NEW ops, Fetched(ops)
  PROVE  OnInt32!At(ops) /\ OnInt32!Instr = Instr /\ status = "run" /\ Instr.op \in ops
  BY DEF Fetched, OnInt32!At, OnInt32!Instr, Instr

LEMMA MovesMap ==
  ASSUME MachineInv, Mov \/ MovImm \/ Sta
  PROVE  OnInt32!Move
  <1>1. UNCHANGED Elements(arrays)
    BY DEF Mov, MovImm, Sta
  <1>2. CASE Mov
    <2>1. OnInt32!At({"MOV"}) /\ status = "run" /\ Instr.op = "MOV" /\ SetsRegister(2, Rs(1))
      BY <1>2, FetchedMap DEF Mov
    <2>2. OnInt32!Sets(2, ValueOf(Rs(1)))
      BY <2>1, Going, OperandWord, SetsMap DEF TwoRegs
    <2>3. QED
      BY <1>1, <2>1, <2>2, Seeing DEF OnInt32!Move
  <1>3. CASE MovImm
    <2>1. /\ OnInt32!At({"MOV_IMM_I32"}) /\ status = "run" /\ Instr.op = "MOV_IMM_I32"
          /\ SetsRegister(1, signExtend(Instr.imm)) /\ OnInt32!Instr = Instr
      BY <1>3, FetchedMap DEF MovImm
    <2>2. /\ signExtend(Instr.imm) \in Word
          /\ ValueOf(signExtend(Instr.imm)) = OnInt32!Integer(OnInt32!Wrap(Instr.imm))
      BY <2>1, Going, ExtendReads, PlainValue, SameArithmetic, SameValues
    <2>3. OnInt32!Sets(1, OnInt32!Integer(OnInt32!Wrap(Instr.imm)))
      BY <2>1, <2>2, Going, SetsMap DEF OneReg
    <2>4. QED
      BY <1>1, <2>1, <2>3 DEF OnInt32!Move
  <1>4. CASE Sta
    <2>1. OnInt32!At({"STA"}) /\ status = "run" /\ Instr.op = "STA" /\ SetsRegister(1, acc)
      BY <1>4, FetchedMap DEF Sta
    <2>2. acc \in Word
      BY DEF MachineInv, MachineTypes
    <2>3. OnInt32!Sets(1, ValueOf(acc))
      BY <2>1, <2>2, Going, SetsMap DEF OneReg
    <2>4. QED
      BY <1>1, <2>1, <2>3 DEF OnInt32!Move
  <1>5. QED
    BY <1>2, <1>3, <1>4

LEMMA NewMap ==
  ASSUME MachineInv, ArrNew
  PROVE  OnInt32!New
  <1> DEFINE n == Rs(2).lo
             w == Address[Len(arrays')]
  <1>1. /\ OnInt32!At({"ARR_NEW_I32"}) /\ status = "run" /\ Instr.op = "ARR_NEW_I32"
        /\ arrays' = Append(arrays, NewArray(n)) /\ SetsRegister(1, w)
        /\ Len(arrays) < Len(Address)
    BY FetchedMap DEF ArrNew, NewArray
  <1>2. arrays \in Seq(Seq(Word)) /\ n \in Nat
    BY <1>1, OperandWord DEF Word, Half, MachineInv, MachineTypes
  <1>3. NewArray(n) \in Seq(Word)
    BY <1>2, NewArrayWords
  <1>4. Elements(arrays') = Append(Elements(arrays), Values(NewArray(n)))
    BY <1>1, <1>2, <1>3, AppendElements
  <1>5. Values(NewArray(n)) = [i \in 1 .. OnInt32!Unsigned(OnInt32!Reg(2)) |-> OnInt32!Integer(0)]
    <2>1. OnInt32!Unsigned(OnInt32!Reg(2)) = n
      BY <1>1, Seeing, OperandWord, UnsignedValue
    <2>2. QED
      BY <2>1, NewArrayWords, ZeroWord, SameValues DEF Values, NewArray
  <1>6. arrays' \in Seq(Seq(Word))
    BY <1>1, <1>2, <1>3
  <1>7. /\ w \in Word /\ ValueOf(w) = OnInt32!Reference(Len(Elements(arrays')))
        /\ Len(Elements(arrays)) < Len(Address)
    <2>1. /\ Len(Elements(arrays')) = Len(arrays') /\ Len(Elements(arrays)) = Len(arrays)
          /\ Len(arrays) \in Nat /\ Len(Address) \in Nat
      BY <1>2, <1>6, AddressAssumption, LenProperties, ElementsSeq
    <2> DEFINE S == Seq(Word)
               a == NewArray(n)
    <2>2. arrays \in Seq(S) /\ a \in S
      BY <1>2, <1>3
    <2> HIDE DEF S, a
    <2>3. Len(Append(arrays, a)) = Len(arrays) + 1
      BY <2>2, AppendProperties
    <2>4. Len(arrays') = Len(arrays) + 1
      BY <1>1, <2>3 DEF a
    <2>5. Len(arrays') \in 1 .. Len(Address)
      BY <1>1, <2>1, <2>4
    <2>6. QED
      BY <1>1, <2>1, <2>5, AddressWord, SameValues
  <1>8. OnInt32!Sets(1, ValueOf(w))
    BY <1>1, <1>7, Going, SetsMap DEF TwoRegs
  <1>9. QED
    BY <1>1, <1>4, <1>5, <1>7, <1>8 DEF OnInt32!New

\* The operators of both, and the results of an instruction that computes.
LEMMA ResultsMap ==
  ASSUME MachineInv, status = "run", Instr.op \in Computing
  PROVE  ReadFrom(Results) = AsIntegers(OnInt32!Results)
  <1> DEFINE x == getValue(acc)
             y == getValue(Rs(1))
  <1>1. acc \in Word /\ Rs(1) \in Word
    BY OperandWord DEF MachineInv, MachineTypes
  <1>2. OnInt32!Results = Apply(OnInt32!Operator[Instr.op], x, y)
    BY <1>1, Seeing, WordValue, SameArithmetic DEF OnInt32!Results
  <1>3. ReadFrom(Results) = AsIntegers(Apply(OnInt32!Operator[Instr.op], x, y))
    BY <1>1, HandlersAreOperators DEF Results, Computing, OnInt32!Operator
  <1>4. QED
    BY <1>2, <1>3

LEMMA SameComputing == DOMAIN OnInt32!Operator = Computing
  BY DEF OnInt32!Operator, Computing

\* The element that an access names.
LEMMA InsideMap ==
  ASSUME MachineInv, status = "run"
  PROVE  /\ OnInt32!Array = ArrayIn(Rs(1)) /\ OnInt32!Index = Rs(2).lo + 1
         /\ OnInt32!Inside <=> InBounds(Rs(1), Rs(2))
         /\ InBounds(Rs(1), Rs(2)) =>
              Elements(arrays)[OnInt32!Array][OnInt32!Index] = ValueOf(ArrayAt(Rs(1))[Rs(2).lo + 1])
  <1>1. OnInt32!Array = ArrayIn(Rs(1)) /\ OnInt32!Index = Rs(2).lo + 1
    BY Seeing, OperandWord, UnsignedValue, WordValue DEF OnInt32!Array, OnInt32!Index, ArrayIn
  <1>2. DOMAIN Elements(arrays) = DOMAIN arrays
        /\ \A k \in DOMAIN arrays : Elements(arrays)[k] = Values(arrays[k])
    BY DEF Elements
  <1>3. \A s : DOMAIN Values(s) = DOMAIN s /\ \A i \in DOMAIN s : Values(s)[i] = ValueOf(s[i])
    BY DEF Values
  <1>4. QED
    BY <1>1, <1>2, <1>3 DEF OnInt32!Inside, InBounds, ArrayAt

LEMMA ReadMap ==
  ASSUME MachineInv, Lda \/ Compute \/ Scan \/ ArrLda
  PROVE  OnInt32!Read
  <1>1. CASE Lda
    BY <1>1, FetchedMap, Seeing, LeavesMap DEF Lda, OnInt32!Read
  <1>2. CASE Compute
    <2>1. OnInt32!At(DOMAIN OnInt32!Operator) /\ status = "run" /\ Instr.op \in Computing
      BY <1>2, FetchedMap, SameComputing DEF Compute
    <2>2. PICK w \in Results : SetsAcc(w)
      BY <1>2 DEF Compute
    <2>3. PICK x \in OnInt32!Results : ValueOf(w) = OnInt32!Integer(x)
      BY <2>1, <2>2, ResultsMap, SameValues DEF ReadFrom, AsIntegers
    <2>4. OnInt32!Leaves(OnInt32!Integer(x))
      BY <2>1, <2>2, <2>3, LeavesMap
    <2>5. QED
      BY <2>1, <2>3, <2>4 DEF OnInt32!Read
  <1>3. CASE Scan
    <2>1. OnInt32!At({"INTRINSIC"}) /\ status = "run" /\ OnInt32!Instr.imm = "SCAN_I32"
      BY <1>3, FetchedMap DEF Scan
    <2>2. PICK x \in Inputs : SetsAcc(castToWritable(x))
      BY <1>3 DEF Scan
    <2>3. ValueOf(castToWritable(x)) = OnInt32!Integer(x)
      BY CastReads, PlainValue, SameValues, WrapFits, InputsAssumption, HalfModulus DEF Int32
    <2>4. OnInt32!Leaves(OnInt32!Integer(x))
      BY <2>1, <2>2, <2>3, LeavesMap
    <2>5. QED
      BY <2>1, <2>4 DEF OnInt32!Read
  <1>4. CASE ArrLda
    <2>1. /\ OnInt32!At({"ARR_LDA_I32"}) /\ status = "run" /\ InBounds(Rs(1), Rs(2))
          /\ SetsAcc(ArrayAt(Rs(1))[Rs(2).lo + 1])
      BY <1>4, FetchedMap DEF ArrLda
    <2>2. OnInt32!Inside /\ OnInt32!Leaves(Elements(arrays)[OnInt32!Array][OnInt32!Index])
      BY <2>1, InsideMap, LeavesMap
    <2>3. QED
      BY <2>1, <2>2 DEF OnInt32!Read
  <1>5. QED
    BY <1>1, <1>2, <1>3, <1>4

LEMMA ElementsExcept ==
  ASSUME NEW as, NEW k \in DOMAIN as, NEW i \in DOMAIN as[k], NEW w
  PROVE  Elements([as EXCEPT ![k][i] = w]) = [Elements(as) EXCEPT ![k][i] = ValueOf(w)]
  BY DEF Elements, Values

LEMMA WriteMap ==
  ASSUME MachineInv, PrintI32 \/ ArrSta
  PROVE  OnInt32!Write
  <1>1. /\ status = "run" /\ Continue(Following, Current.regs)
        /\ UNCHANGED <<build, status, acc, result>>
    BY DEF PrintI32, ArrSta, Fetched
  <1>2. /\ pc' = OnInt32!Next1 /\ Activations(stack') = Activations(stack)
        /\ ValueOf(acc)' = ValueOf(acc)
    BY <1>1, Seeing, SameActivations DEF Continue
  <1>3. CASE PrintI32
    <2>1. /\ OnInt32!At({"INTRINSIC"}) /\ OnInt32!Instr.imm = "PRINT_I32"
          /\ out' = Append(out, OnInt32!Reg(1).int) /\ UNCHANGED arrays
      BY <1>1, <1>3, FetchedMap, Seeing, OperandWord, WordValue DEF PrintI32
    <2>2. QED
      BY <1>1, <1>2, <2>1 DEF OnInt32!Write
  <1>4. CASE ArrSta
    <2>1. /\ OnInt32!At({"ARR_STA_I32"}) /\ InBounds(Rs(1), Rs(2)) /\ UNCHANGED out
          /\ arrays' = [arrays EXCEPT ![ArrayIn(Rs(1))][Rs(2).lo + 1] = acc]
      BY <1>4, FetchedMap DEF ArrSta
    <2>2. OnInt32!Inside /\ OnInt32!Array = ArrayIn(Rs(1)) /\ OnInt32!Index = Rs(2).lo + 1
      BY <1>1, <2>1, InsideMap
    <2>3. Elements(arrays') = [Elements(arrays) EXCEPT ![OnInt32!Array][OnInt32!Index] = ValueOf(acc)]
      <3>1. ArrayIn(Rs(1)) \in DOMAIN arrays /\ Rs(2).lo + 1 \in DOMAIN arrays[ArrayIn(Rs(1))]
        BY <2>1 DEF InBounds, ArrayAt
      <3>2. Elements([arrays EXCEPT ![ArrayIn(Rs(1))][Rs(2).lo + 1] = acc])
              = [Elements(arrays) EXCEPT ![ArrayIn(Rs(1))][Rs(2).lo + 1] = ValueOf(acc)]
        BY <3>1, ElementsExcept
      <3>3. QED
        BY <2>1, <2>2, <3>2, Zenon
    <2>4. QED
      BY <1>1, <1>2, <2>1, <2>2, <2>3 DEF OnInt32!Write
  <1>5. QED
    BY <1>3, <1>4

LEMMA TrapMap ==
  ASSUME MachineInv, Trap
  PROVE  OnInt32!Trap
  <1>1. /\ status' = "undef" /\ UNCHANGED <<build, pc, out, result>>
        /\ UNCHANGED <<ValueOf(acc), Activations(stack), Elements(arrays)>>
    BY DEF Trap
  <1>2. CASE Fetched(Computing) /\ Results = {}
    <2>1. OnInt32!At(DOMAIN OnInt32!Operator) /\ OnInt32!Results = {}
      BY <1>2, FetchedMap, SameComputing, ResultsMap DEF ReadFrom, AsIntegers
    <2>2. QED
      BY <1>1, <2>1 DEF OnInt32!Trap
  <1>3. CASE Fetched({"ARR_LDA_I32", "ARR_STA_I32"}) /\ ~InBounds(Rs(1), Rs(2))
    <2>1. OnInt32!At({"ARR_LDA_I32", "ARR_STA_I32"}) /\ ~OnInt32!Inside
      BY <1>3, FetchedMap, InsideMap
    <2>2. QED
      BY <1>1, <2>1 DEF OnInt32!Trap
  <1>4. QED
    BY <1>2, <1>3 DEF Trap

LEMMA JumpMap ==
  ASSUME MachineInv, Jump \/ JumpEq
  PROVE  OnInt32!Jump
  <1>1. /\ OnInt32!At({"JUMP", "JUMP_EQ"}) /\ OnInt32!Instr = Instr /\ status = "run"
        /\ Instr.op \in {"JUMP", "JUMP_EQ"}
    BY FetchedMap DEF Jump, JumpEq, Fetched, OnInt32!At
  <1>2. pc' = IF Instr.op = "JUMP" \/ getValue(acc) = getValue(Rs(1)) THEN pc + Instr.imm ELSE Following
    BY DEF Jump, JumpEq, Fetched, Continue
  <1>3. /\ Activations(stack') = Activations(stack) /\ UNCHANGED <<build, status, out, result>>
        /\ UNCHANGED <<ValueOf(acc), Elements(arrays)>>
    BY <1>1, SameActivations DEF Jump, JumpEq
  <1>4. pc' = IF OnInt32!Instr.op = "JUMP" \/ ValueOf(acc).int = OnInt32!Reg(1).int
              THEN pc + OnInt32!Instr.imm ELSE OnInt32!Next1
    <2>1. acc \in Word /\ Rs(1) \in Word
      BY <1>1, OperandWord DEF MachineInv, MachineTypes
    <2>2. QED
      BY <1>1, <1>2, <2>1, Seeing, WordValue
  <1>5. QED
    BY <1>1, <1>3, <1>4 DEF OnInt32!Jump

LEMMA RetMap ==
  ASSUME MachineInv, Ret
  PROVE  OnInt32!Ret
  <1>1. /\ OnInt32!At({"RET"}) /\ status = "run" /\ result' = ValueOf(acc)
        /\ UNCHANGED <<build, out>> /\ UNCHANGED <<ValueOf(acc), Elements(arrays)>>
    BY FetchedMap DEF Ret
  <1>2. Activations(stack)[OnInt32!Depth].ret = Current.ret /\ OnInt32!Depth = Len(stack)
    BY <1>1, Seeing
  <1>3. CASE Current.ret = -1
    BY <1>1, <1>2, <1>3 DEF Ret, OnInt32!Ret
  <1>4. CASE Current.ret # -1
    <2> DEFINE n == Len(stack)
               old == Activations(stack)
               new == Activations(stack')
               cut == SubSeq(old, 1, n - 1)
    <2>1. /\ n > 1 /\ n \in Nat /\ pc' = Current.ret /\ UNCHANGED status
          /\ stack \in Seq(Frame) /\ stack' \in Seq(Frame) /\ Len(stack') = n - 1
          /\ \A i \in 1 .. n - 1 : stack'[i].ret = stack[i].ret /\ stack'[i].regs = stack[i].regs
      BY <1>4, ReturnFrames DEF MachineInv, MachineTypes
    <2>2. /\ old \in Seq(ActivationSet) /\ Len(old) = n
          /\ \A i \in 1 .. n : old[i] = Activation(stack[i])
      BY <2>1, ActivationsSeq
    <2>3. /\ new \in Seq(ActivationSet) /\ Len(new) = n - 1
          /\ \A i \in 1 .. n - 1 : new[i] = Activation(stack'[i])
      BY <2>1, ActivationsSeq
    <2>4. ASSUME NEW i \in 1 .. n - 1 PROVE new[i] = old[i]
      <3>1. i \in 1 .. n /\ new[i] = Activation(stack'[i]) /\ old[i] = Activation(stack[i])
        BY <2>1, <2>2, <2>3
      <3>2. stack'[i].ret = stack[i].ret /\ stack'[i].regs = stack[i].regs
        BY <2>1
      <3>3. QED
        BY <3>1, <3>2 DEF Activation
    <2> HIDE DEF old, new
    <2>5. cut \in Seq(ActivationSet) /\ Len(cut) = n - 1 /\ \A i \in 1 .. n - 1 : cut[i] = old[i]
      BY <2>1, <2>2
    <2> HIDE DEF cut
    <2>6. new = cut
      BY <2>1, <2>3, <2>4, <2>5, SeqEqual
    <2>7. Activations(stack') = SubSeq(Activations(stack), 1, OnInt32!Depth - 1)
      BY <1>2, <2>6 DEF new, old, cut
    <2>8. QED
      BY <1>1, <1>2, <1>4, <2>1, <2>7 DEF OnInt32!Ret
  <1>5. QED
    BY <1>3, <1>4

LEMMA LoadMap ==
  ASSUME MachineInv, Load
  PROVE  OnInt32!Load
  <1>1. /\ status = "compiled" /\ status' = "run" /\ UNCHANGED <<build, out, result>>
        /\ UNCHANGED <<ValueOf(acc), Elements(arrays)>> /\ WellFormed(build)
    BY DEF Load, MachineInv, CodeOK
  <1>2. PICK fn \in DOMAIN build.funcs :
          /\ build.funcs[fn].name = "main" /\ FuncWithId(build.funcs, build.funcs[fn].id) = fn
          /\ pc' = build.funcs[fn].start /\ stack' = <<NewFrame(fn, Empty, -1)>>
    BY DEF Load
  <1> DEFINE f == NewFrame(fn, Empty, -1)
  <1>3. f.ret = -1 /\ f.regs = Empty
    <2>1. Empty \in [{} -> Word] /\ {} \subseteq Register
      BY DEF Empty
    <2>2. Empty \in RegFile
      BY <2>1, IsRegFile
    <2>3. QED
      BY <1>1, <2>2, NewFrameIs
  <1> HIDE DEF f
  <1>4. Activations(stack') = <<[regs |-> OnInt32!Empty, ret |-> -1]>>
    <2>1. Values(Empty) = OnInt32!Empty
      BY DEF Values, Empty, OnInt32!Empty
    <2>2. Activation(f) = [regs |-> OnInt32!Empty, ret |-> -1]
      BY <1>3, <2>1 DEF Activation
    <2>3. Activations(<<f>>) = <<Activation(f)>>
      BY DEF Activations
    <2>4. QED
      BY <1>2, <2>2, <2>3 DEF f
  <1>5. QED
    BY <1>1, <1>2, <1>4, SameCode DEF OnInt32!Load

LEMMA InitMap == MachineInit => OnInt32!Init
  <1> SUFFICES ASSUME MachineInit PROVE OnInt32!Init
    OBVIOUS
  <1>1. ValueOf(acc) = OnInt32!Integer(0) /\ Integer(0) = OnInt32!Integer(0)
    BY ZeroWord, SameValues DEF MachineInit
  <1>2. Activations(stack) = <<>> /\ Elements(arrays) = <<>>
    BY DEF MachineInit, Activations, Elements
  <1>3. QED
    BY <1>1, <1>2 DEF MachineInit, OnInt32!Init

LEMMA StepMap == MachineInv /\ [MachineNext]_machine => [OnInt32!Next]_(OnInt32!vars)
  <1> SUFFICES ASSUME MachineInv, [MachineNext]_machine PROVE [OnInt32!Next]_(OnInt32!vars)
    OBVIOUS
  <1>1. CASE Receive
    BY <1>1 DEF Receive, OnInt32!Receive, OnInt32!Next
  <1>2. CASE Load
    BY <1>2, LoadMap DEF OnInt32!Next
  <1>3. CASE Mov \/ MovImm \/ Sta
    BY <1>3, MovesMap DEF OnInt32!Next
  <1>4. CASE ArrNew
    BY <1>4, NewMap DEF OnInt32!Next
  <1>5. CASE Lda \/ Compute \/ Scan \/ ArrLda
    BY <1>5, ReadMap DEF OnInt32!Next
  <1>6. CASE PrintI32 \/ ArrSta
    BY <1>6, WriteMap DEF OnInt32!Next
  <1>7. CASE Trap
    BY <1>7, TrapMap DEF OnInt32!Next
  <1>8. CASE Jump \/ JumpEq
    BY <1>8, JumpMap DEF OnInt32!Next
  <1>9. CASE Call
    BY <1>9, CallMap DEF OnInt32!Next
  <1>10. CASE Ret
    BY <1>10, RetMap DEF OnInt32!Next
  <1>11. CASE UNCHANGED machine
    BY <1>11 DEF machine, OnInt32!vars
  <1>12. QED
    BY <1>1, <1>2, <1>3, <1>4, <1>5, <1>6, <1>7, <1>8, <1>9, <1>10, <1>11 DEF MachineNext, Exec

\* Every behaviour of the machine on words is, each word taken for what it
\* stands for, one of the machine on integers of 32 bits and references:
\* programs cannot tell in which form the handlers leave a number, compute
\* with the arithmetic of the language, and access arrays only through the
\* references that creating them gave, whatever else they do with those.
THEOREM MachineComputesOnInt32 == MachineSpec => ComputesOnInt32
  BY InitMap, StepMap, MachineInvariant, PTL DEF MachineSpec, ComputesOnInt32, OnInt32!Spec

=============================================================================
