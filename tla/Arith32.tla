------------------------------ MODULE Arith32 ------------------------------
(***************************************************************************)
(* Integers of the machine.  A register holds 64 bits, which the integer   *)
(* instructions take for 32: a word is its two halves, an operand is the   *)
(* low one.  What goes into the high half differs from handler to handler. *)
(***************************************************************************)
EXTENDS Integers

CONSTANT Modulus      \* values of a half, 2^32 in the code

ASSUME ModulusAssumption == Modulus \in Nat /\ Modulus > 2 /\ Modulus % 2 = 0

Half  == 0 .. Modulus - 1
Word  == [hi : Half, lo : Half]
Int32 == -(Modulus \div 2) .. (Modulus \div 2) - 1

\* std::bit_cast from the unsigned to the signed type, and the value an
\* operation on int32_t has when it wraps around.
Signed(n) == IF n < Modulus \div 2 THEN n ELSE n - Modulus
Wrap(x)   == Signed(x % Modulus)

\* bit::getValue<int32_t>; also the conversion from uint64_t to int32_t.
getValue(w) == Signed(w.lo)

\* Mutant of castToWritable: the value is not cut to its 32 bits.
castUncut(x) == [hi |-> 0, lo |-> x]

\* bit::castToWritable of a 32-bit value: zeros above.
castToWritable(x) == [hi |-> 0, lo |-> x % Modulus]

\* The conversion from int32_t to uint64_t, and bit::signExtend<DWord, 31>:
\* the sign above.
signExtend(x) == [hi |-> IF x < 0 THEN Modulus - 1 ELSE 0, lo |-> x % Modulus]

\* A sum or product that overflows is undefined.  A build that adds 64-bit
\* registers extends the sign of the true value, one that adds 32-bit
\* registers the sign of the wrapped one; the low half is the same.
Extended(x) == { [signExtend(y) EXCEPT !.lo = x % Modulus] : y \in {x, Wrap(x)} }

\* Division of C++: towards zero.
Abs(x)      == IF x < 0 THEN -x ELSE x
Quotient(x, y)  == IF (x < 0) = (y < 0) THEN Abs(x) \div Abs(y) ELSE -(Abs(x) \div Abs(y))
Remainder(x, y) == x - y * Quotient(x, y)

\* The divisions that stop the program with a signal.
Traps(x, y) == y = 0 \/ (y = -1 /\ x = -(Modulus \div 2))

\* What a program means by an operator: one result, or none for a division
\* that traps.  The handlers below are to be compared with this.
Apply(op, x, y) ==
  CASE op = "+"  -> {Wrap(x + y)}
    [] op = "-"  -> {Wrap(x - y)}
    [] op = "*"  -> {Wrap(x * y)}
    [] op = "/"  -> IF Traps(x, y) THEN {} ELSE {Quotient(x, y)}
    [] op = "<"  -> {IF x < y THEN 1 ELSE 0}
    [] op = ">"  -> {IF x > y THEN 1 ELSE 0}
    [] op = "==" -> {IF x = y THEN 1 ELSE 0}

-----------------------------------------------------------------------------
\* The words an integer instruction may leave in the accumulator, given the
\* accumulator and the register; none if it traps.
AddI32(acc, rs) == Extended(getValue(acc) + getValue(rs))
SubI32(acc, rs) == { castToWritable(getValue(acc) - getValue(rs)) }
MulI32(acc, rs) == Extended(getValue(acc) * getValue(rs))

DivI32(acc, rs) ==
  IF Traps(getValue(acc), getValue(rs)) THEN {}
  ELSE { signExtend(Quotient(getValue(acc), getValue(rs))) }

Mod(acc, rs) ==
  IF Traps(getValue(acc), getValue(rs)) THEN {}
  ELSE { signExtend(Remainder(getValue(acc), getValue(rs))) }

Flag(b) == { castToWritable(IF b THEN 1 ELSE 0) }

\* Mutant of CmpEqI32: 64-bit words are compared.
CmpEqI64(acc, rs) == Flag(acc = rs)

CmpEqI32(acc, rs) == Flag(getValue(acc) = getValue(rs))
CmpGgI32(acc, rs) == Flag(getValue(acc) > getValue(rs))

\* Mutant of CmpLlI32: 64-bit words are compared.
CmpLlI64(acc, rs) ==
  LET Signed64(w) == Modulus * Signed(w.hi) + w.lo
  IN  Flag(Signed64(acc) < Signed64(rs))

CmpLlI32(acc, rs) == Flag(getValue(acc) < getValue(rs))

=============================================================================
