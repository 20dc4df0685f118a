---------------------------- MODULE MCInstrCode ----------------------------
(***************************************************************************)
(* InstrCode with operands at the ends of the ranges of all fields.        *)
(***************************************************************************)
EXTENDS InstrCode

\* 0, 1, a top bit and all ones of 8, 16, 24, 32, 48, 56 bits; negative
\* numbers (ones up to bit 63) that just fit and just do not fit a field.
MCValue == {{}, {0}, {7}, 0 .. 7}
           \cup { {w - 1} : w \in {16, 24, 25, 31, 32, 47, 48, 55, 56} }
           \cup { 0 .. w - 1 : w \in {16, 24, 32, 64} }
           \cup { w - 1 .. 63 : w \in {31, 32, 33, 48, 49, 56, 57} }

=============================================================================
