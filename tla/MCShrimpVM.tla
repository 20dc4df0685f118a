----------------------------- MODULE MCShrimpVM -----------------------------
(***************************************************************************)
(* ShrimpVM with a few addresses and registers.                            *)
(***************************************************************************)
EXTENDS ShrimpVM, TLC

CONSTANTS b1, b2, b3

\* class 1 {i32}, class 2 {1}
MCFieldClass == << <<0>>, <<1>> >>
MCTwo        == {b1, b2}
MCThree      == {b1, b2, b3}
MCSymmetry   == Permutations(Block)
MCArgReg     == <<255>>

=============================================================================
