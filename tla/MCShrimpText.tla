---------------------------- MODULE MCShrimpText ----------------------------
(***************************************************************************)
(* ShrimpText with literals of one and two characters.                     *)
(***************************************************************************)
EXTENDS ShrimpText, TLC

CONSTANTS ca, cb

Alike == Permutations(Block) \cup Permutations(Reg)

MCLiteral == { <<ca>>, <<cb, ca>> }

=============================================================================
