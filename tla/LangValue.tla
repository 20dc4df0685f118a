----------------------------- MODULE LangValue -----------------------------
(***************************************************************************)
(* What a word of the machine stands for: a 32-bit integer, which is its   *)
(* low half, and, when all its 64 bits are the address of an array, that   *)
(* array.                                                                  *)
(*                                                                         *)
(* Arrays are in an arena of 32 MiB, for which the allocator of a 64-bit   *)
(* system makes a mapping of its own above the first 4 GiB: the high half  *)
(* of an address is neither that of a number extended with zeros nor that  *)
(* of one extended with its sign.  Arrays that are collected leave their   *)
(* addresses to others; that is the subject of ShrimpVM, and here no array *)
(* is collected.                                                           *)
(***************************************************************************)
EXTENDS Arith32, Sequences

CONSTANT Address   \* addresses of arrays in the order in which they are made;
                   \* there are not more arrays than these

ASSUME AddressAssumption ==
  /\ Address \in Seq(Word)
  /\ \A j, k \in DOMAIN Address : Address[j] = Address[k] => j = k
  /\ \A k \in DOMAIN Address : Address[k].hi \notin {0, Modulus - 1}

Value == [int : Int32, array : 0 .. Len(Address)]

\* Which array is at w; 0 if none is.
ArrayNumber(w) ==
  IF \E k \in DOMAIN Address : Address[k] = w
  THEN CHOOSE k \in DOMAIN Address : Address[k] = w
  ELSE 0

ValueOf(w) == [int |-> getValue(w), array |-> ArrayNumber(w)]

\* An integer, and the k-th array.
Integer(x)   == [int |-> x, array |-> 0]
Reference(k) == [int |-> getValue(Address[k]), array |-> k]

=============================================================================
