----------------------------- MODULE MCShrimpGC -----------------------------
(***************************************************************************)
(* ShrimpGC on a few addresses.  Init of ShrimpGC is a predicate over all  *)
(* heaps; here its states are enumerated: every assignment of kinds to the *)
(* addresses (nothing, a string, an object of one of three classes, an     *)
(* array of integers or of references), every assignment of their          *)
(* references, and every set of registers that refer to them.  Words that  *)
(* are no references are Num.                                              *)
(***************************************************************************)
EXTENDS ShrimpGC, TLC

CONSTANTS
  b1, b2, b3,
  Bufs,    \* buf of the array class words; the current one is 2
  Wild,    \* words that are no references, to be found where one should be
  Typed    \* TRUE: only heaps that satisfy HeapTyped

\* class 1 {i32}, class 2 {1}, class 3 {2, 1}: chains, shared children and
\* a diamond through classes 3, 2 and 1.
MCFieldClass == << <<0>>, <<1>>, <<2, 1>> >>
MCThree      == {b1, b2, b3}
MCTwo        == {b1, b2}
\* A register for each word there can be a root of.
MCReg        == Block \cup {Null} \cup Wild
MCSymmetry   == Permutations(Block)

\* Three arrays were created, of integers, of class 1 and of class 2.
MCArrays == << 0, 1, 2 >>

\* id and size of the arrays there can be on the heap.
MCArrayKinds ==
  { <<1, 1>> } \cup { <<2, n>> : n \in 0 .. NumSlots - 1 } \cup { <<3, n>> : n \in 1 .. NumSlots - 1 }

MCKind == [cw : {NoClassWord, StringClassWord} \cup { DefaultClassWord(c) : c \in Class },
           size : {0}]
          \cup { [cw |-> [type |-> "ARRAY", id |-> k[1], buf |-> n], size |-> k[2]] :
                   k \in MCArrayKinds, n \in Bufs }

MCShape(k) == [cw |-> k.cw, size |-> k.size, data |-> [s \in Slot |-> Num]]

MCHeap(kind, d) ==
  [b \in Block |->
     [cw |-> kind[b].cw, size |-> kind[b].size,
      data |-> [s \in Slot |-> IF <<b, s>> \in DOMAIN d THEN d[<<b, s>>] ELSE Num]]]

\* A typed slot holds null or one of the objects of its class.
MCTargets(kind, p, live) ==
  LET o == MCShape(kind[p[1]])
      c == IF IsObject(o) THEN FieldClass[o.cw.id][p[2]] ELSE arrays[o.cw.id]
  IN  {Null} \cup { b \in live : kind[b].cw = DefaultClassWord(c) }

MCInit ==
  /\ arrays = MCArrays
  /\ \E kind \in [Block -> MCKind] :
       LET live == { b \in Block : kind[b].cw # NoClassWord }
           pos  == { p \in Block \X Slot : p[2] \in RefSlots(MCShape(kind[p[1]]), arrays) }
       IN  \E d \in [pos -> live \cup {Null} \cup Wild] :
             /\ Typed => \A p \in pos : d[p] \in MCTargets(kind, p, live)
             /\ heap = MCHeap(kind, d)
             /\ allocations = [b \in live |-> ObjBytes(heap[b])]
             /\ allocated = 0
             /\ \E S \in SUBSET (live \cup {Null} \cup Wild) :
                  stack = <<[r \in Reg |-> IF r \in S THEN Ref(r) ELSE Plain(Null)]>>
  /\ acc = Plain(Null)
  /\ mark = [b \in Block |-> FALSE]
  /\ phase = "collect"
  /\ roots = {} /\ todo = {} /\ path = <<>> /\ unswept = {}

MCSpec == MCInit /\ [][GCNext]_gcVars

=============================================================================
