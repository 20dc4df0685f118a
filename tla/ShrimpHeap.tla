----------------------------- MODULE ShrimpHeap -----------------------------
(***************************************************************************)
(* The object model of the virtual machine: what a word, a class word and  *)
(* an object on the heap are, which words of an object are references, and *)
(* how many bytes an object takes.  No state: ShrimpGC and ShrimpVM own    *)
(* the variables these operators are applied to.                           *)
(*                                                                         *)
(* A heap address is a member of Block.  A 64-bit word is abstracted to    *)
(* what the collector and the program can tell apart: an address, zero     *)
(* (Null) or any other number (Num).                                       *)
(***************************************************************************)
EXTENDS Integers, Sequences, FiniteSets, Reachability

CONSTANTS
  Block,        \* heap addresses the allocator can hand out
  Null,         \* the word 0: a null reference, or the integer zero
  Num,          \* a word that is neither zero nor a heap address
  NumClasses,   \* ShrimpVM::classes_.size()
  NumSlots,     \* payload words of the largest object
  FieldClass,   \* FieldClass[c][f]: class of field f of class c, 0: not a reference
  StrLen        \* bytes of text of a string

Class == 1 .. NumClasses
Slot  == 1 .. NumSlots
Word  == Block \cup {Null, Num}

(***************************************************************************)
(* FieldClass[c][f] < c is what the assembler guarantees: parseClass puts  *)
(* a class name in class_name_to_id_ only after its fields were read       *)
(* (assembler.hpp:543-563), and typeNameToSize and isRefType reject a name *)
(* that is not in the table, so a field only names an earlier class.       *)
(***************************************************************************)
ASSUME HeapAssumption ==
  /\ {Null, Num} \cap Block = {}
  /\ Null # Num
  /\ NumClasses \in Nat
  /\ NumSlots \in Nat
  /\ StrLen \in Nat
  /\ FieldClass \in [Class -> Seq(Nat)]
  /\ \A c \in Class :
       /\ Len(FieldClass[c]) \in 0 .. NumSlots
       /\ \A f \in DOMAIN FieldClass[c] : FieldClass[c][f] < c

-----------------------------------------------------------------------------
(***************************************************************************)
(* A class word is a pointer: to the VM's one BaseClass{STRING}, to an     *)
(* element of classes_ (id is the class), or to an element of the vector   *)
(* arrays_ (id is its index, buf the number of the buffer the pointer      *)
(* points into: the vector's buffer is replaced when it is full).          *)
(* "NONE" is the class word of memory nothing was ever allocated in.       *)
(***************************************************************************)
ClassWord == [type : {"NONE", "STRING", "DEFAULT", "ARRAY"}, id : Nat, buf : Nat]

NoClassWord     == [type |-> "NONE",    id |-> 0, buf |-> 0]
StringClassWord == [type |-> "STRING",  id |-> 0, buf |-> 0]
DefaultClassWord(c) == [type |-> "DEFAULT", id |-> c, buf |-> 0]

\* data holds the payload words after the header.  The fields of a class
\* object start at the first; an array keeps size_ in the first and its
\* elements from the second on (data_ is aligned to offset 24).
Object == [cw : ClassWord, size : Nat, data : [Slot -> Word]]

IsArray(o)  == o.cw.type = "ARRAY"
IsString(o) == o.cw.type = "STRING"
IsObject(o) == o.cw.type = "DEFAULT"

ElemSlot(i) == i + 1

\* The payload words of o that hold references: the fields with is_ref of a
\* class object, the elements of an array whose descriptor has a class.
\* arrs is arrays_: for each descriptor its klass, 0 for nullptr.
RefSlots(o, arrs) ==
  { s \in Slot :
      \/ /\ IsObject(o)
         /\ s \in DOMAIN FieldClass[o.cw.id]
         /\ FieldClass[o.cw.id][s] # 0
      \/ /\ IsArray(o)
         /\ arrs[o.cw.id] # 0
         /\ \E i \in 1 .. o.size : s = ElemSlot(i) }

\* The payload words of o that the handlers can read: the fields, the size
\* and the elements, the size, the hash and the text.
Payload(o) ==
  { s \in Slot : \/ IsObject(o) /\ s \in DOMAIN FieldClass[o.cw.id]
                 \/ IsArray(o)  /\ s <= o.size + 1
                 \/ IsString(o) /\ 8 * (s - 2) < StrLen }

\* The objects o refers to.
Children(o, arrs) == { o.data[s] : s \in RefSlots(o, arrs) } \cap Block

\* The reference graph of heap h.
Edges(h, arrs) == [b \in Block |-> Children(h[b], arrs)]

-----------------------------------------------------------------------------
\* How often n calls of push_back have replaced the buffer of a vector by a
\* larger one: capacities are 1, 2, 4, ... in libstdc++, and each that is
\* below n has been outgrown.
Buffer(n) == Cardinality({ e \in 0 .. n : 2 ^ e < n })

\* Is the descriptor pointer in cw one into the vector's present buffer?
Current(cw, arrs) == cw.buf = Buffer(Len(arrs))

\* Bytes requested from the allocator: sizeof(ObjectHeader) is 16, a string
\* adds two 32-bit words and its text, an array one 32-bit word and 8 bytes
\* for each element, a class object 8 bytes for each field.
ObjBytes(o) == CASE IsString(o) -> 24 + StrLen
                 [] IsObject(o) -> 16 + 8 * Len(FieldClass[o.cw.id])
                 [] IsArray(o)  -> 20 + 8 * o.size
                 [] OTHER       -> 0

\* The value of reference slot s of o is null or refers to a live object of
\* the class the slot was declared with.
SlotTyped(h, arrs, live, o, s) ==
  LET w == o.data[s]
      c == IF IsObject(o) THEN FieldClass[o.cw.id][s] ELSE arrs[o.cw.id]
  IN  \/ w = Null
      \/ w \in live /\ h[w].cw = DefaultClassWord(c)

\* o has a class word the program can have given it.
ClassWordTyped(o, arrs) ==
  \/ o.cw = StringClassWord
  \/ \E c \in Class : o.cw = DefaultClassWord(c)
  \/ /\ IsArray(o)
     /\ o.cw.id \in DOMAIN arrs
     /\ o.size + 1 <= NumSlots

\* Every live object is typed, and so is each of its references.
HeapTyped(h, arrs, live) ==
  \A b \in live :
    /\ ClassWordTyped(h[b], arrs)
    /\ \A s \in RefSlots(h[b], arrs) : SlotTyped(h, arrs, live, h[b], s)

\* Every array among the live objects points at its descriptor.
DescriptorsCurrent(h, arrs, live) ==
  \A b \in live : IsArray(h[b]) => Current(h[b].cw, arrs)

=============================================================================
