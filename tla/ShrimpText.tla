----------------------------- MODULE ShrimpText -----------------------------
(***************************************************************************)
(* The text of strings.  A String keeps its size and its characters but no *)
(* NUL after them, and every reader takes data_ for a C string: what it    *)
(* reads depends on the bytes that follow.                                 *)
(*                                                                         *)
(* Blocks of one pool with DataLen bytes from data_ to their end.  What    *)
(* references are rooted, and how objects share blocks, is ShrimpVM's      *)
(* subject; here the strings in registers are all there is.                *)
(***************************************************************************)
EXTENDS Integers, Sequences, FiniteSets, FiniteSetsExt

CONSTANTS
  Block, Reg,
  Char,       \* the characters of strings
  NUL,        \* the byte 0
  Junk,       \* characters that memory outside the blocks holds
  Literal,    \* the strings of the program, over Char
  DataLen,    \* bytes of data_ in a block
  MemLimit,   \* ShrimpVM::MEM_LIMIT
  None,       \* a register without a string
  MaxStrings  \* bound: strings created

ASSUME TextAssumption ==
  /\ Junk \subseteq Char /\ NUL \notin Char /\ None \notin Block
  /\ DataLen \in Nat /\ MemLimit \in Nat
  /\ \A s \in Literal : s \in Seq(Char) /\ Len(s) <= DataLen

VARIABLES
  data,         \* the bytes of each block; a free one keeps them
  live,         \* blocks in allocations_
  size_,        \* of the strings in live
  used,         \* blocks handed out before
  acc, reg,     \* the block of the string there
  status,       \* "run" or "abort"
  created,      \* number of strings created, for the bound
  text,         \* history: the text the program means
  fresh         \* history: strings that no reused memory went into, and that
                \* are shorter than their block

vars == <<data, live, size_, used, acc, reg, status, created, text, fresh>>

Byte == Char \cup {NUL}

-----------------------------------------------------------------------------
\* What follows the last byte of a block: the header of an object or the
\* pool's own bytes.
Beyond == {<<>>} \cup { <<c>> : c \in Junk }

\* std::string(getData()): up to the first NUL, past the block if need be.
getData(b) ==
  LET nuls == { i \in 1 .. DataLen : data[b][i] = NUL }
  IN  IF nuls = {} THEN { data[b] \o t : t \in Beyond }
                   ELSE { SubSeq(data[b], 1, Min(nuls) - 1) }

-----------------------------------------------------------------------------
HeaderLen == 24     \* ObjectHeader, size_, hashCode_

Allocated == MapThenSumSet(LAMBDA b : HeaderLen + size_[b], live)

Roots == {acc} \cup { reg[r] : r \in Reg }

\* Mutant of Survivors: only the accumulator is a root.
SurvivorsInAcc ==
  IF 10 * Allocated >= 9 * MemLimit THEN live \cap {acc} ELSE live

\* The allocations after triggerGCIfNeed, which every handler that allocates
\* begins with.
Survivors == IF 10 * Allocated >= 9 * MemLimit THEN live \cap Roots ELSE live

\* The n bytes setData copies from str.data(): more than str has are its NUL
\* and what memory holds after it.
Copied(str, n, junk) ==
  [i \in 1 .. n |-> IF i <= Len(str) THEN str[i]
                    ELSE IF i = Len(str) + 1 THEN NUL ELSE junk]

\* AllocateString of n bytes from str, whose text should be meant; clean says
\* that str was made of fresh strings.
AllocateString(n, str, meant, clean) ==
  \E b \in Block \ Survivors, junk \in IF Len(str) + 1 < n THEN Junk \cup {NUL} ELSE {NUL} :
    /\ n <= DataLen
    /\ created < MaxStrings
    /\ created' = created + 1
    /\ data' = [data EXCEPT ![b] = Copied(str, n, junk) \o SubSeq(@, n + 1, DataLen)]
    /\ live' = Survivors \cup {b}
    /\ size_' = [c \in live' |-> IF c = b THEN n ELSE size_[c]]
    /\ used' = used \cup {b}
    /\ acc' = b
    /\ text' = [c \in live' |-> IF c = b THEN meant ELSE text[c]]
    /\ fresh' = (fresh \cap Survivors)
                \cup (IF clean /\ b \notin used /\ n < DataLen THEN {b} ELSE {})
    /\ UNCHANGED <<reg, status>>

\* Nothing in the code initialises the arena (memory_resource.hpp:18); that it
\* is zero before its first use is what the system does for a new mapping of
\* 32 MiB.
Init ==
  /\ data = [b \in Block |-> [i \in 1 .. DataLen |-> NUL]]
  /\ live = {} /\ used = {} /\ fresh = {}
  /\ size_ = [b \in live |-> 0]
  /\ acc = None
  /\ reg = [r \in Reg |-> None]
  /\ status = "run"
  /\ created = 0
  /\ text = [b \in live |-> <<>>]

LdaStr(s) ==
  /\ status = "run"
  /\ AllocateString(Len(s), s, s, TRUE)

\* Mutant of ConcatLen: the size of the first operand.
ConcatLenFirst(b, c) == size_[b]

ConcatLen(b, c) == size_[b] + size_[c]

\* Intrinsic CONCAT, ConcatStrings.
Concat(r, q) ==
  /\ status = "run"
  /\ reg[r] # None /\ reg[q] # None
  /\ \E x \in getData(reg[r]), y \in getData(reg[q]) :
       AllocateString(ConcatLen(reg[r], reg[q]), x \o y,
                      text[reg[r]] \o text[reg[q]], {reg[r], reg[q]} \subseteq fresh)

substr(str, pos, len) == SubSeq(str, pos + 1, Min({pos + len, Len(str)}))

\* Intrinsic SUBSTR, SubStr: of the string in the accumulator.
SubStr(pos, len) ==
  /\ status = "run"
  /\ acc # None
  /\ \E x \in getData(acc) :
       /\ pos <= Len(x)
       /\ AllocateString(len, substr(x, pos, len), substr(text[acc], pos, len), acc \in fresh)

\* std::string::substr throws.
SubStrThrows(pos) ==
  /\ status = "run"
  /\ acc # None
  /\ \E x \in getData(acc) : pos > Len(x)
  /\ status' = "abort"
  /\ UNCHANGED <<data, size_, live, used, acc, reg, created, text, fresh>>

Lda(r) ==
  /\ status = "run"
  /\ acc' = reg[r]
  /\ UNCHANGED <<data, size_, live, used, reg, status, created, text, fresh>>

Sta(r) ==
  /\ status = "run"
  /\ reg' = [reg EXCEPT ![r] = acc]
  /\ UNCHANGED <<data, size_, live, used, acc, status, created, text, fresh>>

Next ==
  \/ \E s \in Literal : LdaStr(s)
  \/ \E r, q \in Reg : Concat(r, q)
  \/ \E pos, len \in 0 .. DataLen : SubStr(pos, len)
  \/ \E pos \in 0 .. DataLen : SubStrThrows(pos)
  \/ \E r \in Reg : Lda(r) \/ Sta(r)

Spec == Init /\ [][Next]_vars

-----------------------------------------------------------------------------
(***************************************************************************)
(* Properties.                                                             *)
(***************************************************************************)
\* Registers hold strings that are allocated (the collection in the middle of
\* LDA.STR, CONCAT and SUBSTR spares them), and strings fit their blocks.
TextTypeOK ==
  /\ \A b \in Block : data[b] \in Seq(Byte) /\ Len(data[b]) = DataLen
  /\ \A b \in live : size_[b] <= DataLen
  /\ live \subseteq used
  /\ Roots \subseteq live \cup {None}
  /\ status \in {"run", "abort"}

\* What is read of string b, by an intrinsic or to print it, is what the
\* program means.
ReadsRight(b) == getData(b) = {text[b]}

\* Strings shorter than their block, in memory that was never used before, and
\* made of such strings, read right, although none has a NUL of its own and
\* size_ may exceed the text (SUBSTR past the end): setData copies what
\* AllocateString reserved, and the bytes after it are still zero.
FreshReadsRight == \A b \in live \cap fresh : ReadsRight(b)

\* Every string reads right: what grand_bench.shr says of the literal it
\* prints, "print(Foo:null)".
AllReadRight == \A b \in live : ReadsRight(b)

-----------------------------------------------------------------------------
(***************************************************************************)
(* The inductive invariant behind FreshReadsRight.                         *)
(***************************************************************************)
TablesOfStrings ==
  /\ used \subseteq Block
  /\ data \in [Block -> Seq(Byte)]
  /\ size_ \in [live -> Nat]
  /\ text \in [live -> Seq(Char)]
  /\ reg \in [Reg -> Block \cup {None}]

\* Memory is zero until it is handed out (Init).
UnusedZero == \A b \in Block \ used : \A i \in 1 .. DataLen : data[b][i] = NUL

\* A fresh string has the text that is meant, a NUL that was either copied
\* with it or is the memory's own, and a size that is at least its length (so
\* that a CONCAT reserves enough).
FreshTerminated ==
  \A b \in live \cap fresh :
    /\ Len(text[b]) <= size_[b] /\ size_[b] < DataLen
    /\ \A i \in 1 .. Len(text[b]) : data[b][i] = text[b][i]
    /\ data[b][Len(text[b]) + 1] = NUL

\* Registers hold allocated strings, in blocks whose bytes are as above.
TextInv == TextTypeOK /\ TablesOfStrings /\ UnusedZero /\ FreshTerminated

=============================================================================
