------------------------- MODULE ShrimpText_proofs -------------------------
(***************************************************************************)
(* Proofs about the text of strings, for any blocks, characters, literals  *)
(* and memory limit: registers hold allocated strings, and a string in     *)
(* memory that was never used before reads as the program means it.        *)
(***************************************************************************)
EXTENDS ShrimpText, SequenceTheorems, FiniteSetTheorems, TLAPS

\* A set of numbers up to n has a least element.
LEMMA SmallestNat ==
  ASSUME NEW n \in Nat, NEW S \in SUBSET (1 .. n), S # {}
  PROVE  \E k \in S : \A i \in S : k <= i
  <1> DEFINE N == 1 .. n
             T == { 1 .. k : k \in S }
  <1>1. T \subseteq FiniteSubsetsOf(N)
    <2>1. IsFiniteSet(N)
      BY FS_Interval
    <2>2. T \subseteq SUBSET N
      OBVIOUS
    <2>3. QED
      BY <2>1, <2>2, FS_FiniteSubsetsOfFinite
  <1>2. PICK s \in T : \A t \in T : <<t, s>> \notin StrictSubsetOrdering(N)
    <2>1. T # {}
      OBVIOUS
    <2>2. IsFiniteSet(N)
      BY FS_Interval
    <2> HIDE DEF N, T
    <2>3. QED
      BY <1>1, <2>1, <2>2, FS_StrictSubsetOrderingWellFounded, WFMin
  <1>3. PICK k \in S : s = 1 .. k
    BY <1>2
  <1>4. ASSUME NEW i \in S, i < k PROVE FALSE
    <2>1. 1 .. i \in T /\ 1 .. i \subseteq s /\ k \notin 1 .. i /\ k \in s
      BY <1>3, <1>4
    <2>2. 1 .. i \in SUBSET N /\ s \in SUBSET N
      BY <1>2
    <2>3. <<1 .. i, s>> \in StrictSubsetOrdering(N)
      BY <2>1, <2>2 DEF StrictSubsetOrdering
    <2>4. QED
      BY <1>2, <2>1, <2>3
  <1>5. QED
    BY <1>4

\* A string and the NUL after it read as that string.
LEMMA ReadToNul ==
  ASSUME NEW b, NEW t \in Seq(Char), NUL \notin Char,
         data[b] \in Seq(Byte), Len(data[b]) = DataLen, DataLen \in Nat,
         Len(t) < DataLen,
         \A i \in 1 .. Len(t) : data[b][i] = t[i],
         data[b][Len(t) + 1] = NUL
  PROVE  getData(b) = {t}
  <1> DEFINE nuls == { i \in 1 .. DataLen : data[b][i] = NUL }
  <1>1. Len(t) \in Nat /\ \A i \in 1 .. Len(t) : t[i] \in Char
    BY LenProperties, ElementOfSeq
  <1>2. Len(t) + 1 \in nuls /\ \A i \in nuls : Len(t) + 1 <= i
    BY <1>1
  <1>3. Min(nuls) = Len(t) + 1
    BY <1>1, <1>2 DEF Min
  <1>4. SubSeq(data[b], 1, Len(t)) = t
    <2>1. /\ SubSeq(data[b], 1, Len(t)) \in Seq(Byte)
          /\ Len(SubSeq(data[b], 1, Len(t))) = Len(t)
          /\ \A i \in 1 .. Len(t) : SubSeq(data[b], 1, Len(t))[i] = data[b][i]
      BY <1>1, SMTT(30)
    <2>2. t \in Seq(Byte)
      BY SeqMonotonic DEF Byte
    <2>3. QED
      BY <2>1, <2>2, SeqEqual
  <1>5. getData(b) = {SubSeq(data[b], 1, Min(nuls) - 1)}
    BY <1>2 DEF getData
  <1> HIDE DEF nuls
  <1>6. Min(nuls) - 1 = Len(t)
    BY <1>1, <1>3
  <1>7. QED
    BY <1>4, <1>5, <1>6

\* What is read of a block is a string of characters.
LEMMA ReadsText ==
  ASSUME TextAssumption, NEW b, data[b] \in Seq(Byte), Len(data[b]) = DataLen,
         NEW x \in getData(b)
  PROVE  x \in Seq(Char)
  <1> DEFINE nuls == { i \in 1 .. DataLen : data[b][i] = NUL }
  <1>0. /\ DataLen \in Nat /\ Junk \subseteq Char
        /\ \A i \in 1 .. DataLen : data[b][i] \in Byte
    BY ElementOfSeq DEF TextAssumption
  <1>1. CASE nuls = {}
    <2>1. PICK t \in Beyond : x = data[b] \o t
      BY <1>1 DEF getData
    <2>2. t \in Seq(Char)
      <3>1. CASE t = <<>>
        BY <3>1
      <3>2. ASSUME NEW c \in Junk, t = <<c>> PROVE t \in Seq(Char)
        BY <1>0, <3>2
      <3>3. QED
        BY <2>1, <3>1, <3>2 DEF Beyond
    <2>3. \A i \in 1 .. DataLen : data[b][i] \in Char
      BY <1>0, <1>1 DEF Byte
    <2>4. data[b] \in Seq(Char)
      BY <2>3, SMTT(30)
    <2>5. QED
      BY <2>1, <2>2, <2>4, ConcatProperties
  <1>2. CASE nuls # {}
    <2> DEFINE m == Min(nuls)
    <2>1. m \in nuls /\ \A i \in nuls : m <= i
      <3>1. PICK k \in nuls : \A i \in nuls : k <= i
        BY <1>0, <1>2, SmallestNat
      <3>2. QED
        BY <3>1 DEF Min
    <2>2. \A i \in 1 .. m - 1 : data[b][i] \in Char
      BY <2>1, <1>0 DEF Byte
    <2>3. x = SubSeq(data[b], 1, m - 1)
      BY <1>2 DEF getData
    <2>4. QED
      BY <2>1, <2>2, <2>3, <1>0, SMTT(30)
  <1>3. QED
    BY <1>1, <1>2

-----------------------------------------------------------------------------
\* The allocated strings that a collection leaves are some of them, and among
\* them all that registers hold.
LEMMA SurvivorsHeld ==
  /\ Survivors \subseteq live
  /\ live \cap Roots \subseteq Survivors
  BY DEF Survivors

\* The bytes of a block that n bytes of str have been copied to.
IsOverwritten(new, str, n, junk, old) ==
  /\ new \in Seq(Byte)
  /\ Len(new) = DataLen
  /\ \A i \in 1 .. DataLen :
       new[i] = IF i > n THEN old[i]
                ELSE IF i <= Len(str) THEN str[i]
                ELSE IF i = Len(str) + 1 THEN NUL ELSE junk

LEMMA Overwritten ==
  ASSUME TextAssumption, NEW str \in Seq(Char), NEW n \in Nat, n <= DataLen,
         NEW junk \in Junk \cup {NUL}, NEW old \in Seq(Byte), Len(old) = DataLen,
         NEW new, new = Copied(str, n, junk) \o SubSeq(old, n + 1, DataLen)
  PROVE  IsOverwritten(new, str, n, junk, old)
  <1> DEFINE front == Copied(str, n, junk)
             back  == SubSeq(old, n + 1, DataLen)
  <1>1. /\ DataLen \in Nat /\ Junk \subseteq Char
        /\ Len(str) \in Nat /\ \A i \in 1 .. Len(str) : str[i] \in Char
        /\ \A i \in 1 .. DataLen : old[i] \in Byte
    BY LenProperties, ElementOfSeq DEF TextAssumption
  <1>2. front \in Seq(Byte) /\ Len(front) = n
    <2>1. front \in [1 .. n -> Byte]
      BY <1>1 DEF Copied, Byte
    <2>2. QED
      BY <2>1, IsASeq
  <1>3. /\ back \in Seq(Byte) /\ Len(back) = DataLen - n
        /\ \A i \in 1 .. DataLen - n : back[i] = old[n + i]
    BY <1>1, SMTT(30)
  <1>4. /\ \A i \in 1 .. n : (front \o back)[i] = front[i]
        /\ \A i \in 1 .. DataLen : i > n => (front \o back)[i] = old[i]
        /\ front \o back \in Seq(Byte)
        /\ Len(front \o back) = DataLen
    <2> HIDE DEF front, back
    <2>1. /\ front \o back \in Seq(Byte)
          /\ Len(front \o back) = n + (DataLen - n)
          /\ \A i \in 1 .. n + (DataLen - n) :
               (front \o back)[i] = IF i <= n THEN front[i] ELSE back[i - n]
      BY <1>2, <1>3, ConcatProperties, SMTT(20)
    <2>2. QED
      BY <1>1, <1>3, <2>1, SMTT(20)
  <1>5. \A i \in 1 .. n : front[i] = IF i <= Len(str) THEN str[i]
                                     ELSE IF i = Len(str) + 1 THEN NUL ELSE junk
    BY SMTT(20) DEF Copied
  <1>6. QED
    BY <1>1, <1>4, <1>5, SMTT(20) DEF IsOverwritten

\* A new string, of n bytes that hold all of what is meant if it is clean,
\* keeps the invariant.
LEMMA AllocateKeepsInv ==
  ASSUME TextAssumption, TextInv,
         NEW n \in Nat, NEW str \in Seq(Char), NEW meant \in Seq(Char),
         NEW clean \in BOOLEAN, clean => meant = str /\ Len(str) <= n,
         AllocateString(n, str, meant, clean)
  PROVE  TextInv'
  <1>1. PICK b \in Block \ Survivors, junk \in Junk \cup {NUL} :
          /\ n <= DataLen
          /\ data' = [data EXCEPT ![b] = Copied(str, n, junk) \o SubSeq(@, n + 1, DataLen)]
          /\ live' = Survivors \cup {b}
          /\ size_' = [c \in live' |-> IF c = b THEN n ELSE size_[c]]
          /\ used' = used \cup {b}
          /\ acc' = b
          /\ text' = [c \in live' |-> IF c = b THEN meant ELSE text[c]]
          /\ fresh' = (fresh \cap Survivors)
                      \cup (IF clean /\ b \notin used /\ n < DataLen THEN {b} ELSE {})
          /\ UNCHANGED <<reg, status>>
    <2>1. (IF Len(str) + 1 < n THEN Junk \cup {NUL} ELSE {NUL}) \subseteq Junk \cup {NUL}
      OBVIOUS
    <2>2. QED
      BY <2>1, Zenon DEF AllocateString
  <1>2. /\ DataLen \in Nat /\ None \notin Block /\ NUL \notin Char
        /\ TextTypeOK /\ TablesOfStrings /\ UnusedZero /\ FreshTerminated
    BY DEF TextInv, TextAssumption
  <1>3. /\ live \subseteq used /\ used \subseteq Block /\ Survivors \subseteq live
        /\ b \notin Survivors
    BY <1>1, <1>2, SurvivorsHeld DEF TextTypeOK, TablesOfStrings
  <1>4. /\ data'[b] \in Seq(Byte) /\ Len(data'[b]) = DataLen
        /\ \A i \in 1 .. DataLen :
             data'[b][i] = IF i > n THEN data[b][i]
                           ELSE IF i <= Len(str) THEN str[i]
                           ELSE IF i = Len(str) + 1 THEN NUL ELSE junk
    <2>1. data[b] \in Seq(Byte) /\ Len(data[b]) = DataLen
      BY <1>1, <1>2 DEF TextTypeOK
    <2>2. data'[b] = Copied(str, n, junk) \o SubSeq(data[b], n + 1, DataLen)
      BY <1>1, <1>2 DEF TablesOfStrings
    <2>3. n <= DataLen /\ junk \in Junk \cup {NUL}
      BY <1>1
    <2>4. IsOverwritten(data'[b], str, n, junk, data[b])
      BY <2>1, <2>2, <2>3, Overwritten
    <2>5. QED
      BY <2>4 DEF IsOverwritten
  <1>5. \A c \in Block \ {b} : data'[c] = data[c]
    BY <1>1, <1>2 DEF TablesOfStrings
  <1>6. TextTypeOK'
    <2>1. \A c \in Block : data'[c] \in Seq(Byte) /\ Len(data'[c]) = DataLen
      BY <1>2, <1>4, <1>5 DEF TextTypeOK
    <2>2. \A c \in live' : size_'[c] <= DataLen
      BY <1>1, <1>2, <1>3 DEF TextTypeOK
    <2>3. live' \subseteq used'
      BY <1>1, <1>3
    <2>4. Roots' \subseteq live' \cup {None}
      BY <1>1, <1>2, SurvivorsHeld DEF TextTypeOK, Roots
    <2>5. QED
      BY <1>1, <1>2, <2>1, <2>2, <2>3, <2>4 DEF TextTypeOK
  <1>7. TablesOfStrings'
    <2>1. data' \in [Block -> Seq(Byte)]
      BY <1>1, <1>2, <1>4, <1>5 DEF TablesOfStrings
    <2>2. size_' \in [live' -> Nat]
      BY <1>1, <1>2, <1>3 DEF TablesOfStrings
    <2>3. text' \in [live' -> Seq(Char)]
      BY <1>1, <1>2, <1>3 DEF TablesOfStrings
    <2>4. QED
      BY <1>1, <1>2, <2>1, <2>2, <2>3 DEF TablesOfStrings
  <1>8. UnusedZero'
    BY <1>1, <1>2, <1>5 DEF UnusedZero
  <1>9. FreshTerminated'
    <2>1. ASSUME NEW c \in live' \cap fresh', c # b
          PROVE  /\ Len(text'[c]) <= size_'[c] /\ size_'[c] < DataLen
                 /\ \A i \in 1 .. Len(text'[c]) : data'[c][i] = text'[c][i]
                 /\ data'[c][Len(text'[c]) + 1] = NUL
      <3>1. c \in live \cap fresh /\ c \in Block \ {b} /\ c \in Survivors
        BY <1>1, <1>3, <2>1
      <3>2. text'[c] = text[c] /\ size_'[c] = size_[c] /\ data'[c] = data[c]
        BY <1>1, <1>5, <2>1, <3>1
      <3>3. QED
        BY <1>2, <3>1, <3>2 DEF FreshTerminated
    <2>2. ASSUME b \in live' \cap fresh'
          PROVE  /\ Len(text'[b]) <= size_'[b] /\ size_'[b] < DataLen
                 /\ \A i \in 1 .. Len(text'[b]) : data'[b][i] = text'[b][i]
                 /\ data'[b][Len(text'[b]) + 1] = NUL
      <3>1. clean /\ b \notin used /\ n < DataLen /\ meant = str /\ Len(str) <= n
        BY <1>1, <1>3, <2>2
      <3>2. text'[b] = str /\ size_'[b] = n
        BY <1>1, <2>2, <3>1
      <3>3. Len(str) \in Nat
        BY LenProperties
      <3>4. \A i \in 1 .. DataLen : data[b][i] = NUL
        BY <1>1, <1>2, <3>1 DEF UnusedZero
      <3>5. QED
        BY <1>2, <1>4, <3>1, <3>2, <3>3, <3>4
    <2>3. QED
      BY <2>1, <2>2 DEF FreshTerminated
  <1>10. QED
    BY <1>6, <1>7, <1>8, <1>9 DEF TextInv

-----------------------------------------------------------------------------
\* What is read of a fresh string is its text.
LEMMA ReadFresh ==
  ASSUME TextAssumption, TextInv, NEW b \in live \cap fresh
  PROVE  getData(b) = {text[b]}
  <1>1. b \in Block
    BY DEF TextInv, TextTypeOK, TablesOfStrings
  <1>2. /\ text[b] \in Seq(Char) /\ size_[b] \in Nat /\ Len(text[b]) \in Nat
    BY LenProperties DEF TextInv, TablesOfStrings
  <1>3. /\ Len(text[b]) <= size_[b] /\ size_[b] < DataLen
        /\ \A i \in 1 .. Len(text[b]) : data[b][i] = text[b][i]
        /\ data[b][Len(text[b]) + 1] = NUL
    BY DEF TextInv, FreshTerminated
  <1>4. data[b] \in Seq(Byte) /\ Len(data[b]) = DataLen
    BY <1>1 DEF TextInv, TextTypeOK
  <1>5. DataLen \in Nat /\ NUL \notin Char
    BY DEF TextAssumption
  <1>6. QED
    BY <1>2, <1>3, <1>4, <1>5, ReadToNul

\* A register that is not empty holds an allocated string.
LEMMA HeldString ==
  ASSUME TextAssumption, TextInv, NEW b \in Roots, b # None
  PROVE  /\ b \in live /\ b \in Block
         /\ text[b] \in Seq(Char) /\ size_[b] \in Nat
         /\ \A x \in getData(b) : x \in Seq(Char)
         /\ b \in fresh => getData(b) = {text[b]} /\ Len(text[b]) <= size_[b]
  <1>1. b \in live
    BY DEF TextInv, TextTypeOK
  <1>2. b \in Block /\ text[b] \in Seq(Char) /\ size_[b] \in Nat
    BY <1>1 DEF TextInv, TextTypeOK, TablesOfStrings
  <1>3. data[b] \in Seq(Byte) /\ Len(data[b]) = DataLen
    BY <1>2 DEF TextInv, TextTypeOK
  <1>4. \A x \in getData(b) : x \in Seq(Char)
    BY <1>3, ReadsText
  <1>5. b \in fresh => getData(b) = {text[b]} /\ Len(text[b]) <= size_[b]
    BY <1>1, ReadFresh DEF TextInv, FreshTerminated
  <1>6. QED
    BY <1>1, <1>2, <1>4, <1>5

LEMMA LdaStrStep ==
  ASSUME TextAssumption, TextInv, NEW s \in Literal, LdaStr(s)
  PROVE  TextInv'
  <1>1. s \in Seq(Char) /\ Len(s) \in Nat
    BY LenProperties DEF TextAssumption
  <1>2. AllocateString(Len(s), s, s, TRUE)
    BY DEF LdaStr
  <1>3. TRUE \in BOOLEAN /\ (TRUE => s = s /\ Len(s) <= Len(s))
    BY <1>1
  <1>4. QED
    BY <1>1, <1>2, <1>3, AllocateKeepsInv, Zenon

LEMMA ConcatStep ==
  ASSUME TextAssumption, TextInv, NEW r \in Reg, NEW q \in Reg, Concat(r, q)
  PROVE  TextInv'
  <1> DEFINE b == reg[r]
             c == reg[q]
  <1>1. b \in Roots /\ c \in Roots /\ b # None /\ c # None
    BY DEF Concat, Roots
  <1>2. PICK x \in getData(b), y \in getData(c) :
          AllocateString(ConcatLen(b, c), x \o y, text[b] \o text[c], {b, c} \subseteq fresh)
    BY DEF Concat
  <1> HIDE DEF b, c
  <1>3. /\ x \in Seq(Char) /\ text[b] \in Seq(Char) /\ size_[b] \in Nat
        /\ y \in Seq(Char) /\ text[c] \in Seq(Char) /\ size_[c] \in Nat
    BY <1>1, HeldString
  <1>4. {b, c} \subseteq fresh => /\ x = text[b] /\ Len(x) <= size_[b]
                                  /\ y = text[c] /\ Len(y) <= size_[c]
    BY <1>1, HeldString
  <1>5. /\ x \o y \in Seq(Char) /\ text[b] \o text[c] \in Seq(Char)
        /\ Len(x \o y) = Len(x) + Len(y) /\ Len(x) \in Nat /\ Len(y) \in Nat
    BY <1>3, ConcatProperties, LenProperties
  <1>6. ConcatLen(b, c) \in Nat /\ ConcatLen(b, c) = size_[b] + size_[c]
    BY <1>3 DEF ConcatLen
  <1>7. {b, c} \subseteq fresh => /\ text[b] \o text[c] = x \o y
                                  /\ Len(x \o y) <= ConcatLen(b, c)
    <2>1. SUFFICES ASSUME {b, c} \subseteq fresh
                   PROVE  text[b] \o text[c] = x \o y /\ Len(x \o y) <= ConcatLen(b, c)
      OBVIOUS
    <2>2. x = text[b] /\ y = text[c]
      BY <1>4, <2>1
    <2>3. Len(x) + Len(y) <= size_[b] + size_[c]
      BY <1>3, <1>4, <1>5, <2>1
    <2>4. QED
      BY <1>5, <1>6, <2>2, <2>3
  <1>8. QED
    BY <1>2, <1>5, <1>6, <1>7, AllocateKeepsInv

\* A substring is a string and has no more than the characters asked for.
LEMMA SubstrLength ==
  ASSUME NEW x \in Seq(Char), NEW pos \in Nat, NEW len \in Nat
  PROVE  /\ substr(x, pos, len) \in Seq(Char)
         /\ pos <= Len(x) => Len(substr(x, pos, len)) <= len
  <1> DEFINE m == Min({pos + len, Len(x)})
  <1>1. Len(x) \in Nat
    BY LenProperties
  <1>2. m \in {pos + len, Len(x)} /\ m <= pos + len /\ m <= Len(x)
    BY <1>1 DEF Min
  <1>3. substr(x, pos, len) = SubSeq(x, pos + 1, m)
    BY DEF substr
  <1> HIDE DEF m
  <1>4. QED
    BY <1>1, <1>2, <1>3, SMTT(30)

LEMMA SubStrStep ==
  ASSUME TextAssumption, TextInv, NEW pos \in Nat, NEW len \in Nat, SubStr(pos, len)
  PROVE  TextInv'
  <1>1. PICK x \in getData(acc) :
          /\ pos <= Len(x)
          /\ AllocateString(len, substr(x, pos, len), substr(text[acc], pos, len),
                            acc \in fresh)
    BY DEF SubStr
  <1>2. acc \in Roots /\ acc # None
    BY DEF SubStr, Roots
  <1>3. /\ x \in Seq(Char) /\ text[acc] \in Seq(Char)
        /\ acc \in fresh => x = text[acc]
    BY <1>2, HeldString
  <1>4. /\ substr(x, pos, len) \in Seq(Char) /\ substr(text[acc], pos, len) \in Seq(Char)
        /\ Len(substr(x, pos, len)) <= len
    BY <1>1, <1>3, SubstrLength
  <1>5. /\ (acc \in fresh) \in BOOLEAN
        /\ acc \in fresh => /\ substr(text[acc], pos, len) = substr(x, pos, len)
                            /\ Len(substr(x, pos, len)) <= len
    BY <1>3, <1>4
  <1>6. QED
    BY <1>1, <1>4, <1>5, AllocateKeepsInv, Zenon

\* The instructions that create no string.
LEMMA MovesStep ==
  ASSUME TextInv,
         UNCHANGED <<data, size_, live, used, text, fresh>>,
         status' \in {"run", "abort"},
         reg' \in [Reg -> Block \cup {None}],
         Roots' \subseteq Roots
  PROVE  TextInv'
  <1>1. TextTypeOK'
    BY DEF TextInv, TextTypeOK
  <1>2. TablesOfStrings' /\ UnusedZero' /\ FreshTerminated'
    BY DEF TextInv, TablesOfStrings, UnusedZero, FreshTerminated
  <1>3. QED
    BY <1>1, <1>2 DEF TextInv

LEMMA StepInv ==
  ASSUME TextAssumption, TextInv, [Next]_vars
  PROVE  TextInv'
  <1>1. /\ status \in {"run", "abort"} /\ reg \in [Reg -> Block \cup {None}]
        /\ DataLen \in Nat
    BY DEF TextInv, TextTypeOK, TablesOfStrings, TextAssumption
  <1>2. ASSUME NEW s \in Literal, LdaStr(s) PROVE TextInv'
    BY <1>2, LdaStrStep
  <1>3. ASSUME NEW r \in Reg, NEW q \in Reg, Concat(r, q) PROVE TextInv'
    BY <1>3, ConcatStep
  <1>4. ASSUME NEW pos \in 0 .. DataLen, NEW len \in 0 .. DataLen, SubStr(pos, len)
        PROVE  TextInv'
    <2>1. pos \in Nat /\ len \in Nat
      BY <1>1
    <2>2. QED
      BY <1>4, <2>1, SubStrStep
  <1>5. ASSUME NEW pos \in 0 .. DataLen, SubStrThrows(pos) PROVE TextInv'
    BY <1>1, <1>5, MovesStep DEF SubStrThrows, Roots
  <1>6. ASSUME NEW r \in Reg, Lda(r) PROVE TextInv'
    BY <1>1, <1>6, MovesStep DEF Lda, Roots
  <1>7. ASSUME NEW r \in Reg, Sta(r) PROVE TextInv'
    <2>1. acc \in Block \cup {None}
      BY DEF TextInv, TextTypeOK, TablesOfStrings, Roots
    <2>2. reg' \in [Reg -> Block \cup {None}]
      BY <1>1, <1>7, <2>1 DEF Sta
    <2>3. Roots' \subseteq Roots
      BY <1>1, <1>7 DEF Sta, Roots
    <2>4. QED
      BY <1>1, <1>7, <2>2, <2>3, MovesStep DEF Sta
  <1>8. CASE UNCHANGED vars
    BY <1>1, <1>8, MovesStep DEF vars, Roots
  <1>9. QED
    BY <1>2, <1>3, <1>4, <1>5, <1>6, <1>7, <1>8 DEF Next

LEMMA InitInv ==
  ASSUME TextAssumption, Init
  PROVE  TextInv
  <1>1. DataLen \in Nat
    BY DEF TextAssumption
  <1>2. \A b \in Block : data[b] \in [1 .. DataLen -> Byte]
    BY DEF Init, Byte
  <1>3. \A b \in Block : data[b] \in Seq(Byte) /\ Len(data[b]) = DataLen
    BY <1>1, <1>2, IsASeq
  <1>4. TextTypeOK
    BY <1>3 DEF Init, TextTypeOK, Roots
  <1>5. TablesOfStrings
    BY <1>3 DEF Init, TablesOfStrings
  <1>6. UnusedZero /\ FreshTerminated
    BY DEF Init, UnusedZero, FreshTerminated
  <1>7. QED
    BY <1>4, <1>5, <1>6 DEF TextInv

-----------------------------------------------------------------------------
\* Strings in memory never used before end in a NUL, and registers hold
\* allocated strings, through any sequence of LDA.STR, CONCAT and SUBSTR.
THEOREM TextInvariance == Spec => []TextInv
  <1>1. Init => TextInv
    BY InitInv, TextAssumption
  <1>2. TextInv /\ [Next]_vars => TextInv'
    BY StepInv, TextAssumption
  <1>3. QED
    BY <1>1, <1>2, PTL DEF Spec

\* Registers hold strings that are allocated and fit their blocks: the
\* collection in the middle of an instruction spares its operands.
THEOREM TextTypeCorrect == Spec => []TextTypeOK
  <1>1. TextInv => TextTypeOK
    BY DEF TextInv
  <1>2. QED
    BY <1>1, TextInvariance, PTL

\* A string made of fresh strings in memory never used before reads as the
\* program means it, whatever getData finds after it.
THEOREM FreshStringsRead == Spec => []FreshReadsRight
  <1>1. TextInv => FreshReadsRight
    BY TextAssumption, ReadFresh DEF FreshReadsRight, ReadsRight
  <1>2. QED
    BY <1>1, TextInvariance, PTL

=============================================================================
