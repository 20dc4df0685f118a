------------------------- MODULE ShrimpFile_proofs -------------------------
(***************************************************************************)
(* Proofs about the executable file: for any tables with any number of     *)
(* entries, reading back what serialize has written gives the tables.      *)
(*                                                                         *)
(* What a fold does is known by induction on the sequence.  The library's  *)
(* induction theorems have an operator as a parameter and cannot be cited, *)
(* so an induction is written as the impossibility of a least              *)
(* counterexample (SmallestNat), and the folds of the file are steps of    *)
(* one operator, FileStep.                                                 *)
(***************************************************************************)
EXTENDS ShrimpFile, SequenceTheorems, FiniteSetTheorems, TLAPS

\* A set of numbers up to n has a least element.
LEMMA SmallestNat ==
  ASSUME NEW n \in Nat, NEW S \in SUBSET (0 .. n), S # {}
  PROVE  \E k \in S : \A i \in S : k <= i
  <1> DEFINE N == 0 .. n
             T == { 0 .. k : k \in S }
  <1>1. T \subseteq FiniteSubsetsOf(N)
    <2>1. IsFiniteSet(N)
      BY FS_Interval
    <2>2. T \subseteq SUBSET N
      OBVIOUS
    <2>3. QED
      BY <2>1, <2>2, FS_FiniteSubsetsOfFinite
  <1>2. PICK s \in T : \A t \in T : <<t, s>> \notin StrictSubsetOrdering(N)
    <2>1. T # {}
      OBVIOUS
    <2>2. IsFiniteSet(N)
      BY FS_Interval
    <2> HIDE DEF N, T
    <2>3. QED
      BY <1>1, <2>1, <2>2, FS_StrictSubsetOrderingWellFounded, WFMin
  <1>3. PICK k \in S : s = 0 .. k
    BY <1>2
  <1>4. ASSUME NEW i \in S, i < k PROVE FALSE
    <2>1. 0 .. i \in T /\ 0 .. i \subseteq s /\ k \notin 0 .. i /\ k \in s
      BY <1>3, <1>4
    <2>2. 0 .. i \in SUBSET N /\ s \in SUBSET N
      BY <1>2
    <2>3. <<0 .. i, s>> \in StrictSubsetOrdering(N)
      BY <2>1, <2>2 DEF StrictSubsetOrdering
    <2>4. QED
      BY <1>2, <2>1, <2>3
  <1>5. QED
    BY <1>4

-----------------------------------------------------------------------------
(***************************************************************************)
(* Folds.                                                                  *)
(***************************************************************************)
\* The step of each fold in the file: kind[1] says which, kind[2] is the file
\* that the reading ones read.
FileStep(kind, acc, x) ==
  CASE kind[1] = "Put"        -> Put(acc, x)
    [] kind[1] = "Flatten"    -> acc \o x
    [] kind[1] = "FieldBytes" -> acc + FieldBytes(x)
    [] kind[1] = "ClassBytes" -> acc + ClassBytes(x)
    [] kind[1] = "StringBytes" -> acc + StringBytes(x)
    [] kind[1] = "FuncBytes"  -> acc + FuncBytes(x)
    [] kind[1] = "ReadField"  -> ReadField(kind[2], acc)
    [] kind[1] = "ReadClass"  -> ReadClass(kind[2], acc)
    [] kind[1] = "ReadString" -> ReadString(kind[2], acc)
    [] kind[1] = "ReadFunc"   -> ReadFunc(kind[2], acc)

\* The function FoldLeft iterates, and the values it goes through.
IsIter(iter, kind, base, seq, n) ==
  iter = [s \in SUBSET (1 .. n) |->
            IF s = {} THEN base ELSE FileStep(kind, iter[s \ {Max(s)}], seq[Max(s)])]

IsTrace(h, kind, base, seq, n) ==
  /\ h[0] = base
  /\ \A k \in 1 .. n : h[k] = FileStep(kind, h[k - 1], seq[k])

\* The greatest of a set that has a greatest.
LEMMA GreatestIsMax ==
  ASSUME NEW s, NEW m \in s, s \subseteq Nat, \A i \in s : i <= m
  PROVE  Max(s) = m
  <1>1. \A x \in s : (\A y \in s : x >= y) <=> x = m
    OBVIOUS
  <1>2. QED
    BY <1>1 DEF Max

LEMMA IterExists ==
  ASSUME NEW kind, NEW base, NEW seq, NEW n \in Nat
  PROVE  \E iter : IsIter(iter, kind, base, seq, n)
  <1> DEFINE Bad == { m \in 0 .. n : ~ \E iter : IsIter(iter, kind, base, seq, m) }
  <1>1. SUFFICES ASSUME Bad # {} PROVE FALSE
    OBVIOUS
  <1>2. PICK m \in Bad : \A i \in Bad : m <= i
    BY <1>1, SmallestNat
  <1>3. m \in 0 .. n /\ ~ \E iter : IsIter(iter, kind, base, seq, m)
    BY <1>2
  <1>4. m # 0
    <2>1. SUFFICES ASSUME m = 0 PROVE FALSE
      OBVIOUS
    <2> DEFINE g == [s \in SUBSET (1 .. 0) |-> base]
    <2>2. g = [s \in SUBSET (1 .. 0) |->
                 IF s = {} THEN base ELSE FileStep(kind, g[s \ {Max(s)}], seq[Max(s)])]
      OBVIOUS
    <2>3. QED
      BY <1>3, <2>1, <2>2 DEF IsIter
  <1>5. PICK g : IsIter(g, kind, base, seq, m - 1)
    <2>1. m - 1 \in 0 .. n /\ m - 1 \notin Bad
      BY <1>2, <1>3, <1>4
    <2>2. QED
      BY <2>1
  <1> DEFINE h == [s \in SUBSET (1 .. m) |->
                     IF m \in s THEN FileStep(kind, g[s \ {m}], seq[m]) ELSE g[s]]
  <1>6. ASSUME NEW s \in SUBSET (1 .. m)
        PROVE  h[s] = IF s = {} THEN base ELSE FileStep(kind, h[s \ {Max(s)}], seq[Max(s)])
    <2>1. CASE m \in s
      <3>1. Max(s) = m
        <4>1. s \subseteq Nat /\ \A i \in s : i <= m
          BY <1>3
        <4>2. QED
          BY <2>1, <4>1, GreatestIsMax
      <3>2. h[s] = FileStep(kind, g[s \ {m}], seq[m])
        BY <2>1
      <3>3. h[s \ {m}] = g[s \ {m}]
        OBVIOUS
      <3> HIDE DEF h
      <3>4. QED
        BY <2>1, <3>1, <3>2, <3>3
    <2>2. CASE m \notin s
      <3>1. s \in SUBSET (1 .. m - 1)
        BY <1>3, <2>2
      <3>2. g[s] = IF s = {} THEN base ELSE FileStep(kind, g[s \ {Max(s)}], seq[Max(s)])
        BY <1>5, <3>1 DEF IsIter
      <3>3. h[s] = g[s] /\ h[s \ {Max(s)}] = g[s \ {Max(s)}]
        BY <2>2
      <3> HIDE DEF h
      <3>4. QED
        BY <3>2, <3>3
    <2>3. QED
      BY <2>1, <2>2
  <1>7. h = [s \in SUBSET (1 .. m) |->
               IF s = {} THEN base ELSE FileStep(kind, h[s \ {Max(s)}], seq[Max(s)])]
    <2>1. h = [s \in SUBSET (1 .. m) |-> h[s]]
      OBVIOUS
    <2> HIDE DEF h
    <2>2. QED
      BY <1>6, <2>1, Zenon
  <1>8. QED
    BY <1>3, <1>7 DEF IsIter

\* The values a fold goes through.
LEMMA IterTrace ==
  ASSUME NEW kind, NEW base, NEW seq, NEW n \in Nat, NEW iter,
         IsIter(iter, kind, base, seq, n)
  PROVE  \E h : IsTrace(h, kind, base, seq, n) /\ iter[1 .. n] = h[n]
  <1> DEFINE h == [k \in 0 .. n |-> iter[1 .. k]]
  <1>1. h[0] = base /\ h[n] = iter[1 .. n]
    BY DEF IsIter
  <1>2. ASSUME NEW k \in 1 .. n PROVE h[k] = FileStep(kind, h[k - 1], seq[k])
    <2>1. Max(1 .. k) = k
      <3>1. k \in 1 .. k /\ 1 .. k \subseteq Nat /\ \A i \in 1 .. k : i <= k
        OBVIOUS
      <3>2. QED
        BY <3>1, GreatestIsMax
    <2>2. (1 .. k) \ {k} = 1 .. k - 1
      OBVIOUS
    <2>3. iter[1 .. k] = FileStep(kind, iter[(1 .. k) \ {Max(1 .. k)}], seq[Max(1 .. k)])
      <3>1. 1 .. k \in SUBSET (1 .. n) /\ 1 .. k # {}
        OBVIOUS
      <3>2. QED
        BY <3>1 DEF IsIter
    <2>4. h[k] = iter[1 .. k] /\ h[k - 1] = iter[1 .. k - 1]
      OBVIOUS
    <2> HIDE DEF h
    <2>5. QED
      BY <2>1, <2>2, <2>3, <2>4
  <1> HIDE DEF h
  <1>3. QED
    BY <1>1, <1>2 DEF IsTrace

LEMMA FoldPut ==
  ASSUME NEW base, NEW seq, NEW n \in Nat, DOMAIN seq = 1 .. n
  PROVE  \E h : IsTrace(h, <<"Put", 0>>, base, seq, n) /\ FoldLeft(Put, base, seq) = h[n]
  <1> DEFINE kind == <<"Put", 0>>
             P(iter) == iter = [s \in SUBSET DOMAIN seq |->
                          IF s = {} THEN base ELSE Put(iter[s \ {Max(s)}], seq[Max(s)])]
             f == CHOOSE iter : P(iter)
  <1>1. FoldLeft(Put, base, seq) = f[DOMAIN seq]
    BY DEF FoldLeft, MapThenFoldSet
  <1>2. \A acc, x : FileStep(kind, acc, x) = Put(acc, x)
    BY DEF FileStep
  <1>3. \A iter : P(iter) <=> IsIter(iter, kind, base, seq, n)
    BY <1>2 DEF IsIter
  <1>4. P(f)
    <2>1. \E iter : P(iter)
      BY <1>3, IterExists
    <2> HIDE DEF P
    <2>2. QED
      BY <2>1
  <1> HIDE DEF kind, P, f
  <1>5. IsIter(f, kind, base, seq, n)
    BY <1>3, <1>4
  <1>6. QED
    BY <1>1, <1>5, IterTrace DEF kind

LEMMA SumFieldBytes ==
  ASSUME NEW seq, NEW n \in Nat, DOMAIN seq = 1 .. n
  PROVE  \E h : IsTrace(h, <<"FieldBytes", 0>>, 0, seq, n) /\ Sum(FieldBytes, seq) = h[n]
  <1> DEFINE kind == <<"FieldBytes", 0>>
             P(iter) == iter = [s \in SUBSET DOMAIN seq |->
                          IF s = {} THEN 0 ELSE iter[s \ {Max(s)}] + FieldBytes(seq[Max(s)])]
             f == CHOOSE iter : P(iter)
  <1>1. Sum(FieldBytes, seq) = f[DOMAIN seq]
    BY DEF Sum, FoldLeft, MapThenFoldSet
  <1>2. \A acc, x : FileStep(kind, acc, x) = acc + FieldBytes(x)
    BY DEF FileStep
  <1>3. \A iter : P(iter) <=> IsIter(iter, kind, 0, seq, n)
    BY <1>2 DEF IsIter
  <1>4. P(f)
    <2>1. \E iter : P(iter)
      BY <1>3, IterExists
    <2> HIDE DEF P
    <2>2. QED
      BY <2>1
  <1> HIDE DEF kind, P, f
  <1>5. IsIter(f, kind, 0, seq, n)
    BY <1>3, <1>4
  <1>6. QED
    BY <1>1, <1>5, IterTrace DEF kind

LEMMA SumClassBytes ==
  ASSUME NEW seq, NEW n \in Nat, DOMAIN seq = 1 .. n
  PROVE  \E h : IsTrace(h, <<"ClassBytes", 0>>, 0, seq, n) /\ Sum(ClassBytes, seq) = h[n]
  <1> DEFINE kind == <<"ClassBytes", 0>>
             P(iter) == iter = [s \in SUBSET DOMAIN seq |->
                          IF s = {} THEN 0 ELSE iter[s \ {Max(s)}] + ClassBytes(seq[Max(s)])]
             f == CHOOSE iter : P(iter)
  <1>1. Sum(ClassBytes, seq) = f[DOMAIN seq]
    BY DEF Sum, FoldLeft, MapThenFoldSet
  <1>2. \A acc, x : FileStep(kind, acc, x) = acc + ClassBytes(x)
    BY DEF FileStep
  <1>3. \A iter : P(iter) <=> IsIter(iter, kind, 0, seq, n)
    BY <1>2 DEF IsIter
  <1>4. P(f)
    <2>1. \E iter : P(iter)
      BY <1>3, IterExists
    <2> HIDE DEF P
    <2>2. QED
      BY <2>1
  <1> HIDE DEF kind, P, f
  <1>5. IsIter(f, kind, 0, seq, n)
    BY <1>3, <1>4
  <1>6. QED
    BY <1>1, <1>5, IterTrace DEF kind

LEMMA SumStringBytes ==
  ASSUME NEW seq, NEW n \in Nat, DOMAIN seq = 1 .. n
  PROVE  \E h : IsTrace(h, <<"StringBytes", 0>>, 0, seq, n) /\ Sum(StringBytes, seq) = h[n]
  <1> DEFINE kind == <<"StringBytes", 0>>
             P(iter) == iter = [s \in SUBSET DOMAIN seq |->
                          IF s = {} THEN 0 ELSE iter[s \ {Max(s)}] + StringBytes(seq[Max(s)])]
             f == CHOOSE iter : P(iter)
  <1>1. Sum(StringBytes, seq) = f[DOMAIN seq]
    BY DEF Sum, FoldLeft, MapThenFoldSet
  <1>2. \A acc, x : FileStep(kind, acc, x) = acc + StringBytes(x)
    BY DEF FileStep
  <1>3. \A iter : P(iter) <=> IsIter(iter, kind, 0, seq, n)
    BY <1>2 DEF IsIter
  <1>4. P(f)
    <2>1. \E iter : P(iter)
      BY <1>3, IterExists
    <2> HIDE DEF P
    <2>2. QED
      BY <2>1
  <1> HIDE DEF kind, P, f
  <1>5. IsIter(f, kind, 0, seq, n)
    BY <1>3, <1>4
  <1>6. QED
    BY <1>1, <1>5, IterTrace DEF kind

LEMMA SumFuncBytes ==
  ASSUME NEW seq, NEW n \in Nat, DOMAIN seq = 1 .. n
  PROVE  \E h : IsTrace(h, <<"FuncBytes", 0>>, 0, seq, n) /\ Sum(FuncBytes, seq) = h[n]
  <1> DEFINE kind == <<"FuncBytes", 0>>
             P(iter) == iter = [s \in SUBSET DOMAIN seq |->
                          IF s = {} THEN 0 ELSE iter[s \ {Max(s)}] + FuncBytes(seq[Max(s)])]
             f == CHOOSE iter : P(iter)
  <1>1. Sum(FuncBytes, seq) = f[DOMAIN seq]
    BY DEF Sum, FoldLeft, MapThenFoldSet
  <1>2. \A acc, x : FileStep(kind, acc, x) = acc + FuncBytes(x)
    BY DEF FileStep
  <1>3. \A iter : P(iter) <=> IsIter(iter, kind, 0, seq, n)
    BY <1>2 DEF IsIter
  <1>4. P(f)
    <2>1. \E iter : P(iter)
      BY <1>3, IterExists
    <2> HIDE DEF P
    <2>2. QED
      BY <2>1
  <1> HIDE DEF kind, P, f
  <1>5. IsIter(f, kind, 0, seq, n)
    BY <1>3, <1>4
  <1>6. QED
    BY <1>1, <1>5, IterTrace DEF kind

LEMMA TableReadField ==
  ASSUME NEW img, NEW o, NEW n \in Nat
  PROVE  \E h : /\ IsTrace(h, <<"ReadField", img>>, [pos |-> o, seq |-> <<>>], [i \in 1 .. n |-> i], n)
               /\ ReadTable(ReadField, img, o, n) = h[n]
  <1> DEFINE kind == <<"ReadField", img>>
             base == [pos |-> o, seq |-> <<>>]
             seq  == [i \in 1 .. n |-> i]
             P(iter) == iter = [s \in SUBSET DOMAIN seq |->
                          IF s = {} THEN base ELSE ReadField(img, iter[s \ {Max(s)}])]
             f == CHOOSE iter : P(iter)
  <1>1. ReadTable(ReadField, img, o, n) = f[DOMAIN seq]
    BY DEF ReadTable, FoldLeft, MapThenFoldSet
  <1>2. \A acc, x : FileStep(kind, acc, x) = ReadField(img, acc)
    BY DEF FileStep
  <1>3. DOMAIN seq = 1 .. n
    OBVIOUS
  <1> HIDE DEF kind, base, seq
  <1>4. \A iter : P(iter) <=> IsIter(iter, kind, base, seq, n)
    BY <1>2, <1>3 DEF IsIter
  <1>5. P(f)
    <2>1. \E iter : P(iter)
      BY <1>4, IterExists
    <2> HIDE DEF P
    <2>2. QED
      BY <2>1
  <1> HIDE DEF P, f
  <1>6. IsIter(f, kind, base, seq, n)
    BY <1>4, <1>5
  <1>7. QED
    BY <1>1, <1>3, <1>6, IterTrace DEF kind, base, seq

LEMMA TableReadClass ==
  ASSUME NEW img, NEW o, NEW n \in Nat
  PROVE  \E h : /\ IsTrace(h, <<"ReadClass", img>>, [pos |-> o, seq |-> <<>>], [i \in 1 .. n |-> i], n)
               /\ ReadTable(ReadClass, img, o, n) = h[n]
  <1> DEFINE kind == <<"ReadClass", img>>
             base == [pos |-> o, seq |-> <<>>]
             seq  == [i \in 1 .. n |-> i]
             P(iter) == iter = [s \in SUBSET DOMAIN seq |->
                          IF s = {} THEN base ELSE ReadClass(img, iter[s \ {Max(s)}])]
             f == CHOOSE iter : P(iter)
  <1>1. ReadTable(ReadClass, img, o, n) = f[DOMAIN seq]
    BY DEF ReadTable, FoldLeft, MapThenFoldSet
  <1>2. \A acc, x : FileStep(kind, acc, x) = ReadClass(img, acc)
    BY DEF FileStep
  <1>3. DOMAIN seq = 1 .. n
    OBVIOUS
  <1> HIDE DEF kind, base, seq
  <1>4. \A iter : P(iter) <=> IsIter(iter, kind, base, seq, n)
    BY <1>2, <1>3 DEF IsIter
  <1>5. P(f)
    <2>1. \E iter : P(iter)
      BY <1>4, IterExists
    <2> HIDE DEF P
    <2>2. QED
      BY <2>1
  <1> HIDE DEF P, f
  <1>6. IsIter(f, kind, base, seq, n)
    BY <1>4, <1>5
  <1>7. QED
    BY <1>1, <1>3, <1>6, IterTrace DEF kind, base, seq

LEMMA TableReadString ==
  ASSUME NEW img, NEW o, NEW n \in Nat
  PROVE  \E h : /\ IsTrace(h, <<"ReadString", img>>, [pos |-> o, seq |-> <<>>], [i \in 1 .. n |-> i], n)
               /\ ReadTable(ReadString, img, o, n) = h[n]
  <1> DEFINE kind == <<"ReadString", img>>
             base == [pos |-> o, seq |-> <<>>]
             seq  == [i \in 1 .. n |-> i]
             P(iter) == iter = [s \in SUBSET DOMAIN seq |->
                          IF s = {} THEN base ELSE ReadString(img, iter[s \ {Max(s)}])]
             f == CHOOSE iter : P(iter)
  <1>1. ReadTable(ReadString, img, o, n) = f[DOMAIN seq]
    BY DEF ReadTable, FoldLeft, MapThenFoldSet
  <1>2. \A acc, x : FileStep(kind, acc, x) = ReadString(img, acc)
    BY DEF FileStep
  <1>3. DOMAIN seq = 1 .. n
    OBVIOUS
  <1> HIDE DEF kind, base, seq
  <1>4. \A iter : P(iter) <=> IsIter(iter, kind, base, seq, n)
    BY <1>2, <1>3 DEF IsIter
  <1>5. P(f)
    <2>1. \E iter : P(iter)
      BY <1>4, IterExists
    <2> HIDE DEF P
    <2>2. QED
      BY <2>1
  <1> HIDE DEF P, f
  <1>6. IsIter(f, kind, base, seq, n)
    BY <1>4, <1>5
  <1>7. QED
    BY <1>1, <1>3, <1>6, IterTrace DEF kind, base, seq

LEMMA TableReadFunc ==
  ASSUME NEW img, NEW o, NEW n \in Nat
  PROVE  \E h : /\ IsTrace(h, <<"ReadFunc", img>>, [pos |-> o, seq |-> <<>>], [i \in 1 .. n |-> i], n)
               /\ ReadTable(ReadFunc, img, o, n) = h[n]
  <1> DEFINE kind == <<"ReadFunc", img>>
             base == [pos |-> o, seq |-> <<>>]
             seq  == [i \in 1 .. n |-> i]
             P(iter) == iter = [s \in SUBSET DOMAIN seq |->
                          IF s = {} THEN base ELSE ReadFunc(img, iter[s \ {Max(s)}])]
             f == CHOOSE iter : P(iter)
  <1>1. ReadTable(ReadFunc, img, o, n) = f[DOMAIN seq]
    BY DEF ReadTable, FoldLeft, MapThenFoldSet
  <1>2. \A acc, x : FileStep(kind, acc, x) = ReadFunc(img, acc)
    BY DEF FileStep
  <1>3. DOMAIN seq = 1 .. n
    OBVIOUS
  <1> HIDE DEF kind, base, seq
  <1>4. \A iter : P(iter) <=> IsIter(iter, kind, base, seq, n)
    BY <1>2, <1>3 DEF IsIter
  <1>5. P(f)
    <2>1. \E iter : P(iter)
      BY <1>4, IterExists
    <2> HIDE DEF P
    <2>2. QED
      BY <2>1
  <1> HIDE DEF P, f
  <1>6. IsIter(f, kind, base, seq, n)
    BY <1>4, <1>5
  <1>7. QED
    BY <1>1, <1>3, <1>6, IterTrace DEF kind, base, seq

-----------------------------------------------------------------------------
(***************************************************************************)
(* Sequences of any entries.                                               *)
(***************************************************************************)
IsSeq(s) == \E S : s \in Seq(S)

LEMMA SeqFacts ==
  ASSUME NEW s, IsSeq(s)
  PROVE  Len(s) \in Nat /\ DOMAIN s = 1 .. Len(s) /\ s = [i \in 1 .. Len(s) |-> s[i]]
  BY LenProperties DEF IsSeq

LEMMA MadeSeq ==
  ASSUME NEW n \in Nat, NEW s, s = [i \in 1 .. n |-> s[i]]
  PROVE  IsSeq(s) /\ Len(s) = n
  <1> DEFINE S == { s[i] : i \in 1 .. n }
  <1>1. s \in [1 .. n -> S]
    BY Zenon
  <1> HIDE DEF S
  <1>2. s \in Seq(S) /\ Len(s) = n
    BY <1>1
  <1>3. QED
    BY <1>2 DEF IsSeq

LEMMA ConcatFacts ==
  ASSUME NEW a, NEW b, IsSeq(a), IsSeq(b)
  PROVE  /\ IsSeq(a \o b)
         /\ Len(a \o b) = Len(a) + Len(b)
         /\ \A i \in 1 .. Len(a) : (a \o b)[i] = a[i]
         /\ \A i \in 1 .. Len(b) : (a \o b)[Len(a) + i] = b[i]
  <1>1. PICK S : a \in Seq(S)
    BY DEF IsSeq
  <1>2. PICK T : b \in Seq(T)
    BY DEF IsSeq
  <1>3. a \in Seq(S \cup T) /\ b \in Seq(S \cup T)
    BY <1>1, <1>2, SeqMonotonic
  <1>4. Len(a) \in Nat /\ Len(b) \in Nat
    BY SeqFacts
  <1>5. /\ a \o b \in Seq(S \cup T)
        /\ Len(a \o b) = Len(a) + Len(b)
        /\ \A i \in 1 .. Len(a) + Len(b) :
             (a \o b)[i] = IF i <= Len(a) THEN a[i] ELSE b[i - Len(a)]
    BY <1>3, ConcatProperties
  <1>6. QED
    BY <1>4, <1>5 DEF IsSeq

LEMMA ConcatNothing ==
  ASSUME NEW s, IsSeq(s)
  PROVE  <<>> \o s = s
  BY ConcatEmptySeq DEF IsSeq

\* FlattenSeq appends one sequence after the other.
LEMMA FlattenTrace ==
  ASSUME NEW seqs, NEW n \in Nat, IsSeq(seqs), Len(seqs) = n,
         \A i \in 1 .. n : IsSeq(seqs[i])
  PROVE  \E f : /\ f[0] = <<>>
                /\ \A i \in 1 .. n : f[i] = f[i - 1] \o seqs[i]
                /\ \A i \in 0 .. n : IsSeq(f[i])
                /\ FlattenSeq(seqs) = f[n]
  <1> DEFINE P(g) == g = [i \in 1 .. Len(seqs) |->
                            IF i = 1 THEN seqs[i] ELSE g[i - 1] \o seqs[i]]
             flatten == CHOOSE g : P(g)
             f == [i \in 0 .. n |-> IF i = 0 THEN <<>> ELSE flatten[i]]
  <1>1. P(flatten)
    <2>1. PICK h : IsTrace(h, <<"Flatten", 0>>, <<>>, seqs, n)
      BY IterExists, IterTrace
    <2>2. h[0] = <<>> /\ \A k \in 1 .. n : h[k] = h[k - 1] \o seqs[k]
      BY <2>1 DEF IsTrace, FileStep
    <2> DEFINE g == [i \in 1 .. n |-> h[i]]
    <2>3. ASSUME NEW i \in 1 .. n
          PROVE  g[i] = IF i = 1 THEN seqs[i] ELSE g[i - 1] \o seqs[i]
      <3>1. CASE i = 1
        <4>1. h[i] = h[i - 1] \o seqs[i] /\ IsSeq(seqs[i])
          BY <2>2, Zenon
        <4>2. h[i - 1] = <<>>
          BY <2>2, <3>1
        <4>3. h[i] = seqs[i]
          BY <4>1, <4>2, ConcatNothing
        <4>4. QED
          BY <3>1, <4>3
      <3>2. CASE i # 1
        BY SMTT(20), <2>2, <3>2
      <3>3. QED
        BY <3>1, <3>2
    <2>4. P(g)
      <3>1. g = [i \in 1 .. n |-> g[i]]
        OBVIOUS
      <3> HIDE DEF g
      <3>2. QED
        BY <2>3, <3>1
    <2> HIDE DEF P, g
    <2>5. QED
      BY <2>4
  <1>2. FlattenSeq(seqs) = IF n = 0 THEN seqs ELSE flatten[n]
    BY DEF FlattenSeq
  <1> HIDE DEF flatten
  <1>3. ASSUME NEW i \in 1 .. n PROVE f[i] = f[i - 1] \o seqs[i]
    <2>1. CASE i = 1
      <3>1. f[i] = seqs[i] /\ f[i - 1] = <<>>
        BY <1>1, <2>1
      <3>2. QED
        BY <3>1, ConcatNothing
    <2>2. CASE i # 1
      <3>1. flatten[i] = flatten[i - 1] \o seqs[i]
        BY <1>1, <2>2
      <3>2. f[i] = flatten[i] /\ f[i - 1] = flatten[i - 1]
        BY <2>2
      <3> HIDE DEF f
      <3>3. QED
        BY <3>1, <3>2
    <2>3. QED
      BY <2>1, <2>2
  <1>4. f[0] = <<>>
    OBVIOUS
  <1>5. FlattenSeq(seqs) = f[n]
    <2>1. n = 0 => seqs = <<>>
      BY SeqFacts DEF IsSeq
    <2>2. QED
      BY <1>2, <2>1
  <1> HIDE DEF f
  <1>6. \A i \in 0 .. n : IsSeq(f[i])
    <2> DEFINE Bad == { i \in 0 .. n : ~ IsSeq(f[i]) }
    <2>1. SUFFICES ASSUME Bad # {} PROVE FALSE
      OBVIOUS
    <2>2. PICK i \in Bad : \A j \in Bad : i <= j
      BY <2>1, SmallestNat
    <2>3. i # 0
      <3>1. IsSeq(<<>>)
        BY EmptySeq DEF IsSeq
      <3>2. QED
        BY <1>4, <2>2, <3>1
    <2>4. IsSeq(f[i - 1])
      BY <2>2, <2>3
    <2>5. i \in 1 .. n /\ ~ IsSeq(f[i])
      BY <2>2, <2>3
    <2>6. f[i] = f[i - 1] \o seqs[i] /\ IsSeq(seqs[i])
      BY <1>3, <2>5
    <2>7. IsSeq(f[i - 1] \o seqs[i])
      BY <2>4, <2>6, ConcatFacts
    <2>8. QED
      BY <2>5, <2>6, <2>7, Zenon
  <1>7. QED
    BY <1>3, <1>4, <1>5, <1>6

-----------------------------------------------------------------------------
(***************************************************************************)
(* What is written lies one after the other.                               *)
(***************************************************************************)
\* Writes ws lie in the file from offset o to offset e.
LaidAt(img, o, ws, e, pos) ==
  /\ pos \in [0 .. Len(ws) -> Nat]
  /\ pos[0] = o /\ pos[Len(ws)] = e
  /\ \A k \in 1 .. Len(ws) :
       /\ pos[k] = pos[k - 1] + ws[k][1]
       /\ ws[k][1] # 0 => pos[k - 1] \in DOMAIN img /\ img[pos[k - 1]] = ws[k]

Laid(img, o, ws, e) == \E pos : LaidAt(img, o, ws, e, pos)

\* Two series of writes lie one after the other.
LEMMA LaidParts ==
  ASSUME NEW img, NEW o, NEW e, NEW a, NEW b, IsSeq(a), IsSeq(b),
         Laid(img, o, a \o b, e)
  PROVE  \E m \in Nat : Laid(img, o, a, m) /\ Laid(img, m, b, e)
  <1>1. PICK pos : LaidAt(img, o, a \o b, e, pos)
    BY DEF Laid
  <1>2. /\ Len(a) \in Nat /\ Len(b) \in Nat
        /\ Len(a \o b) = Len(a) + Len(b)
        /\ \A i \in 1 .. Len(a) : (a \o b)[i] = a[i]
        /\ \A i \in 1 .. Len(b) : (a \o b)[Len(a) + i] = b[i]
    BY ConcatFacts, SeqFacts
  <1>3. /\ pos \in [0 .. Len(a) + Len(b) -> Nat]
        /\ pos[0] = o /\ pos[Len(a) + Len(b)] = e
        /\ \A k \in 1 .. Len(a) + Len(b) :
             /\ pos[k] = pos[k - 1] + (a \o b)[k][1]
             /\ (a \o b)[k][1] # 0 => /\ pos[k - 1] \in DOMAIN img
                                      /\ img[pos[k - 1]] = (a \o b)[k]
    BY <1>1, <1>2 DEF LaidAt
  <1> DEFINE m == pos[Len(a)]
             q == [k \in 0 .. Len(a) |-> pos[k]]
             r == [k \in 0 .. Len(b) |-> pos[Len(a) + k]]
  <1>4. LaidAt(img, o, a, m, q)
    <2>1. q \in [0 .. Len(a) -> Nat] /\ q[0] = o /\ q[Len(a)] = m
      BY <1>2, <1>3
    <2>2. ASSUME NEW k \in 1 .. Len(a)
          PROVE  /\ q[k] = q[k - 1] + a[k][1]
                 /\ a[k][1] # 0 => q[k - 1] \in DOMAIN img /\ img[q[k - 1]] = a[k]
      <3>1. k \in 1 .. Len(a) + Len(b) /\ (a \o b)[k] = a[k]
        BY <1>2
      <3>2. q[k] = pos[k] /\ q[k - 1] = pos[k - 1]
        BY <1>2
      <3> HIDE DEF q
      <3>3. QED
        BY <1>3, <3>1, <3>2
    <2>3. QED
      BY <2>1, <2>2 DEF LaidAt
  <1>5. LaidAt(img, m, b, e, r)
    <2>1. r \in [0 .. Len(b) -> Nat] /\ r[0] = m /\ r[Len(b)] = e
      BY <1>2, <1>3
    <2>2. ASSUME NEW k \in 1 .. Len(b)
          PROVE  /\ r[k] = r[k - 1] + b[k][1]
                 /\ b[k][1] # 0 => r[k - 1] \in DOMAIN img /\ img[r[k - 1]] = b[k]
      <3>1. Len(a) + k \in 1 .. Len(a) + Len(b) /\ (a \o b)[Len(a) + k] = b[k]
        BY <1>2
      <3>2. r[k] = pos[Len(a) + k] /\ r[k - 1] = pos[Len(a) + k - 1]
        BY <1>2
      <3> HIDE DEF r
      <3>3. QED
        BY <1>3, <3>1, <3>2
    <2>3. QED
      BY <2>1, <2>2 DEF LaidAt
  <1>6. m \in Nat
    BY <1>2, <1>3
  <1>7. QED
    BY <1>4, <1>5, <1>6 DEF Laid

\* So do the parts of a flattened series.
AllSeqs(seqs, n) ==
  IsSeq(seqs) /\ n \in Nat /\ Len(seqs) = n /\ \A i \in 1 .. n : IsSeq(seqs[i])

LaidEach(img, o, seqs, n, e) ==
  \E p \in [0 .. n -> Nat] : /\ p[0] = o /\ p[n] = e
                             /\ \A i \in 1 .. n : Laid(img, p[i - 1], seqs[i], p[i])

LEMMA LaidFlat ==
  ASSUME NEW img, NEW o, NEW e, NEW seqs, NEW n,
         o \in Nat, e \in Nat, AllSeqs(seqs, n), Laid(img, o, FlattenSeq(seqs), e)
  PROVE  LaidEach(img, o, seqs, n, e)
  <1>0. n \in Nat /\ IsSeq(seqs) /\ Len(seqs) = n /\ \A i \in 1 .. n : IsSeq(seqs[i])
    BY DEF AllSeqs
  <1> USE <1>0
  <1>1. PICK f : /\ f[0] = <<>>
                 /\ \A i \in 1 .. n : f[i] = f[i - 1] \o seqs[i]
                 /\ \A i \in 0 .. n : IsSeq(f[i])
                 /\ FlattenSeq(seqs) = f[n]
    BY <1>0, FlattenTrace
  <1> DEFINE Parts(k, x, p) == /\ p \in [0 .. k -> Nat]
                               /\ p[0] = o /\ p[k] = x
                               /\ \A i \in 1 .. k : Laid(img, p[i - 1], seqs[i], p[i])
             Good(k) == \A x \in Nat : Laid(img, o, f[k], x) => \E p : Parts(k, x, p)
             Bad == { k \in 0 .. n : ~ Good(k) }
  <1>2. Bad = {}
    <2>1. SUFFICES ASSUME Bad # {} PROVE FALSE
      OBVIOUS
    <2>2. PICK k \in Bad : \A j \in Bad : k <= j
      BY <1>0, <2>1, SmallestNat
    <2>3. k \in 0 .. n /\ \A j \in 0 .. k - 1 : Good(j)
      <3> HIDE DEF Good
      <3> QED BY <2>2
    <2>4. PICK x \in Nat : Laid(img, o, f[k], x) /\ ~ \E p : Parts(k, x, p)
      BY <2>2
    <2>5. CASE k = 0
      <3>1. PICK pos : LaidAt(img, o, <<>>, x, pos)
        BY <1>1, <2>4, <2>5 DEF Laid
      <3>2. x = o
        BY <3>1 DEF LaidAt
      <3>3. Parts(0, x, [i \in 0 .. 0 |-> o])
        BY <3>2
      <3> HIDE DEF Parts
      <3>4. QED
        BY <2>4, <2>5, <3>3
    <2>6. CASE k # 0
      <3>1. k \in 1 .. n /\ k - 1 \in 0 .. n /\ k - 1 \in 0 .. k - 1
        BY <2>3, <2>6
      <3>2. f[k] = f[k - 1] \o seqs[k] /\ IsSeq(f[k - 1]) /\ IsSeq(seqs[k])
        BY <1>1, <3>1
      <3>3. PICK m \in Nat : Laid(img, o, f[k - 1], m) /\ Laid(img, m, seqs[k], x)
        BY <2>4, <3>2, LaidParts
      <3>4. PICK p : Parts(k - 1, m, p)
        BY SMTT(20), <2>3, <3>1, <3>3
      <3> DEFINE q == [i \in 0 .. k |-> IF i = k THEN x ELSE p[i]]
      <3>5. q \in [0 .. k -> Nat] /\ q[0] = o /\ q[k] = x
        BY <3>1, <3>4
      <3>6. ASSUME NEW i \in 1 .. k PROVE Laid(img, q[i - 1], seqs[i], q[i])
        <4>1. CASE i = k
          <5>1. q[i - 1] = m /\ q[i] = x
            BY <3>1, <3>4, <4>1
          <5>2. QED
            BY <3>3, <4>1, <5>1
        <4>2. CASE i # k
          <5>1. i \in 1 .. k - 1 /\ q[i - 1] = p[i - 1] /\ q[i] = p[i]
            BY <3>1, <4>2
          <5> HIDE DEF q
          <5>2. QED
            BY <3>4, <5>1
        <4>3. QED
          BY <4>1, <4>2
      <3>7. Parts(k, x, q)
        BY <3>5, <3>6
      <3> HIDE DEF Parts, q
      <3>8. QED
        BY <2>4, <3>7
    <2>7. QED
      BY <2>5, <2>6
  <1>3. Good(n)
    <2> HIDE DEF Good
    <2> QED BY <1>0, <1>2
  <1>4. PICK p : Parts(n, e, p)
    BY <1>1, <1>3
  <1>5. QED
    BY <1>4 DEF LaidEach

EmptyFile == [end |-> 0, bytes |-> [o \in {} |-> <<>>]]

\* fwrite puts the writes of a series one after the other, and nothing
\* where nothing is written.
LEMMA PutLays ==
  ASSUME NEW ws, IsSeq(ws), \A k \in 1 .. Len(ws) : ws[k][1] \in Nat,
         NEW img, img = FoldLeft(Put, EmptyFile, ws).bytes
  PROVE  /\ \E e \in Nat : Laid(img, 0, ws, e)
         /\ \A o \in DOMAIN img : img[o][1] # 0
  <1> DEFINE n == Len(ws)
  <1>1. n \in Nat /\ DOMAIN ws = 1 .. n
    BY SeqFacts
  <1>2. PICK h : IsTrace(h, <<"Put", 0>>, EmptyFile, ws, n) /\ img = h[n].bytes
    <2> HIDE DEF n
    <2> QED BY <1>1, FoldPut
  <1>3. h[0] = EmptyFile /\ \A k \in 1 .. n : h[k] = Put(h[k - 1], ws[k])
    BY <1>2 DEF IsTrace, FileStep
  <1> DEFINE Lies(k, j) == /\ h[j].end = h[j - 1].end + ws[j][1]
                           /\ ws[j][1] # 0 => /\ h[j - 1].end \in DOMAIN h[k].bytes
                                              /\ h[k].bytes[h[j - 1].end] = ws[j]
             Good(k) == /\ \A j \in 0 .. k : h[j].end \in Nat
                        /\ \A o \in DOMAIN h[k].bytes :
                             o \in 0 .. h[k].end - 1 /\ h[k].bytes[o][1] # 0
                        /\ \A j \in 1 .. k : Lies(k, j)
             Bad == { k \in 0 .. n : ~ Good(k) }
  <1> HIDE DEF n
  <1>4. Good(0)
    BY <1>3 DEF EmptyFile
  <1>5. ASSUME NEW k \in 1 .. n, Good(k - 1) PROVE Good(k)
    <2>1. k - 1 \in Nat /\ k \in Nat /\ ws[k][1] \in Nat
      BY <1>1 DEF n
    <2>2. h[k] = Put(h[k - 1], ws[k]) /\ h[k - 1].end \in Nat
      BY <1>3, <1>5, <2>1
    <2>3. CASE ws[k][1] = 0
      <3>1. h[k] = h[k - 1]
        BY <2>2, <2>3 DEF Put
      <3>2. \A j \in 1 .. k : j = k \/ j \in 1 .. k - 1
        BY <2>1
      <3>3. \A j \in 0 .. k : j = k \/ j \in 0 .. k - 1
        BY <2>1
      <3>4. Lies(k, k)
        BY <2>2, <2>3, <3>1
      <3>5. \A j \in 1 .. k - 1 : Lies(k, j)
        BY <1>5, <3>1
      <3>6. QED
        BY <1>5, <2>2, <3>1, <3>2, <3>3, <3>4, <3>5
    <2>4. CASE ws[k][1] # 0
      <3> DEFINE e == h[k - 1].end
                 b == h[k - 1].bytes
                 c == h[k].bytes
      <3>1. /\ h[k].end = e + ws[k][1]
            /\ c = [o \in DOMAIN b \cup {e} |-> IF o = e THEN ws[k] ELSE b[o]]
        <4>1. h[k] = [ end   |-> e + ws[k][1],
                       bytes |-> [o \in DOMAIN b \cup {e} |-> IF o = e THEN ws[k] ELSE b[o]] ]
          BY <2>2, <2>4, Zenon DEF Put
        <4> HIDE DEF b, e
        <4>2. QED
          BY <4>1
      <3>2. e \notin DOMAIN b
        BY <1>5, <2>2
      <3>3. \A o \in DOMAIN b : c[o] = b[o] /\ o \in DOMAIN c
        BY <3>1, <3>2
      <3>4. \A o \in DOMAIN c : o \in 0 .. h[k].end - 1 /\ c[o][1] # 0
        <4>1. h[k].end > e /\ e \in Nat /\ h[k].end \in Nat
          BY <2>1, <2>2, <2>4, <3>1
        <4>2. e \in 0 .. h[k].end - 1 /\ c[e][1] # 0
          BY <2>4, <3>1, <4>1
        <4>3. \A o \in DOMAIN b : o \in 0 .. e - 1 /\ b[o][1] # 0
          BY <1>5
        <4>4. \A o \in DOMAIN b : o \in 0 .. h[k].end - 1 /\ c[o][1] # 0
          BY <3>3, <4>1, <4>3
        <4>5. DOMAIN c = DOMAIN b \cup {e}
          BY <3>1
        <4> HIDE DEF b, c, e
        <4>6. QED
          BY <4>2, <4>4, <4>5
      <3>5. Lies(k, k)
        BY <3>1
      <3>6. ASSUME NEW j \in 1 .. k - 1 PROVE Lies(k, j)
        <4>1. Lies(k - 1, j)
          BY <1>5
        <4>2. QED
          BY <3>3, <4>1
      <3>7. \A j \in 0 .. k : h[j].end \in Nat
        <4>1. h[k].end \in Nat
          BY <2>1, <2>2, <3>1
        <4>2. \A j \in 0 .. k : j = k \/ j \in 0 .. k - 1
          BY <2>1
        <4>3. QED
          BY <1>5, <4>1, <4>2
      <3>8. \A j \in 1 .. k : j = k \/ j \in 1 .. k - 1
        BY <2>1
      <3>9. \A j \in 1 .. k : Lies(k, j)
        <4> HIDE DEF Lies
        <4> QED BY <3>5, <3>6, <3>8
      <3>10. QED
        BY <3>4, <3>7, <3>9
    <2>5. QED
      BY <2>3, <2>4
  <1>6. Good(n)
    <2> HIDE DEF Good
    <2>1. SUFFICES ASSUME Bad # {} PROVE FALSE
      BY <1>1
    <2>2. PICK k \in Bad : \A j \in Bad : k <= j
      BY <1>1, <2>1, SmallestNat
    <2>3. k \in 1 .. n
      BY <1>1, <1>4, <2>2
    <2>4. k - 1 \in 0 .. n /\ k - 1 \notin Bad
      BY <1>1, <2>2, <2>3
    <2>5. QED
      BY <1>5, <2>2, <2>3, <2>4
  <1> DEFINE pos == [k \in 0 .. n |-> h[k].end]
  <1>7. LaidAt(img, 0, ws, h[n].end, pos)
    <2>1. pos \in [0 .. n -> Nat] /\ pos[0] = 0 /\ pos[n] = h[n].end
      BY <1>1, <1>3, <1>6 DEF EmptyFile
    <2>2. ASSUME NEW k \in 1 .. n
          PROVE  /\ pos[k] = pos[k - 1] + ws[k][1]
                 /\ ws[k][1] # 0 => pos[k - 1] \in DOMAIN img /\ img[pos[k - 1]] = ws[k]
      <3>1. Lies(n, k)
        BY <1>6
      <3>2. pos[k] = h[k].end /\ pos[k - 1] = h[k - 1].end
        BY <1>1
      <3>3. QED
        BY <1>2, <3>1, <3>2
    <2> HIDE DEF pos
    <2>3. QED
      BY <2>1, <2>2 DEF LaidAt, n
  <1>8. QED
    BY <1>1, <1>2, <1>6, <1>7 DEF Laid

\* A write of n bytes is read back.
LEMMA ReadBack ==
  ASSUME NEW img, NEW o, NEW e, NEW ws, NEW pos, LaidAt(img, o, ws, e, pos),
         NEW k \in 1 .. Len(ws), NEW n \in Nat, NEW v, ws[k] = <<n, v>>
  PROVE  /\ pos[k] = pos[k - 1] + n
         /\ n # 0 => Read(img, pos[k - 1], n) = v
  BY DEF LaidAt, Read

-----------------------------------------------------------------------------
(***************************************************************************)
(* Tables: if each entry is read as it was written, so is the table, and   *)
(* the sum of what the entries take is what the table takes.               *)
(***************************************************************************)
\* With entry i from p[i - 1] to p[i], what the steps of a sum add.
Adds(kind, seq, n, p) ==
  /\ n \in Nat /\ p \in [0 .. n -> Nat]
  /\ \A i \in 1 .. n : \A x : FileStep(kind, x, seq[i]) = x + (p[i] - p[i - 1])

LEMMA SumRuns ==
  ASSUME NEW kind, NEW seq, NEW n, NEW h, NEW p,
         IsTrace(h, kind, 0, seq, n), Adds(kind, seq, n, p)
  PROVE  h[n] = p[n] - p[0]
  <1>0. n \in Nat /\ p \in [0 .. n -> Nat]
    BY DEF Adds
  <1> USE <1>0
  <1> DEFINE Bad == { k \in 0 .. n : h[k] # p[k] - p[0] }
  <1>1. SUFFICES ASSUME Bad # {} PROVE FALSE
    BY <1>0
  <1>2. PICK k \in Bad : \A j \in Bad : k <= j
    BY <1>0, <1>1, SmallestNat
  <1>3. k \in 0 .. n /\ h[k] # p[k] - p[0]
    BY <1>2
  <1>4. k # 0
    BY <1>3 DEF IsTrace
  <1>5. h[k - 1] = p[k - 1] - p[0]
    BY <1>2, <1>3, <1>4
  <1>6. h[k] = h[k - 1] + (p[k] - p[k - 1])
    <2>1. k \in 1 .. n
      BY <1>3, <1>4
    <2>2. h[k] = FileStep(kind, h[k - 1], seq[k])
      BY <2>1 DEF IsTrace
    <2>3. \A x : FileStep(kind, x, seq[k]) = x + (p[k] - p[k - 1])
      BY <2>1 DEF Adds
    <2>4. QED
      BY <2>2, <2>3, Zenon
  <1>7. p[k] \in Nat /\ p[k - 1] \in Nat /\ p[0] \in Nat
    BY <1>0, <1>3, <1>4
  <1>8. QED
    BY <1>3, <1>5, <1>6, <1>7

\* What the steps of reading a table do.
Reads(kind, seq, n, p) ==
  /\ IsSeq(seq) /\ n \in Nat /\ Len(seq) = n
  /\ \A i \in 1 .. n : \A q, x : FileStep(kind, [pos |-> p[i - 1], seq |-> q], x)
                                = [pos |-> p[i], seq |-> Append(q, seq[i])]

ReadingTable(h, kind, index, seq, n, p) ==
  IsTrace(h, kind, [pos |-> p[0], seq |-> <<>>], index, n) /\ Reads(kind, seq, n, p)

TableRead(h, seq, n, p) == h[n] = [pos |-> p[n], seq |-> seq]

LEMMA TableRuns ==
  ASSUME NEW kind, NEW seq, NEW n, NEW h, NEW p, NEW index,
         ReadingTable(h, kind, index, seq, n, p)
  PROVE  TableRead(h, seq, n, p)
  <1> USE DEF ReadingTable, TableRead
  <1> DEFINE Read_(k) == [pos |-> p[k], seq |-> SubSeq(seq, 1, k)]
             Bad == { k \in 0 .. n : h[k] # Read_(k) }
  <1>0. PICK S : seq \in Seq(S)
    BY DEF IsSeq, Reads
  <1>a. n \in Nat /\ Len(seq) = n
    BY DEF Reads
  <1> USE <1>a
  <1>1. Bad = {}
    <2>1. SUFFICES ASSUME Bad # {} PROVE FALSE
      OBVIOUS
    <2>2. PICK k \in Bad : \A j \in Bad : k <= j
      BY <1>a, <2>1, SmallestNat
    <2>3. k \in 0 .. n /\ h[k] # Read_(k)
      BY <2>2
    <2>4. k # 0
      <3>1. SubSeq(seq, 1, 0) = <<>>
        BY <1>0
      <3>2. h[0] = Read_(0)
        BY <3>1 DEF IsTrace
      <3>3. QED
        BY <2>3, <3>2
    <2>5. k \in 1 .. n /\ k - 1 \in 0 .. n
      BY <2>3, <2>4
    <2>6. h[k - 1] = Read_(k - 1)
      <3>1. k - 1 \notin Bad
        <4> HIDE DEF Bad
        <4> QED BY <2>2, <2>5
      <3> HIDE DEF Read_
      <3>2. QED
        BY <2>5, <3>1
    <2>7. \E x : h[k] = FileStep(kind, h[k - 1], x)
      BY <2>5 DEF IsTrace
    <2>8. h[k] = [pos |-> p[k], seq |-> Append(SubSeq(seq, 1, k - 1), seq[k])]
      BY <2>5, <2>6, <2>7 DEF Reads
    <2>9. Append(SubSeq(seq, 1, k - 1), seq[k]) = SubSeq(seq, 1, k)
      BY <1>0, <1>a, <2>5, SMTT(30)
    <2>10. QED
      BY <2>3, <2>8, <2>9
  <1>2. h[n] = Read_(n)
    <2> HIDE DEF Read_
    <2> QED BY <1>1, <1>a
  <1>3. SubSeq(seq, 1, n) = seq
    BY <1>0, <1>a, SubSeqFull
  <1>4. QED
    BY <1>2, <1>3

-----------------------------------------------------------------------------
(***************************************************************************)
(* The entries of the tables.                                              *)
(***************************************************************************)
\* A name or a string: only the empty one has no bytes.
IsText(t) == TextLen[t] \in Nat /\ (TextLen[t] = 0 => t = EmptyText)

IsString(s) == s = [id |-> s.id, str |-> s.str] /\ IsText(s.str)

IsFunc(f) ==
  /\ f = [ id |-> f.id, func_start |-> f.func_start, num_of_args |-> f.num_of_args,
           num_of_vregs |-> f.num_of_vregs, name |-> f.name ]
  /\ IsText(f.name)

IsField(f) ==
  /\ f = [ id |-> f.id, is_ref |-> f.is_ref, size |-> f.size, offset |-> f.offset,
           name |-> f.name ]
  /\ IsText(f.name)

IsClass(c) ==
  /\ c = [id |-> c.id, size |-> c.size, name |-> c.name, fields |-> c.fields]
  /\ IsText(c.name)
  /\ IsSeq(c.fields) /\ \A i \in 1 .. Len(c.fields) : IsField(c.fields[i])

LEMMA ReadBackText ==
  ASSUME NEW img, NEW o, NEW e, NEW ws, NEW pos, LaidAt(img, o, ws, e, pos),
         NEW k \in 1 .. Len(ws), NEW t, IsText(t), ws[k] = Text(t)
  PROVE  /\ pos[k] = pos[k - 1] + TextLen[t]
         /\ ReadText(img, pos[k - 1], TextLen[t]) = t
  BY ReadBack DEF IsText, ReadText, Text

\* What each serialize* writes is a series of writes.
IsWrites(ws) == IsSeq(ws) /\ \A k \in 1 .. Len(ws) : ws[k][1] \in Nat

LEMMA ConcatWrites ==
  ASSUME NEW a, NEW b, IsWrites(a), IsWrites(b)
  PROVE  IsWrites(a \o b)
  <1>1. /\ Len(a) \in Nat /\ Len(b) \in Nat
        /\ IsSeq(a \o b) /\ Len(a \o b) = Len(a) + Len(b)
        /\ \A i \in 1 .. Len(a) : (a \o b)[i] = a[i]
        /\ \A i \in 1 .. Len(b) : (a \o b)[Len(a) + i] = b[i]
    BY SeqFacts, ConcatFacts DEF IsWrites
  <1>2. ASSUME NEW k \in 1 .. Len(a \o b) PROVE (a \o b)[k][1] \in Nat
    <2>1. CASE k \in 1 .. Len(a)
      BY <1>1, <2>1 DEF IsWrites
    <2>2. CASE k \notin 1 .. Len(a)
      <3>1. k - Len(a) \in 1 .. Len(b) /\ k = Len(a) + (k - Len(a))
        BY <1>1, <2>2
      <3>2. (a \o b)[k] = b[k - Len(a)]
        BY <1>1, <3>1
      <3>3. QED
        BY <3>1, <3>2 DEF IsWrites
    <2>3. QED
      BY <2>1, <2>2
  <1>3. QED
    BY <1>1, <1>2 DEF IsWrites

LEMMA FlattenWrites ==
  ASSUME NEW seqs, NEW n \in Nat, IsSeq(seqs), Len(seqs) = n,
         \A i \in 1 .. n : IsWrites(seqs[i])
  PROVE  IsWrites(FlattenSeq(seqs))
  <1>0. \A i \in 1 .. n : IsSeq(seqs[i])
    BY DEF IsWrites
  <1>1. PICK f : /\ f[0] = <<>>
                 /\ \A i \in 1 .. n : f[i] = f[i - 1] \o seqs[i]
                 /\ \A i \in 0 .. n : IsSeq(f[i])
                 /\ FlattenSeq(seqs) = f[n]
    BY <1>0, FlattenTrace
  <1> DEFINE Bad == { i \in 0 .. n : ~ IsWrites(f[i]) }
  <1>2. Bad = {}
    <2>1. SUFFICES ASSUME Bad # {} PROVE FALSE
      OBVIOUS
    <2>2. PICK i \in Bad : \A j \in Bad : i <= j
      BY <2>1, SmallestNat
    <2>3. i # 0
      <3>1. IsWrites(<<>>)
        BY EmptySeq DEF IsSeq, IsWrites
      <3>2. QED
        BY <1>1, <2>2, <3>1
    <2>4. i \in 1 .. n /\ i - 1 \in 0 .. n /\ ~ IsWrites(f[i])
      BY <2>2, <2>3
    <2>5. IsWrites(f[i - 1])
      BY <2>2, <2>4
    <2>6. f[i] = f[i - 1] \o seqs[i] /\ IsWrites(seqs[i])
      BY <1>1, <2>4
    <2>7. IsWrites(f[i - 1] \o seqs[i])
      BY <2>5, <2>6, ConcatWrites
    <2>8. QED
      BY <2>4, <2>6, <2>7, Zenon
  <1>3. QED
    BY <1>1, <1>2

LEMMA StringEntry ==
  ASSUME NEW img, NEW o, NEW e, NEW f, o \in Nat, IsString(f), Laid(img, o, StringWrites(f), e)
  PROVE  /\ e = o + StringBytes(f) /\ StringBytes(f) \in Int
         /\ \A q : ReadString(img, [pos |-> o, seq |-> q]) = [pos |-> e, seq |-> Append(q, f)]
  <1> DEFINE ws == StringWrites(f)
             n  == TextLen[f.str]
  <1>1. PICK pos : LaidAt(img, o, ws, e, pos)
    BY DEF Laid
  <1>2. /\ Len(ws) = 3
        /\ ws[1] = <<2, f.id>>
        /\ ws[2] = <<8, n>>
        /\ ws[3] = Text(f.str)
    BY DEF StringWrites
  <1>3. n \in Nat /\ IsText(f.str)
    BY DEF IsString, IsText
  <1> HIDE DEF ws
  <1>4. pos[0] = o /\ pos[3] = e
    BY <1>1, <1>2 DEF LaidAt
  <1>5. pos[1] = o + 2 /\ Read(img, o, 2) = f.id
    <2> HIDE DEF n
    <2>1. 1 \in 1 .. Len(ws) /\ ws[1] = <<2, f.id>>
      BY <1>2
    <2>2. pos[1] = pos[1 - 1] + 2 /\ Read(img, pos[1 - 1], 2) = f.id
      BY <1>1, <2>1, 2 \in Nat, 2 # 0, ReadBack
    <2>3. QED
      BY <1>4, <2>2
  <1>6. pos[2] = o + 10 /\ Read(img, o + 2, 8) = n
    <2> HIDE DEF n
    <2>1. 2 \in 1 .. Len(ws) /\ ws[2] = <<8, n>>
      BY <1>2
    <2>2. pos[2] = pos[2 - 1] + 8 /\ Read(img, pos[2 - 1], 8) = n
      BY <1>1, <2>1, 8 \in Nat, 8 # 0, ReadBack
    <2>3. QED
      BY <1>5, <2>2
  <1>7. e = o + 10 + n /\ ReadText(img, o + 10, n) = f.str
    <2>1. 3 \in 1 .. Len(ws) /\ ws[3] = Text(f.str)
      BY <1>2
    <2>2. pos[3] = pos[3 - 1] + n /\ ReadText(img, pos[3 - 1], n) = f.str
      BY <1>1, <1>3, <2>1, ReadBackText
    <2> HIDE DEF n
    <2>3. QED
      BY <1>3, <1>4, <1>6, <2>2
  <1> HIDE DEF n
  <1>8. e = o + StringBytes(f) /\ StringBytes(f) \in Int
    BY <1>3, <1>7 DEF StringBytes, n
  <1>9. ASSUME NEW q
         PROVE  ReadString(img, [pos |-> o, seq |-> q]) = [pos |-> e, seq |-> Append(q, f)]
    <2>1. f = [id |-> f.id, str |-> f.str]
      BY DEF IsString
    <2>2. QED
      BY <1>5, <1>6, <1>7, <2>1 DEF ReadString
  <1>10. QED
    BY <1>8, <1>9

LEMMA StringWritesWrites ==
  ASSUME NEW f, IsString(f)
  PROVE  IsWrites(StringWrites(f))
  <1> DEFINE ws == StringWrites(f)
  <1>1. ws = [k \in 1 .. 3 |-> ws[k]] /\ \A k \in 1 .. 3 : ws[k][1] \in Nat
    BY DEF StringWrites, Text, IsString, IsText
  <1> HIDE DEF ws
  <1>2. IsSeq(ws) /\ Len(ws) = 3
    BY <1>1, 3 \in Nat, MadeSeq
  <1>3. IsWrites(ws)
    BY <1>1, <1>2 DEF IsWrites
  <1>4. QED
    BY <1>3 DEF ws

LEMMA StringTable ==
  ASSUME NEW img, NEW o \in Nat, NEW e \in Nat, NEW seq, IsSeq(seq),
         \A i \in 1 .. Len(seq) : IsString(seq[i]),
         Laid(img, o, Each(StringWrites, seq), e)
  PROVE  /\ e = o + Sum(StringBytes, seq) /\ Sum(StringBytes, seq) \in Int
         /\ ReadTable(ReadString, img, o, Len(seq)) = [pos |-> e, seq |-> seq]
  <1> DEFINE n    == Len(seq)
             seqs == [i \in 1 .. n |-> StringWrites(seq[i])]
             base == [pos |-> o, seq |-> <<>>]
             index == [i \in 1 .. n |-> i]
             reading == <<"ReadString", img>>
             summing == <<"StringBytes", 0>>
  <1>1. n \in Nat /\ DOMAIN seq = 1 .. n
    BY SeqFacts
  <1>2. Each(StringWrites, seq) = FlattenSeq(seqs)
    BY <1>1 DEF Each
  <1>3. \A i \in 1 .. n : seqs[i] = StringWrites(seq[i]) /\ IsSeq(seqs[i])
    BY StringWritesWrites DEF IsWrites
  <1> HIDE DEF n
  <1>4. IsSeq(seqs) /\ Len(seqs) = n
    <2>1. seqs = [i \in 1 .. n |-> seqs[i]]
      OBVIOUS
    <2> HIDE DEF seqs
    <2>2. QED
      BY <1>1, <2>1, MadeSeq
  <1> HIDE DEF seqs
  <1>5. PICK p : /\ p \in [0 .. n -> Nat]
                 /\ p[0] = o /\ p[n] = e
                 /\ \A i \in 1 .. n : Laid(img, p[i - 1], seqs[i], p[i])
    <2>1. AllSeqs(seqs, n) /\ Laid(img, o, FlattenSeq(seqs), e)
      BY <1>1, <1>2, <1>3, <1>4 DEF AllSeqs
    <2>2. LaidEach(img, o, seqs, n, e)
      BY <2>1, LaidFlat
    <2>3. QED
      BY <2>2, Zenon DEF LaidEach
  <1>6. ASSUME NEW i \in 1 .. n
        PROVE  /\ \A x : FileStep(summing, x, seq[i]) = x + (p[i] - p[i - 1])
               /\ \A q, x : FileStep(reading, [pos |-> p[i - 1], seq |-> q], x)
                             = [pos |-> p[i], seq |-> Append(q, seq[i])]
    <2>1. p[i - 1] \in Nat /\ p[i] \in Nat /\ IsString(seq[i])
      BY <1>1, <1>5 DEF n
    <2>2. Laid(img, p[i - 1], StringWrites(seq[i]), p[i])
      BY <1>3, <1>5
    <2>3. /\ p[i] = p[i - 1] + StringBytes(seq[i]) /\ StringBytes(seq[i]) \in Int
          /\ \A q : ReadString(img, [pos |-> p[i - 1], seq |-> q])
                    = [pos |-> p[i], seq |-> Append(q, seq[i])]
      BY <2>1, <2>2, StringEntry
    <2>4. StringBytes(seq[i]) = p[i] - p[i - 1]
      BY <2>1, <2>3
    <2>5. \A x : FileStep(summing, x, seq[i]) = x + StringBytes(seq[i])
      BY DEF FileStep
    <2>6. \A y, x : FileStep(reading, y, x) = ReadString(img, y)
      BY DEF FileStep
    <2>7. QED
      BY <2>3, <2>4, <2>5, <2>6, Zenon
  <1> HIDE DEF summing, reading
  <1>7. Sum(StringBytes, seq) = e - o
    <2>1. PICK h : IsTrace(h, summing, 0, seq, n) /\ Sum(StringBytes, seq) = h[n]
      BY <1>1, SumStringBytes DEF summing
    <2>2. Adds(summing, seq, n, p)
      BY <1>1, <1>5, <1>6 DEF Adds
    <2>3. IsTrace(h, summing, 0, seq, n)
      BY <2>1
    <2>4. h[n] = p[n] - p[0]
      BY <2>2, <2>3, SumRuns
    <2>5. QED
      BY <1>5, <2>1, <2>4
  <1>8. ReadTable(ReadString, img, o, n) = [pos |-> e, seq |-> seq]
    <2>1. PICK h : /\ IsTrace(h, reading, base, index, n)
                   /\ ReadTable(ReadString, img, o, n) = h[n]
      BY <1>1, TableReadString DEF reading
    <2>2. Reads(reading, seq, n, p)
      BY <1>1, <1>6 DEF Reads, n
    <2>3. ReadingTable(h, reading, index, seq, n, p)
      BY <1>5, <2>1, <2>2 DEF ReadingTable
    <2> HIDE DEF base, index
    <2>4. TableRead(h, seq, n, p)
      BY <2>3, TableRuns
    <2>5. QED
      BY <1>5, <2>1, <2>4 DEF TableRead
  <1>9. QED
    BY <1>7, <1>8 DEF n

LEMMA FuncEntry ==
  ASSUME NEW img, NEW o, NEW e, NEW f, o \in Nat, IsFunc(f), Laid(img, o, FuncWrites(f), e)
  PROVE  /\ e = o + FuncBytes(f) /\ FuncBytes(f) \in Int
         /\ \A q : ReadFunc(img, [pos |-> o, seq |-> q]) = [pos |-> e, seq |-> Append(q, f)]
  <1> DEFINE ws == FuncWrites(f)
             n  == TextLen[f.name]
  <1>1. PICK pos : LaidAt(img, o, ws, e, pos)
    BY DEF Laid
  <1>2. /\ Len(ws) = 6
        /\ ws[1] = <<4, f.id>>
        /\ ws[2] = <<8, f.func_start>>
        /\ ws[3] = <<8, n>>
        /\ ws[4] = <<1, f.num_of_args>>
        /\ ws[5] = <<2, f.num_of_vregs>>
        /\ ws[6] = Text(f.name)
    BY DEF FuncWrites
  <1>3. n \in Nat /\ IsText(f.name)
    BY DEF IsFunc, IsText
  <1> HIDE DEF ws
  <1>4. pos[0] = o /\ pos[6] = e
    BY <1>1, <1>2 DEF LaidAt
  <1>5. pos[1] = o + 4 /\ Read(img, o, 4) = f.id
    <2> HIDE DEF n
    <2>1. 1 \in 1 .. Len(ws) /\ ws[1] = <<4, f.id>>
      BY <1>2
    <2>2. pos[1] = pos[1 - 1] + 4 /\ Read(img, pos[1 - 1], 4) = f.id
      BY <1>1, <2>1, 4 \in Nat, 4 # 0, ReadBack
    <2>3. QED
      BY <1>4, <2>2
  <1>6. pos[2] = o + 12 /\ Read(img, o + 4, 8) = f.func_start
    <2> HIDE DEF n
    <2>1. 2 \in 1 .. Len(ws) /\ ws[2] = <<8, f.func_start>>
      BY <1>2
    <2>2. pos[2] = pos[2 - 1] + 8 /\ Read(img, pos[2 - 1], 8) = f.func_start
      BY <1>1, <2>1, 8 \in Nat, 8 # 0, ReadBack
    <2>3. QED
      BY <1>5, <2>2
  <1>7. pos[3] = o + 20 /\ Read(img, o + 12, 8) = n
    <2> HIDE DEF n
    <2>1. 3 \in 1 .. Len(ws) /\ ws[3] = <<8, n>>
      BY <1>2
    <2>2. pos[3] = pos[3 - 1] + 8 /\ Read(img, pos[3 - 1], 8) = n
      BY <1>1, <2>1, 8 \in Nat, 8 # 0, ReadBack
    <2>3. QED
      BY <1>6, <2>2
  <1>8. pos[4] = o + 21 /\ Read(img, o + 20, 1) = f.num_of_args
    <2> HIDE DEF n
    <2>1. 4 \in 1 .. Len(ws) /\ ws[4] = <<1, f.num_of_args>>
      BY <1>2
    <2>2. pos[4] = pos[4 - 1] + 1 /\ Read(img, pos[4 - 1], 1) = f.num_of_args
      BY <1>1, <2>1, 1 \in Nat, 1 # 0, ReadBack
    <2>3. QED
      BY <1>7, <2>2
  <1>9. pos[5] = o + 23 /\ Read(img, o + 21, 2) = f.num_of_vregs
    <2> HIDE DEF n
    <2>1. 5 \in 1 .. Len(ws) /\ ws[5] = <<2, f.num_of_vregs>>
      BY <1>2
    <2>2. pos[5] = pos[5 - 1] + 2 /\ Read(img, pos[5 - 1], 2) = f.num_of_vregs
      BY <1>1, <2>1, 2 \in Nat, 2 # 0, ReadBack
    <2>3. QED
      BY <1>8, <2>2
  <1>10. e = o + 23 + n /\ ReadText(img, o + 23, n) = f.name
    <2>1. 6 \in 1 .. Len(ws) /\ ws[6] = Text(f.name)
      BY <1>2
    <2>2. pos[6] = pos[6 - 1] + n /\ ReadText(img, pos[6 - 1], n) = f.name
      BY <1>1, <1>3, <2>1, ReadBackText
    <2> HIDE DEF n
    <2>3. QED
      BY <1>3, <1>4, <1>9, <2>2
  <1> HIDE DEF n
  <1>11. e = o + FuncBytes(f) /\ FuncBytes(f) \in Int
    BY <1>3, <1>10 DEF FuncBytes, n
  <1>12. ASSUME NEW q
         PROVE  ReadFunc(img, [pos |-> o, seq |-> q]) = [pos |-> e, seq |-> Append(q, f)]
    <2>1. f = [id |-> f.id, func_start |-> f.func_start, num_of_args |-> f.num_of_args,
             num_of_vregs |-> f.num_of_vregs, name |-> f.name]
      BY DEF IsFunc
    <2>2. QED
      BY <1>5, <1>6, <1>7, <1>8, <1>9, <1>10, <2>1 DEF ReadFunc
  <1>13. QED
    BY <1>11, <1>12

LEMMA FuncWritesWrites ==
  ASSUME NEW f, IsFunc(f)
  PROVE  IsWrites(FuncWrites(f))
  <1> DEFINE ws == FuncWrites(f)
  <1>1. ws = [k \in 1 .. 6 |-> ws[k]] /\ \A k \in 1 .. 6 : ws[k][1] \in Nat
    BY DEF FuncWrites, Text, IsFunc, IsText
  <1> HIDE DEF ws
  <1>2. IsSeq(ws) /\ Len(ws) = 6
    BY <1>1, 6 \in Nat, MadeSeq
  <1>3. IsWrites(ws)
    BY <1>1, <1>2 DEF IsWrites
  <1>4. QED
    BY <1>3 DEF ws

LEMMA FuncTable ==
  ASSUME NEW img, NEW o \in Nat, NEW e \in Nat, NEW seq, IsSeq(seq),
         \A i \in 1 .. Len(seq) : IsFunc(seq[i]),
         Laid(img, o, Each(FuncWrites, seq), e)
  PROVE  /\ e = o + Sum(FuncBytes, seq) /\ Sum(FuncBytes, seq) \in Int
         /\ ReadTable(ReadFunc, img, o, Len(seq)) = [pos |-> e, seq |-> seq]
  <1> DEFINE n    == Len(seq)
             seqs == [i \in 1 .. n |-> FuncWrites(seq[i])]
             base == [pos |-> o, seq |-> <<>>]
             index == [i \in 1 .. n |-> i]
             reading == <<"ReadFunc", img>>
             summing == <<"FuncBytes", 0>>
  <1>1. n \in Nat /\ DOMAIN seq = 1 .. n
    BY SeqFacts
  <1>2. Each(FuncWrites, seq) = FlattenSeq(seqs)
    BY <1>1 DEF Each
  <1>3. \A i \in 1 .. n : seqs[i] = FuncWrites(seq[i]) /\ IsSeq(seqs[i])
    BY FuncWritesWrites DEF IsWrites
  <1> HIDE DEF n
  <1>4. IsSeq(seqs) /\ Len(seqs) = n
    <2>1. seqs = [i \in 1 .. n |-> seqs[i]]
      OBVIOUS
    <2> HIDE DEF seqs
    <2>2. QED
      BY <1>1, <2>1, MadeSeq
  <1> HIDE DEF seqs
  <1>5. PICK p : /\ p \in [0 .. n -> Nat]
                 /\ p[0] = o /\ p[n] = e
                 /\ \A i \in 1 .. n : Laid(img, p[i - 1], seqs[i], p[i])
    <2>1. AllSeqs(seqs, n) /\ Laid(img, o, FlattenSeq(seqs), e)
      BY <1>1, <1>2, <1>3, <1>4 DEF AllSeqs
    <2>2. LaidEach(img, o, seqs, n, e)
      BY <2>1, LaidFlat
    <2>3. QED
      BY <2>2, Zenon DEF LaidEach
  <1>6. ASSUME NEW i \in 1 .. n
        PROVE  /\ \A x : FileStep(summing, x, seq[i]) = x + (p[i] - p[i - 1])
               /\ \A q, x : FileStep(reading, [pos |-> p[i - 1], seq |-> q], x)
                             = [pos |-> p[i], seq |-> Append(q, seq[i])]
    <2>1. p[i - 1] \in Nat /\ p[i] \in Nat /\ IsFunc(seq[i])
      BY <1>1, <1>5 DEF n
    <2>2. Laid(img, p[i - 1], FuncWrites(seq[i]), p[i])
      BY <1>3, <1>5
    <2>3. /\ p[i] = p[i - 1] + FuncBytes(seq[i]) /\ FuncBytes(seq[i]) \in Int
          /\ \A q : ReadFunc(img, [pos |-> p[i - 1], seq |-> q])
                    = [pos |-> p[i], seq |-> Append(q, seq[i])]
      BY <2>1, <2>2, FuncEntry
    <2>4. FuncBytes(seq[i]) = p[i] - p[i - 1]
      BY <2>1, <2>3
    <2>5. \A x : FileStep(summing, x, seq[i]) = x + FuncBytes(seq[i])
      BY DEF FileStep
    <2>6. \A y, x : FileStep(reading, y, x) = ReadFunc(img, y)
      BY DEF FileStep
    <2>7. QED
      BY <2>3, <2>4, <2>5, <2>6, Zenon
  <1> HIDE DEF summing, reading
  <1>7. Sum(FuncBytes, seq) = e - o
    <2>1. PICK h : IsTrace(h, summing, 0, seq, n) /\ Sum(FuncBytes, seq) = h[n]
      BY <1>1, SumFuncBytes DEF summing
    <2>2. Adds(summing, seq, n, p)
      BY <1>1, <1>5, <1>6 DEF Adds
    <2>3. IsTrace(h, summing, 0, seq, n)
      BY <2>1
    <2>4. h[n] = p[n] - p[0]
      BY <2>2, <2>3, SumRuns
    <2>5. QED
      BY <1>5, <2>1, <2>4
  <1>8. ReadTable(ReadFunc, img, o, n) = [pos |-> e, seq |-> seq]
    <2>1. PICK h : /\ IsTrace(h, reading, base, index, n)
                   /\ ReadTable(ReadFunc, img, o, n) = h[n]
      BY <1>1, TableReadFunc DEF reading
    <2>2. Reads(reading, seq, n, p)
      BY <1>1, <1>6 DEF Reads, n
    <2>3. ReadingTable(h, reading, index, seq, n, p)
      BY <1>5, <2>1, <2>2 DEF ReadingTable
    <2> HIDE DEF base, index
    <2>4. TableRead(h, seq, n, p)
      BY <2>3, TableRuns
    <2>5. QED
      BY <1>5, <2>1, <2>4 DEF TableRead
  <1>9. QED
    BY <1>7, <1>8 DEF n

LEMMA FieldEntry ==
  ASSUME NEW img, NEW o, NEW e, NEW f, o \in Nat, IsField(f), Laid(img, o, FieldWrites(f), e)
  PROVE  /\ e = o + FieldBytes(f) /\ FieldBytes(f) \in Int
         /\ \A q : ReadField(img, [pos |-> o, seq |-> q]) = [pos |-> e, seq |-> Append(q, f)]
  <1> DEFINE ws == FieldWrites(f)
             n  == TextLen[f.name]
  <1>1. PICK pos : LaidAt(img, o, ws, e, pos)
    BY DEF Laid
  <1>2. /\ Len(ws) = 6
        /\ ws[1] = <<4, f.id>>
        /\ ws[2] = <<1, f.is_ref>>
        /\ ws[3] = <<8, f.size>>
        /\ ws[4] = <<8, f.offset>>
        /\ ws[5] = <<8, n>>
        /\ ws[6] = Text(f.name)
    BY DEF FieldWrites
  <1>3. n \in Nat /\ IsText(f.name)
    BY DEF IsField, IsText
  <1> HIDE DEF ws
  <1>4. pos[0] = o /\ pos[6] = e
    BY <1>1, <1>2 DEF LaidAt
  <1>5. pos[1] = o + 4 /\ Read(img, o, 4) = f.id
    <2> HIDE DEF n
    <2>1. 1 \in 1 .. Len(ws) /\ ws[1] = <<4, f.id>>
      BY <1>2
    <2>2. pos[1] = pos[1 - 1] + 4 /\ Read(img, pos[1 - 1], 4) = f.id
      BY <1>1, <2>1, 4 \in Nat, 4 # 0, ReadBack
    <2>3. QED
      BY <1>4, <2>2
  <1>6. pos[2] = o + 5 /\ Read(img, o + 4, 1) = f.is_ref
    <2> HIDE DEF n
    <2>1. 2 \in 1 .. Len(ws) /\ ws[2] = <<1, f.is_ref>>
      BY <1>2
    <2>2. pos[2] = pos[2 - 1] + 1 /\ Read(img, pos[2 - 1], 1) = f.is_ref
      BY <1>1, <2>1, 1 \in Nat, 1 # 0, ReadBack
    <2>3. QED
      BY <1>5, <2>2
  <1>7. pos[3] = o + 13 /\ Read(img, o + 5, 8) = f.size
    <2> HIDE DEF n
    <2>1. 3 \in 1 .. Len(ws) /\ ws[3] = <<8, f.size>>
      BY <1>2
    <2>2. pos[3] = pos[3 - 1] + 8 /\ Read(img, pos[3 - 1], 8) = f.size
      BY <1>1, <2>1, 8 \in Nat, 8 # 0, ReadBack
    <2>3. QED
      BY <1>6, <2>2
  <1>8. pos[4] = o + 21 /\ Read(img, o + 13, 8) = f.offset
    <2> HIDE DEF n
    <2>1. 4 \in 1 .. Len(ws) /\ ws[4] = <<8, f.offset>>
      BY <1>2
    <2>2. pos[4] = pos[4 - 1] + 8 /\ Read(img, pos[4 - 1], 8) = f.offset
      BY <1>1, <2>1, 8 \in Nat, 8 # 0, ReadBack
    <2>3. QED
      BY <1>7, <2>2
  <1>9. pos[5] = o + 29 /\ Read(img, o + 21, 8) = n
    <2> HIDE DEF n
    <2>1. 5 \in 1 .. Len(ws) /\ ws[5] = <<8, n>>
      BY <1>2
    <2>2. pos[5] = pos[5 - 1] + 8 /\ Read(img, pos[5 - 1], 8) = n
      BY <1>1, <2>1, 8 \in Nat, 8 # 0, ReadBack
    <2>3. QED
      BY <1>8, <2>2
  <1>10. e = o + 29 + n /\ ReadText(img, o + 29, n) = f.name
    <2>1. 6 \in 1 .. Len(ws) /\ ws[6] = Text(f.name)
      BY <1>2
    <2>2. pos[6] = pos[6 - 1] + n /\ ReadText(img, pos[6 - 1], n) = f.name
      BY <1>1, <1>3, <2>1, ReadBackText
    <2> HIDE DEF n
    <2>3. QED
      BY <1>3, <1>4, <1>9, <2>2
  <1> HIDE DEF n
  <1>11. e = o + FieldBytes(f) /\ FieldBytes(f) \in Int
    BY <1>3, <1>10 DEF FieldBytes, n
  <1>12. ASSUME NEW q
         PROVE  ReadField(img, [pos |-> o, seq |-> q]) = [pos |-> e, seq |-> Append(q, f)]
    <2>1. f = [id |-> f.id, is_ref |-> f.is_ref, size |-> f.size, offset |-> f.offset,
             name |-> f.name]
      BY DEF IsField
    <2>2. QED
      BY <1>5, <1>6, <1>7, <1>8, <1>9, <1>10, <2>1 DEF ReadField
  <1>13. QED
    BY <1>11, <1>12

LEMMA FieldWritesWrites ==
  ASSUME NEW f, IsField(f)
  PROVE  IsWrites(FieldWrites(f))
  <1> DEFINE ws == FieldWrites(f)
  <1>1. ws = [k \in 1 .. 6 |-> ws[k]] /\ \A k \in 1 .. 6 : ws[k][1] \in Nat
    BY DEF FieldWrites, Text, IsField, IsText
  <1> HIDE DEF ws
  <1>2. IsSeq(ws) /\ Len(ws) = 6
    BY <1>1, 6 \in Nat, MadeSeq
  <1>3. IsWrites(ws)
    BY <1>1, <1>2 DEF IsWrites
  <1>4. QED
    BY <1>3 DEF ws

LEMMA FieldTable ==
  ASSUME NEW img, NEW o \in Nat, NEW e \in Nat, NEW seq, IsSeq(seq),
         \A i \in 1 .. Len(seq) : IsField(seq[i]),
         Laid(img, o, Each(FieldWrites, seq), e)
  PROVE  /\ e = o + Sum(FieldBytes, seq) /\ Sum(FieldBytes, seq) \in Int
         /\ ReadTable(ReadField, img, o, Len(seq)) = [pos |-> e, seq |-> seq]
  <1> DEFINE n    == Len(seq)
             seqs == [i \in 1 .. n |-> FieldWrites(seq[i])]
             base == [pos |-> o, seq |-> <<>>]
             index == [i \in 1 .. n |-> i]
             reading == <<"ReadField", img>>
             summing == <<"FieldBytes", 0>>
  <1>1. n \in Nat /\ DOMAIN seq = 1 .. n
    BY SeqFacts
  <1>2. Each(FieldWrites, seq) = FlattenSeq(seqs)
    BY <1>1 DEF Each
  <1>3. \A i \in 1 .. n : seqs[i] = FieldWrites(seq[i]) /\ IsSeq(seqs[i])
    BY FieldWritesWrites DEF IsWrites
  <1> HIDE DEF n
  <1>4. IsSeq(seqs) /\ Len(seqs) = n
    <2>1. seqs = [i \in 1 .. n |-> seqs[i]]
      OBVIOUS
    <2> HIDE DEF seqs
    <2>2. QED
      BY <1>1, <2>1, MadeSeq
  <1> HIDE DEF seqs
  <1>5. PICK p : /\ p \in [0 .. n -> Nat]
                 /\ p[0] = o /\ p[n] = e
                 /\ \A i \in 1 .. n : Laid(img, p[i - 1], seqs[i], p[i])
    <2>1. AllSeqs(seqs, n) /\ Laid(img, o, FlattenSeq(seqs), e)
      BY <1>1, <1>2, <1>3, <1>4 DEF AllSeqs
    <2>2. LaidEach(img, o, seqs, n, e)
      BY <2>1, LaidFlat
    <2>3. QED
      BY <2>2, Zenon DEF LaidEach
  <1>6. ASSUME NEW i \in 1 .. n
        PROVE  /\ \A x : FileStep(summing, x, seq[i]) = x + (p[i] - p[i - 1])
               /\ \A q, x : FileStep(reading, [pos |-> p[i - 1], seq |-> q], x)
                             = [pos |-> p[i], seq |-> Append(q, seq[i])]
    <2>1. p[i - 1] \in Nat /\ p[i] \in Nat /\ IsField(seq[i])
      BY <1>1, <1>5 DEF n
    <2>2. Laid(img, p[i - 1], FieldWrites(seq[i]), p[i])
      BY <1>3, <1>5
    <2>3. /\ p[i] = p[i - 1] + FieldBytes(seq[i]) /\ FieldBytes(seq[i]) \in Int
          /\ \A q : ReadField(img, [pos |-> p[i - 1], seq |-> q])
                    = [pos |-> p[i], seq |-> Append(q, seq[i])]
      BY <2>1, <2>2, FieldEntry
    <2>4. FieldBytes(seq[i]) = p[i] - p[i - 1]
      BY <2>1, <2>3
    <2>5. \A x : FileStep(summing, x, seq[i]) = x + FieldBytes(seq[i])
      BY DEF FileStep
    <2>6. \A y, x : FileStep(reading, y, x) = ReadField(img, y)
      BY DEF FileStep
    <2>7. QED
      BY <2>3, <2>4, <2>5, <2>6, Zenon
  <1> HIDE DEF summing, reading
  <1>7. Sum(FieldBytes, seq) = e - o
    <2>1. PICK h : IsTrace(h, summing, 0, seq, n) /\ Sum(FieldBytes, seq) = h[n]
      BY <1>1, SumFieldBytes DEF summing
    <2>2. Adds(summing, seq, n, p)
      BY <1>1, <1>5, <1>6 DEF Adds
    <2>3. IsTrace(h, summing, 0, seq, n)
      BY <2>1
    <2>4. h[n] = p[n] - p[0]
      BY <2>2, <2>3, SumRuns
    <2>5. QED
      BY <1>5, <2>1, <2>4
  <1>8. ReadTable(ReadField, img, o, n) = [pos |-> e, seq |-> seq]
    <2>1. PICK h : /\ IsTrace(h, reading, base, index, n)
                   /\ ReadTable(ReadField, img, o, n) = h[n]
      BY <1>1, TableReadField DEF reading
    <2>2. Reads(reading, seq, n, p)
      BY <1>1, <1>6 DEF Reads, n
    <2>3. ReadingTable(h, reading, index, seq, n, p)
      BY <1>5, <2>1, <2>2 DEF ReadingTable
    <2> HIDE DEF base, index
    <2>4. TableRead(h, seq, n, p)
      BY <2>3, TableRuns
    <2>5. QED
      BY <1>5, <2>1, <2>4 DEF TableRead
  <1>9. QED
    BY <1>7, <1>8 DEF n

LEMMA FieldsWrites ==
  ASSUME NEW seq, IsSeq(seq), \A i \in 1 .. Len(seq) : IsField(seq[i])
  PROVE  IsWrites(Each(FieldWrites, seq))
  <1> DEFINE n    == Len(seq)
             seqs == [i \in 1 .. n |-> FieldWrites(seq[i])]
  <1>1. n \in Nat /\ DOMAIN seq = 1 .. n
    BY SeqFacts
  <1>2. Each(FieldWrites, seq) = FlattenSeq(seqs)
    BY <1>1 DEF Each
  <1>3. \A i \in 1 .. n : IsWrites(seqs[i])
    BY FieldWritesWrites
  <1> HIDE DEF n
  <1>4. IsSeq(seqs) /\ Len(seqs) = n
    <2>1. seqs = [i \in 1 .. n |-> seqs[i]]
      OBVIOUS
    <2> HIDE DEF seqs
    <2>2. QED
      BY <1>1, <2>1, MadeSeq
  <1> HIDE DEF seqs
  <1>5. IsWrites(FlattenSeq(seqs))
    BY <1>1, <1>3, <1>4, FlattenWrites
  <1>6. QED
    BY <1>2, <1>5

LEMMA ClassEntry ==
  ASSUME NEW img, NEW o, NEW e, NEW f, o \in Nat, e \in Nat, IsClass(f),
         Laid(img, o, ClassWrites(f), e)
  PROVE  /\ e = o + ClassBytes(f) /\ ClassBytes(f) \in Int
         /\ \A q : ReadClass(img, [pos |-> o, seq |-> q]) = [pos |-> e, seq |-> Append(q, f)]
  <1> DEFINE head == << <<4, f.id>>, <<8, f.size>>, <<8, TextLen[f.name]>>, Text(f.name),
                        <<4, Len(f.fields)>> >>
             rest == Each(FieldWrites, f.fields)
             n    == TextLen[f.name]
  <1>1. PICK m : m \in Nat /\ Laid(img, o, head, m) /\ Laid(img, m, rest, e)
    <2>1. ClassWrites(f) = head \o rest
      BY DEF ClassWrites, Each
    <2>2. IsSeq(head)
      <3>1. head = [k \in 1 .. 5 |-> head[k]]
        OBVIOUS
      <3> HIDE DEF head
      <3>2. QED
        BY <3>1, 5 \in Nat, MadeSeq
    <2>3. IsSeq(rest)
      BY FieldsWrites DEF IsClass, IsWrites
    <2> HIDE DEF head, rest
    <2>4. QED
      BY <2>1, <2>2, <2>3, LaidParts
  <1>2. PICK pos : LaidAt(img, o, head, m, pos)
    BY <1>1 DEF Laid
  <1>3. /\ Len(head) = 5
        /\ head[1] = <<4, f.id>>
        /\ head[2] = <<8, f.size>>
        /\ head[3] = <<8, n>>
        /\ head[4] = Text(f.name)
        /\ head[5] = <<4, Len(f.fields)>>
    OBVIOUS
  <1>4. n \in Nat /\ IsText(f.name) /\ Len(f.fields) \in Nat
    BY SeqFacts DEF IsClass, IsText
  <1> HIDE DEF head
  <1>5. pos[0] = o /\ pos[5] = m
    BY <1>2, <1>3 DEF LaidAt
  <1>6. pos[1] = o + 4 /\ Read(img, o, 4) = f.id
    <2> HIDE DEF n
    <2>1. 1 \in 1 .. Len(head) /\ head[1] = <<4, f.id>>
      BY <1>3
    <2>2. pos[1] = pos[1 - 1] + 4 /\ Read(img, pos[1 - 1], 4) = f.id
      BY <1>2, <2>1, 4 \in Nat, 4 # 0, ReadBack
    <2>3. QED
      BY <1>4, <1>5, <1>5, <2>2
  <1>7. pos[2] = o + 12 /\ Read(img, o + 4, 8) = f.size
    <2> HIDE DEF n
    <2>1. 2 \in 1 .. Len(head) /\ head[2] = <<8, f.size>>
      BY <1>3
    <2>2. pos[2] = pos[2 - 1] + 8 /\ Read(img, pos[2 - 1], 8) = f.size
      BY <1>2, <2>1, 8 \in Nat, 8 # 0, ReadBack
    <2>3. QED
      BY <1>4, <1>5, <1>6, <2>2
  <1>8. pos[3] = o + 20 /\ Read(img, o + 12, 8) = n
    <2> HIDE DEF n
    <2>1. 3 \in 1 .. Len(head) /\ head[3] = <<8, n>>
      BY <1>3
    <2>2. pos[3] = pos[3 - 1] + 8 /\ Read(img, pos[3 - 1], 8) = n
      BY <1>2, <2>1, 8 \in Nat, 8 # 0, ReadBack
    <2>3. QED
      BY <1>4, <1>5, <1>7, <2>2
  <1>9. pos[4] = o + 20 + n /\ ReadText(img, o + 20, n) = f.name
    <2>1. 4 \in 1 .. Len(head) /\ head[4] = Text(f.name)
      BY <1>3
    <2>2. pos[4] = pos[4 - 1] + n /\ ReadText(img, pos[4 - 1], n) = f.name
      BY <1>2, <1>4, <2>1, ReadBackText
    <2> HIDE DEF n
    <2>3. QED
      BY <1>4, <1>5, <1>8, <2>2
  <1>10. m = o + 24 + n /\ Read(img, o + 20 + n, 4) = Len(f.fields)
    <2> HIDE DEF n
    <2>1. 5 \in 1 .. Len(head) /\ head[5] = <<4, Len(f.fields)>>
      BY <1>3
    <2>2. pos[5] = pos[5 - 1] + 4 /\ Read(img, pos[5 - 1], 4) = Len(f.fields)
      BY <1>2, <2>1, 4 \in Nat, 4 # 0, ReadBack
    <2>3. QED
      BY <1>4, <1>5, <1>9, <2>2
  <1>11. /\ e = m + Sum(FieldBytes, f.fields) /\ Sum(FieldBytes, f.fields) \in Int
         /\ ReadTable(ReadField, img, m, Len(f.fields)) = [pos |-> e, seq |-> f.fields]
    BY <1>1, FieldTable DEF IsClass
  <1>12. e = o + ClassBytes(f) /\ ClassBytes(f) \in Int
    <2> DEFINE t == Sum(FieldBytes, f.fields)
    <2>1. ClassBytes(f) = 4 + 8 + 8 + n + 4 + t
      BY DEF ClassBytes
    <2>2. t \in Int /\ e = m + t
      BY <1>11
    <2> HIDE DEF n, t
    <2>3. QED
      BY <1>4, <1>10, <2>1, <2>2
  <1> HIDE DEF n
  <1>13. ASSUME NEW q
         PROVE  ReadClass(img, [pos |-> o, seq |-> q]) = [pos |-> e, seq |-> Append(q, f)]
    <2> DEFINE fields == ReadTable(ReadField, img, o + 24 + n, Len(f.fields))
    <2>1. f = [id |-> f.id, size |-> f.size, name |-> f.name, fields |-> f.fields]
      BY DEF IsClass
    <2>2. fields = [pos |-> e, seq |-> f.fields]
      BY <1>10, <1>11
    <2> HIDE DEF fields
    <2>3. ReadClass(img, [pos |-> o, seq |-> q])
            = [ pos |-> fields.pos,
                seq |-> Append(q, [ id |-> f.id, size |-> f.size, name |-> f.name,
                                    fields |-> fields.seq ]) ]
      BY <1>6, <1>7, <1>8, <1>9, <1>10 DEF ReadClass, fields
    <2>4. QED
      BY <2>1, <2>2, <2>3
  <1>14. QED
    BY <1>12, <1>13

LEMMA ClassWritesWrites ==
  ASSUME NEW f, IsClass(f)
  PROVE  IsWrites(ClassWrites(f))
  <1> DEFINE head == << <<4, f.id>>, <<8, f.size>>, <<8, TextLen[f.name]>>, Text(f.name),
                        <<4, Len(f.fields)>> >>
             rest == Each(FieldWrites, f.fields)
  <1>1. ClassWrites(f) = head \o rest
    BY DEF ClassWrites, Each
  <1>2. IsWrites(head)
    <2>1. head = [k \in 1 .. 5 |-> head[k]] /\ \A k \in 1 .. 5 : head[k][1] \in Nat
      BY DEF Text, IsClass, IsText
    <2> HIDE DEF head
    <2>2. IsSeq(head) /\ Len(head) = 5
      BY <2>1, 5 \in Nat, MadeSeq
    <2>3. QED
      BY <2>1, <2>2 DEF IsWrites
  <1>3. IsWrites(rest)
    BY FieldsWrites DEF IsClass
  <1> HIDE DEF head, rest
  <1>4. QED
    BY <1>1, <1>2, <1>3, ConcatWrites

LEMMA ClassTable ==
  ASSUME NEW img, NEW o \in Nat, NEW e \in Nat, NEW seq, IsSeq(seq),
         \A i \in 1 .. Len(seq) : IsClass(seq[i]),
         Laid(img, o, Each(ClassWrites, seq), e)
  PROVE  /\ e = o + Sum(ClassBytes, seq) /\ Sum(ClassBytes, seq) \in Int
         /\ ReadTable(ReadClass, img, o, Len(seq)) = [pos |-> e, seq |-> seq]
  <1> DEFINE n    == Len(seq)
             seqs == [i \in 1 .. n |-> ClassWrites(seq[i])]
             base == [pos |-> o, seq |-> <<>>]
             index == [i \in 1 .. n |-> i]
             reading == <<"ReadClass", img>>
             summing == <<"ClassBytes", 0>>
  <1>1. n \in Nat /\ DOMAIN seq = 1 .. n
    BY SeqFacts
  <1>2. Each(ClassWrites, seq) = FlattenSeq(seqs)
    BY <1>1 DEF Each
  <1>3. \A i \in 1 .. n : seqs[i] = ClassWrites(seq[i]) /\ IsSeq(seqs[i])
    BY ClassWritesWrites DEF IsWrites
  <1> HIDE DEF n
  <1>4. IsSeq(seqs) /\ Len(seqs) = n
    <2>1. seqs = [i \in 1 .. n |-> seqs[i]]
      OBVIOUS
    <2> HIDE DEF seqs
    <2>2. QED
      BY <1>1, <2>1, MadeSeq
  <1> HIDE DEF seqs
  <1>5. PICK p : /\ p \in [0 .. n -> Nat]
                 /\ p[0] = o /\ p[n] = e
                 /\ \A i \in 1 .. n : Laid(img, p[i - 1], seqs[i], p[i])
    <2>1. AllSeqs(seqs, n) /\ Laid(img, o, FlattenSeq(seqs), e)
      BY <1>1, <1>2, <1>3, <1>4 DEF AllSeqs
    <2>2. LaidEach(img, o, seqs, n, e)
      BY <2>1, LaidFlat
    <2>3. QED
      BY <2>2, Zenon DEF LaidEach
  <1>6. ASSUME NEW i \in 1 .. n
        PROVE  /\ \A x : FileStep(summing, x, seq[i]) = x + (p[i] - p[i - 1])
               /\ \A q, x : FileStep(reading, [pos |-> p[i - 1], seq |-> q], x)
                             = [pos |-> p[i], seq |-> Append(q, seq[i])]
    <2>1. p[i - 1] \in Nat /\ p[i] \in Nat /\ IsClass(seq[i])
      BY <1>1, <1>5 DEF n
    <2>2. Laid(img, p[i - 1], ClassWrites(seq[i]), p[i])
      BY <1>3, <1>5
    <2>3. /\ p[i] = p[i - 1] + ClassBytes(seq[i]) /\ ClassBytes(seq[i]) \in Int
          /\ \A q : ReadClass(img, [pos |-> p[i - 1], seq |-> q])
                    = [pos |-> p[i], seq |-> Append(q, seq[i])]
      BY <2>1, <2>2, ClassEntry
    <2>4. ClassBytes(seq[i]) = p[i] - p[i - 1]
      BY <2>1, <2>3
    <2>5. \A x : FileStep(summing, x, seq[i]) = x + ClassBytes(seq[i])
      BY DEF FileStep
    <2>6. \A y, x : FileStep(reading, y, x) = ReadClass(img, y)
      BY DEF FileStep
    <2>7. QED
      BY <2>3, <2>4, <2>5, <2>6, Zenon
  <1> HIDE DEF summing, reading
  <1>7. Sum(ClassBytes, seq) = e - o
    <2>1. PICK h : IsTrace(h, summing, 0, seq, n) /\ Sum(ClassBytes, seq) = h[n]
      BY <1>1, SumClassBytes DEF summing
    <2>2. Adds(summing, seq, n, p)
      BY <1>1, <1>5, <1>6 DEF Adds
    <2>3. IsTrace(h, summing, 0, seq, n)
      BY <2>1
    <2>4. h[n] = p[n] - p[0]
      BY <2>2, <2>3, SumRuns
    <2>5. QED
      BY <1>5, <2>1, <2>4
  <1>8. ReadTable(ReadClass, img, o, n) = [pos |-> e, seq |-> seq]
    <2>1. PICK h : /\ IsTrace(h, reading, base, index, n)
                   /\ ReadTable(ReadClass, img, o, n) = h[n]
      BY <1>1, TableReadClass DEF reading
    <2>2. Reads(reading, seq, n, p)
      BY <1>1, <1>6 DEF Reads, n
    <2>3. ReadingTable(h, reading, index, seq, n, p)
      BY <1>5, <2>1, <2>2 DEF ReadingTable
    <2> HIDE DEF base, index
    <2>4. TableRead(h, seq, n, p)
      BY <2>3, TableRuns
    <2>5. QED
      BY <1>5, <2>1, <2>4 DEF TableRead
  <1>9. QED
    BY <1>7, <1>8 DEF n

LEMMA StringsWrites ==
  ASSUME NEW seq, IsSeq(seq), \A i \in 1 .. Len(seq) : IsString(seq[i])
  PROVE  IsWrites(Each(StringWrites, seq))
  <1> DEFINE n    == Len(seq)
             seqs == [i \in 1 .. n |-> StringWrites(seq[i])]
  <1>1. n \in Nat /\ DOMAIN seq = 1 .. n
    BY SeqFacts
  <1>2. Each(StringWrites, seq) = FlattenSeq(seqs)
    BY <1>1 DEF Each
  <1>3. \A i \in 1 .. n : IsWrites(seqs[i])
    BY StringWritesWrites
  <1> HIDE DEF n
  <1>4. IsSeq(seqs) /\ Len(seqs) = n
    <2>1. seqs = [i \in 1 .. n |-> seqs[i]]
      OBVIOUS
    <2> HIDE DEF seqs
    <2>2. QED
      BY <1>1, <2>1, MadeSeq
  <1> HIDE DEF seqs
  <1>5. IsWrites(FlattenSeq(seqs))
    BY <1>1, <1>3, <1>4, FlattenWrites
  <1>6. QED
    BY <1>2, <1>5

LEMMA FuncsWrites ==
  ASSUME NEW seq, IsSeq(seq), \A i \in 1 .. Len(seq) : IsFunc(seq[i])
  PROVE  IsWrites(Each(FuncWrites, seq))
  <1> DEFINE n    == Len(seq)
             seqs == [i \in 1 .. n |-> FuncWrites(seq[i])]
  <1>1. n \in Nat /\ DOMAIN seq = 1 .. n
    BY SeqFacts
  <1>2. Each(FuncWrites, seq) = FlattenSeq(seqs)
    BY <1>1 DEF Each
  <1>3. \A i \in 1 .. n : IsWrites(seqs[i])
    BY FuncWritesWrites
  <1> HIDE DEF n
  <1>4. IsSeq(seqs) /\ Len(seqs) = n
    <2>1. seqs = [i \in 1 .. n |-> seqs[i]]
      OBVIOUS
    <2> HIDE DEF seqs
    <2>2. QED
      BY <1>1, <2>1, MadeSeq
  <1> HIDE DEF seqs
  <1>5. IsWrites(FlattenSeq(seqs))
    BY <1>1, <1>3, <1>4, FlattenWrites
  <1>6. QED
    BY <1>2, <1>5

LEMMA ClassesWrites ==
  ASSUME NEW seq, IsSeq(seq), \A i \in 1 .. Len(seq) : IsClass(seq[i])
  PROVE  IsWrites(Each(ClassWrites, seq))
  <1> DEFINE n    == Len(seq)
             seqs == [i \in 1 .. n |-> ClassWrites(seq[i])]
  <1>1. n \in Nat /\ DOMAIN seq = 1 .. n
    BY SeqFacts
  <1>2. Each(ClassWrites, seq) = FlattenSeq(seqs)
    BY <1>1 DEF Each
  <1>3. \A i \in 1 .. n : IsWrites(seqs[i])
    BY ClassWritesWrites
  <1> HIDE DEF n
  <1>4. IsSeq(seqs) /\ Len(seqs) = n
    <2>1. seqs = [i \in 1 .. n |-> seqs[i]]
      OBVIOUS
    <2> HIDE DEF seqs
    <2>2. QED
      BY <1>1, <2>1, MadeSeq
  <1> HIDE DEF seqs
  <1>5. IsWrites(FlattenSeq(seqs))
    BY <1>1, <1>3, <1>4, FlattenWrites
  <1>6. QED
    BY <1>2, <1>5

-----------------------------------------------------------------------------
(***************************************************************************)
(* The whole file.                                                         *)
(***************************************************************************)
\* The tables of a program: entries of the kinds above, and no bytes of code
\* only when there is no instruction.
WellFormed(file) ==
  /\ file = [ Classes |-> file.Classes, Code |-> file.Code, Strings |-> file.Strings,
              Functions |-> file.Functions ]
  /\ IsSeq(file.Classes)   /\ \A i \in 1 .. Len(file.Classes)   : IsClass(file.Classes[i])
  /\ IsSeq(file.Strings)   /\ \A i \in 1 .. Len(file.Strings)   : IsString(file.Strings[i])
  /\ IsSeq(file.Functions) /\ \A i \in 1 .. Len(file.Functions) : IsFunc(file.Functions[i])
  /\ file.Code.size \in Nat /\ (file.Code.size = 0 => file.Code = NoCode)

LEMMA HeadersFilled ==
  ASSUME NEW file
  PROVE  LET h == fillHeaders(file)
         IN  /\ h.CLASSES.offset = 104
             /\ h.CODE.offset = 104 + Sum(ClassBytes, file.Classes)
             /\ h.CODE.size = file.Code.size
             /\ h.LITERALS.offset = 104 + file.Code.size + Sum(ClassBytes, file.Classes)
             /\ h.FUNCTIONS.offset = 104 + file.Code.size + Sum(StringBytes, file.Strings)
                                     + Sum(ClassBytes, file.Classes)
  <1> DEFINE c == Sum(ClassBytes, file.Classes)
             s == Sum(StringBytes, file.Strings)
             k == file.Code.size
             h1 == fillClassesHeader(NoHeaders, file)
             h2 == fillCodeHeader(h1, file)
             h3 == fillStringsHeader(h2, file)
             h4 == fillFunctionsHeader(h3, file)
  <1>1. FileHeaderSize + EntityHeaders = 104
    BY DEF FileHeaderSize, EntityHeaders, EntityHeaderSize
  <1>2. /\ DOMAIN h1 = {"CODE", "LITERALS", "FUNCTIONS", "CLASSES"}
        /\ h1.CLASSES = [offset |-> 104, size |-> c]
    BY <1>1 DEF fillClassesHeader, NoHeaders
  <1> HIDE DEF h1
  <1>3. /\ DOMAIN h2 = {"CODE", "LITERALS", "FUNCTIONS", "CLASSES"}
        /\ h2.CLASSES = [offset |-> 104, size |-> c]
        /\ h2.CODE = [offset |-> 104 + c, size |-> k]
    BY <1>1, <1>2 DEF fillCodeHeader
  <1> HIDE DEF h2
  <1>4. /\ DOMAIN h3 = {"CODE", "LITERALS", "FUNCTIONS", "CLASSES"}
        /\ h3.CLASSES = [offset |-> 104, size |-> c]
        /\ h3.CODE = [offset |-> 104 + c, size |-> k]
        /\ h3.LITERALS = [offset |-> 104 + k + c, size |-> s]
    BY <1>1, <1>3 DEF fillStringsHeader
  <1> HIDE DEF h3
  <1>5. /\ h4.CLASSES = [offset |-> 104, size |-> c]
        /\ h4.CODE = [offset |-> 104 + c, size |-> k]
        /\ h4.LITERALS = [offset |-> 104 + k + c, size |-> s]
        /\ h4.FUNCTIONS.offset = 104 + k + s + c
    BY <1>1, <1>4 DEF fillFunctionsHeader
  <1>6. fillHeaders(file) = h4
    BY DEF fillHeaders, h1, h2, h3
  <1> HIDE DEF h4, c, s, k
  <1>7. QED
    BY <1>5, <1>6 DEF c, s, k

\* Where the parts of the file lie.
LEMMA FileLaid ==
  ASSUME NEW file, WellFormed(file), NEW img, img = serialize(file)
  PROVE  \E c, k, s, e \in Nat :
           /\ Laid(img, 0, HeaderWrites(file), 104)
           /\ Laid(img, 104, Each(ClassWrites, file.Classes), c)
           /\ Laid(img, c, << <<file.Code.size, file.Code>> >>, k)
           /\ Laid(img, k, Each(StringWrites, file.Strings), s)
           /\ Laid(img, s, Each(FuncWrites, file.Functions), e)
           /\ \A o \in DOMAIN img : img[o][1] # 0
  <1> DEFINE head == HeaderWrites(file)
             classes == Each(ClassWrites, file.Classes)
             code == << <<file.Code.size, file.Code>> >>
             strings == Each(StringWrites, file.Strings)
             functions == Each(FuncWrites, file.Functions)
             ws == head \o classes \o code \o strings \o functions
  <1>1. IsWrites(classes) /\ IsWrites(strings) /\ IsWrites(functions)
    BY ClassesWrites, StringsWrites, FuncsWrites DEF WellFormed
  <1>2. IsWrites(head) /\ Len(head) = 4
    <2>1. head = [i \in 1 .. 4 |-> head[i]] /\ \A i \in 1 .. 4 : head[i][1] \in Nat
      BY DEF HeaderWrites, FileHeaderSize, EntityHeaderSize
    <2> HIDE DEF head
    <2>2. IsSeq(head) /\ Len(head) = 4
      BY <2>1, 4 \in Nat, MadeSeq
    <2>3. QED
      BY <2>1, <2>2 DEF IsWrites
  <1>3. IsWrites(code)
    <2>1. code = [i \in 1 .. 1 |-> code[i]] /\ \A i \in 1 .. 1 : code[i][1] \in Nat
      BY DEF WellFormed
    <2> HIDE DEF code
    <2>2. IsSeq(code) /\ Len(code) = 1
      BY <2>1, 1 \in Nat, MadeSeq
    <2>3. QED
      BY <2>1, <2>2 DEF IsWrites
  <1>4. img = FoldLeft(Put, EmptyFile, ws).bytes
    BY DEF serialize, EmptyFile
  <1>5. head[1][1] = 80 /\ head[2][1] = 8 /\ head[3][1] = 8 /\ head[4][1] = 8
    BY DEF HeaderWrites, FileHeaderSize, EntityHeaderSize
  <1> HIDE DEF head, classes, code, strings, functions
  <1>6. /\ IsWrites(head \o classes)
        /\ IsWrites(head \o classes \o code)
        /\ IsWrites(head \o classes \o code \o strings)
        /\ IsWrites(ws)
    BY <1>1, <1>2, <1>3, ConcatWrites
  <1>7. (\E e \in Nat : Laid(img, 0, ws, e)) /\ \A o \in DOMAIN img : img[o][1] # 0
    <2> HIDE DEF ws
    <2> QED BY <1>4, <1>6, PutLays DEF IsWrites
  <1>8. PICK e \in Nat : Laid(img, 0, ws, e)
    BY <1>7
  <1>9. PICK s \in Nat : /\ Laid(img, 0, head \o classes \o code \o strings, s)
                        /\ Laid(img, s, functions, e)
    BY <1>1, <1>6, <1>8, LaidParts DEF IsWrites
  <1>10. PICK k \in Nat : /\ Laid(img, 0, head \o classes \o code, k)
                         /\ Laid(img, k, strings, s)
    BY <1>1, <1>6, <1>9, LaidParts DEF IsWrites
  <1>11. PICK c \in Nat : Laid(img, 0, head \o classes, c) /\ Laid(img, c, code, k)
    BY <1>3, <1>6, <1>10, LaidParts DEF IsWrites
  <1>12. PICK h \in Nat : Laid(img, 0, head, h) /\ Laid(img, h, classes, c)
    BY <1>1, <1>2, <1>11, LaidParts DEF IsWrites
  <1>13. h = 104
    <2>1. PICK pos : LaidAt(img, 0, head, h, pos)
      BY <1>12 DEF Laid
    <2>2. /\ pos[0] = 0 /\ pos[4] = h
          /\ \A i \in 1 .. 4 : pos[i] = pos[i - 1] + head[i][1]
      BY <1>2, <2>1 DEF LaidAt
    <2>3. /\ pos[1] = pos[0] + 80 /\ pos[2] = pos[1] + 8
          /\ pos[3] = pos[2] + 8 /\ pos[4] = pos[3] + 8
      BY <1>5, <2>2
    <2>4. QED
      BY <2>2, <2>3
  <1>14. QED
    BY <1>7, <1>9, <1>10, <1>11, <1>12, <1>13 DEF head, classes, code, strings, functions

\* What serialize writes, the constructor of File reads back.
THEOREM RoundTrip ==
  ASSUME NEW file, WellFormed(file)
  PROVE  ReadFile(serialize(file)) = file
  <1> DEFINE img == serialize(file)
             h   == fillHeaders(file)
             size == file.Code.size
             cb  == Sum(ClassBytes, file.Classes)
             sb  == Sum(StringBytes, file.Strings)
  <1>1. PICK c, k, s, e \in Nat :
           /\ Laid(img, 0, HeaderWrites(file), 104)
           /\ Laid(img, 104, Each(ClassWrites, file.Classes), c)
           /\ Laid(img, c, << <<size, file.Code>> >>, k)
           /\ Laid(img, k, Each(StringWrites, file.Strings), s)
           /\ Laid(img, s, Each(FuncWrites, file.Functions), e)
           /\ \A o \in DOMAIN img : img[o][1] # 0
    BY FileLaid
  <1> HIDE DEF img
  <1>2. /\ Read(img, 0, 80) = h
        /\ Read(img, 80, 8) = Len(file.Classes)
        /\ Read(img, 88, 8) = Len(file.Strings)
        /\ Read(img, 96, 8) = Len(file.Functions)
    <2> DEFINE head == HeaderWrites(file)
    <2>1. PICK pos : LaidAt(img, 0, head, 104, pos)
      BY <1>1 DEF Laid
    <2>2. /\ Len(head) = 4
          /\ head[1] = <<80, h>>
          /\ head[2] = <<8, Len(file.Classes)>>
          /\ head[3] = <<8, Len(file.Strings)>>
          /\ head[4] = <<8, Len(file.Functions)>>
      BY DEF HeaderWrites, FileHeaderSize, EntityHeaderSize
    <2> HIDE DEF head, h
    <2>3. pos[0] = 0
      BY <2>1 DEF LaidAt
    <2>4. pos[1] = 80 /\ Read(img, 0, 80) = h
      <3>1. 1 \in 1 .. Len(head) /\ head[1] = <<80, h>>
        BY <2>2
      <3>2. pos[1] = pos[1 - 1] + 80 /\ Read(img, pos[1 - 1], 80) = h
        BY <2>1, <3>1, 80 \in Nat, 80 # 0, ReadBack
      <3>3. QED
        BY <2>3, <3>2
    <2>5. pos[2] = 88 /\ Read(img, 80, 8) = Len(file.Classes)
      <3>1. 2 \in 1 .. Len(head) /\ head[2] = <<8, Len(file.Classes)>>
        BY <2>2
      <3>2. pos[2] = pos[2 - 1] + 8 /\ Read(img, pos[2 - 1], 8) = Len(file.Classes)
        BY <2>1, <3>1, 8 \in Nat, 8 # 0, ReadBack
      <3>3. QED
        BY <2>4, <3>2
    <2>6. pos[3] = 96 /\ Read(img, 88, 8) = Len(file.Strings)
      <3>1. 3 \in 1 .. Len(head) /\ head[3] = <<8, Len(file.Strings)>>
        BY <2>2
      <3>2. pos[3] = pos[3 - 1] + 8 /\ Read(img, pos[3 - 1], 8) = Len(file.Strings)
        BY <2>1, <3>1, 8 \in Nat, 8 # 0, ReadBack
      <3>3. QED
        BY <2>5, <3>2
    <2>7. Read(img, 96, 8) = Len(file.Functions)
      <3>1. 4 \in 1 .. Len(head) /\ head[4] = <<8, Len(file.Functions)>>
        BY <2>2
      <3>2. Read(img, pos[4 - 1], 8) = Len(file.Functions)
        BY <2>1, <3>1, 8 \in Nat, 8 # 0, ReadBack
      <3>3. QED
        BY <2>6, <3>2
    <2>8. QED
      BY <2>4, <2>5, <2>6, <2>7
  <1>3. /\ c = 104 + cb /\ cb \in Int
        /\ ReadTable(ReadClass, img, 104, Len(file.Classes)) = [pos |-> c, seq |-> file.Classes]
    BY <1>1, ClassTable DEF WellFormed
  <1>4. k = c + size /\ ReadCode(img, c, size) = file.Code
    <2> DEFINE code == << <<size, file.Code>> >>
    <2>1. PICK pos : LaidAt(img, c, code, k, pos)
      BY <1>1 DEF Laid
    <2>2. Len(code) = 1 /\ code[1] = <<size, file.Code>> /\ size \in Nat
      BY DEF WellFormed
    <2> HIDE DEF code, size
    <2>3. /\ pos[0] = c /\ pos[1] = k /\ pos[1] = pos[0] + size
          /\ size # 0 => pos[0] \in DOMAIN img /\ img[pos[0]] = <<size, file.Code>>
      BY <2>1, <2>2 DEF LaidAt
    <2>4. size = 0 => file.Code = NoCode
      BY DEF WellFormed, size
    <2>5. QED
      BY <1>1, <2>2, <2>3, <2>4 DEF ReadCode
  <1>5. /\ s = k + sb /\ sb \in Int
        /\ ReadTable(ReadString, img, k, Len(file.Strings)) = [pos |-> s, seq |-> file.Strings]
    BY <1>1, StringTable DEF WellFormed
  <1>6. ReadTable(ReadFunc, img, s, Len(file.Functions)) = [pos |-> e, seq |-> file.Functions]
    BY <1>1, FuncTable DEF WellFormed
  <1>7. /\ h.CLASSES.offset = 104 /\ h.CODE.offset = c /\ h.CODE.size = size
        /\ h.LITERALS.offset = k /\ h.FUNCTIONS.offset = s
    <2>1. /\ h.CLASSES.offset = 104
          /\ h.CODE.offset = 104 + cb
          /\ h.CODE.size = size
          /\ h.LITERALS.offset = 104 + size + cb
          /\ h.FUNCTIONS.offset = 104 + size + sb + cb
      BY HeadersFilled
    <2>2. size \in Int
      BY DEF WellFormed
    <2> HIDE DEF h, cb, sb, size
    <2>3. QED
      BY <1>3, <1>4, <1>5, <2>1, <2>2
  <1>8. ReadFile(img) = [ Classes |-> file.Classes, Code |-> file.Code,
                          Strings |-> file.Strings, Functions |-> file.Functions ]
    <2>1. FileHeaderSize = 80 /\ EntityHeaderSize = 8
      BY DEF FileHeaderSize, EntityHeaderSize
    <2> DEFINE r == Read(img, 0, FileHeaderSize)
               num(i) == Read(img, FileHeaderSize + i * EntityHeaderSize, EntityHeaderSize)
               classes == ReadTable(ReadClass, img, r.CLASSES.offset, num(0))
               code == ReadCode(img, r.CODE.offset, r.CODE.size)
               strings == ReadTable(ReadString, img, r.LITERALS.offset, num(1))
               functions == ReadTable(ReadFunc, img, r.FUNCTIONS.offset, num(2))
    <2>2. ReadFile(img) = [ Classes |-> classes.seq, Code |-> code,
                            Strings |-> strings.seq, Functions |-> functions.seq ]
      BY DEF ReadFile
    <2>3. r = h
      BY <1>2, <2>1
    <2>4. /\ num(0) = Len(file.Classes) /\ num(1) = Len(file.Strings)
          /\ num(2) = Len(file.Functions)
      BY <1>2, <2>1
    <2> HIDE DEF h, r, num
    <2>5. classes = [pos |-> c, seq |-> file.Classes]
      BY <1>3, <1>7, <2>3, <2>4
    <2>6. strings = [pos |-> s, seq |-> file.Strings]
      BY <1>5, <1>7, <2>3, <2>4
    <2>7. functions = [pos |-> e, seq |-> file.Functions]
      BY <1>6, <1>7, <2>3, <2>4
    <2>8. code = file.Code
      BY <1>4, <1>7, <2>3
    <2> HIDE DEF classes, code, strings, functions
    <2>9. QED
      BY <2>2, <2>5, <2>6, <2>7, <2>8
  <1>9. QED
    BY <1>8 DEF WellFormed, img

=============================================================================
