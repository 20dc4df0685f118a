-------------------------- MODULE Assembler_proofs --------------------------
(***************************************************************************)
(* Proofs about the assembler, for any vocabulary of functions, classes,   *)
(* labels and statements and programs of any length: IInv of Assembler is  *)
(* inductive, and with it every jump lands where its label stands and      *)
(* every call is encoded as the function it names.                         *)
(***************************************************************************)
EXTENDS Assembler, SequenceTheorems, FiniteSetTheorems, TLAPS

(***************************************************************************)
(* The shapes of the records and tables, which the prover needs and which  *)
(* IInv leaves out: TLC cannot evaluate the set of all maps of labels.     *)
(***************************************************************************)
LabelMap == UNION { [L -> Nat] : L \in SUBSET Label }

FuncRec == [ offset : Nat,
             name   : { d.name : d \in FuncDecl },
             args   : { d.args : d \in FuncDecl },
             instrs : Seq(Instr),
             labels : LabelMap,
             marks  : LabelMap ]

FieldRec == [ name   : UNION { { c.fields[i].name : i \in DOMAIN c.fields } : c \in ClassDecl },
              size   : Nat,
              offset : Nat,
              is_ref : BOOLEAN ]

ClassRec == [ name   : { c.name : c \in ClassDecl },
              size   : Nat,
              fields : Seq(FieldRec) ]

FileShape ==
  /\ out = [ Code      |-> out.Code,      Strings |-> out.Strings,
             Functions |-> out.Functions, Classes |-> out.Classes ]
  /\ out.Code = [ size |-> out.Code.size, at |-> out.Code.at ]
  /\ out.Code.size \in Nat
  /\ DOMAIN out.Code.at \subseteq Nat
  /\ out.Code.at = [o \in DOMAIN out.Code.at |-> out.Code.at[o]]

Shape == funcs_ \in Seq(FuncRec) /\ classes_ \in Seq(ClassRec) /\ FileShape

Ind == Shape /\ IInv

LEMMA OpSize == \A op \in Op : ByteSize[op] \in Nat \ {0}
  BY DEF Op, ByteSize

LEMMA Remainder == \A n \in Nat : \A k \in Nat \ {0} : n % k \in 0 .. k - 1
  OBVIOUS

LEMMA InsertIsMap ==
  ASSUME NEW map, NEW key, NEW val
  PROVE  LET m == Insert(map, key, val) IN m = [k \in DOMAIN m |-> m[k]]
  BY DEF Insert

LEMMA InsertFacts ==
  ASSUME NEW map, NEW key, NEW val
  PROVE  LET m == Insert(map, key, val)
         IN  /\ DOMAIN m = DOMAIN map \cup {key}
             /\ \A k \in DOMAIN map : m[k] = map[k]
             /\ key \notin DOMAIN map => m[key] = val
  BY DEF Insert

LEMMA InsertLabel ==
  ASSUME NEW map \in LabelMap, NEW l \in Label, NEW n \in Nat
  PROVE  Insert(map, l, n) \in LabelMap
  <1>1. PICK L \in SUBSET Label : map \in [L -> Nat]
    BY DEF LabelMap
  <1>2. Insert(map, l, n) \in [L \cup {l} -> Nat]
    BY <1>1 DEF Insert
  <1>3. QED
    BY <1>2 DEF LabelMap

LEMMA InitInd == AsmInit => Ind
  <1> SUFFICES ASSUME AsmInit PROVE Ind
    OBVIOUS
  <1> USE DEF AsmInit
  <1>1. DOMAIN NoNames = {}
    BY DEF NoNames
  <1>2. Shape
    BY <1>1 DEF Shape, FileShape, NoFile
  <1>3. AsmTypeOK
    BY <1>1, FS_EmptySet DEF AsmTypeOK
  <1>4. Layout /\ JumpsResolved /\ CodeWritten /\ FuncNames /\ CallsDefined /\ InBody
    BY <1>1 DEF Layout, JumpsResolved, CodeWritten, FuncNames, CallsDefined, InBody
  <1>5. QED
    BY <1>2, <1>3, <1>4 DEF Ind, IInv

-----------------------------------------------------------------------------
(***************************************************************************)
(* Steps that leave code and functions alone.                              *)
(***************************************************************************)
\* A step to a phase of the first pass or to "error" that keeps the functions.
LEMMA Quiet ==
  ASSUME Ind, UNCHANGED <<curr_offset_, funcs_, func_name_to_id_, cursor, out>>,
         phase \notin {"write", "written"},
         phase' \in {phase, "class", "resolve", "error"},
         classes_' \in Seq(ClassRec),
         \A n \in DOMAIN class_name_to_id_' : class_name_to_id_'[n] \in 0 .. Len(classes_') - 1,
         \A n \in DOMAIN strings_' : strings_'[n] \in 0 .. NumStrIds - 1,
         IsFiniteSet(DOMAIN strings_')
  PROVE  Ind'
  <1> USE DEF Ind, IInv
  <1>1. Shape'
    BY DEF Shape, FileShape
  <1>2. AsmTypeOK'
    BY DEF AsmTypeOK
  <1>3. Layout'
    BY DEF Layout, FuncLayout, Position, EndOf
  <1>4. JumpsResolved' /\ CodeWritten' /\ InBody'
    BY DEF JumpsResolved, CodeWritten, InBody, IsWritten, Position, EndOf
  <1>5. FuncNames' /\ CallsDefined'
    BY DEF FuncNames, IsFirst, CallsDefined, CallDefined
  <1>6. QED
    BY <1>1, <1>2, <1>3, <1>4, <1>5

LEMMA ErrorInd ==
  ASSUME Ind, parseError, phase \notin {"write", "written"}
  PROVE  Ind'
  BY Quiet DEF parseError, names, Ind, IInv, Shape, AsmTypeOK

LEMMA EndInd ==
  ASSUME Ind, EndOfInput
  PROVE  Ind'
  BY Quiet DEF EndOfInput, names, Ind, IInv, Shape, AsmTypeOK

LEMMA StringIdType ==
  ASSUME Ind, NEW str
  PROVE  StringId(str) \in 0 .. NumStrIds - 1
  <1>1. /\ IsFiniteSet(DOMAIN strings_)
        /\ \A n \in DOMAIN strings_ : strings_[n] \in 0 .. NumStrIds - 1
    BY DEF Ind, IInv, AsmTypeOK
  <1>2. Cardinality(DOMAIN strings_) \in Nat
    BY <1>1, FS_CardinalityType
  <1>3. NumStrIds \in Nat \ {0}
    BY DEF NumStrIds
  <1>4. Cardinality(DOMAIN strings_) % NumStrIds \in 0 .. NumStrIds - 1
    BY <1>2, <1>3, Remainder
  <1>5. QED
    BY <1>1, <1>4 DEF StringId, Insert

LEMMA StringIdFacts ==
  ASSUME Ind, NEW str
  PROVE  LET m == Insert(strings_, str, StringId(str))
         IN  /\ IsFiniteSet(DOMAIN m)
             /\ \A n \in DOMAIN m : m[n] \in 0 .. NumStrIds - 1
  <1> DEFINE m == Insert(strings_, str, StringId(str))
  <1>1. /\ IsFiniteSet(DOMAIN strings_)
        /\ \A n \in DOMAIN strings_ : strings_[n] \in 0 .. NumStrIds - 1
    BY DEF Ind, IInv, AsmTypeOK
  <1>2. DOMAIN m = DOMAIN strings_ \cup {str}
    BY DEF Insert
  <1>3. IsFiniteSet(DOMAIN m)
    BY <1>1, <1>2, FS_AddElement
  <1>4. \A n \in DOMAIN m : m[n] \in 0 .. NumStrIds - 1
    BY <1>1, <1>2, StringIdType DEF Insert
  <1>5. QED
    BY <1>3, <1>4

LEMMA StringInd ==
  ASSUME Ind, NEW str \in Literal, parseString(str)
  PROVE  Ind'
  <1>1. /\ IsFiniteSet(DOMAIN strings_')
        /\ \A n \in DOMAIN strings_' : strings_'[n] \in 0 .. NumStrIds - 1
    BY StringIdFacts DEF parseString
  <1>2. QED
    BY <1>1, Quiet DEF parseString, Ind, IInv, Shape, AsmTypeOK

LEMMA ClassInd ==
  ASSUME Ind, NEW c \in ClassDecl, parseClass(c)
  PROVE  Ind'
  <1> DEFINE new == [ name   |-> c.name,
                      size   |-> 8 * Len(c.fields),
                      fields |-> [i \in DOMAIN c.fields |-> FieldInfo(c, i)] ]
  <1>1. /\ c.fields \in Seq({ c.fields[i] : i \in DOMAIN c.fields })
        /\ classes_ \in Seq(ClassRec)
        /\ \A n \in DOMAIN class_name_to_id_ : class_name_to_id_[n] \in 0 .. Len(classes_) - 1
    BY AssemblerAssumption DEF Ind, IInv, Shape, AsmTypeOK
  <1>2. Len(c.fields) \in Nat /\ DOMAIN c.fields = 1 .. Len(c.fields)
    BY <1>1
  <1>3. \A i \in DOMAIN c.fields : FieldInfo(c, i) \in FieldRec
    <2> SUFFICES ASSUME NEW i \in DOMAIN c.fields PROVE FieldInfo(c, i) \in FieldRec
      OBVIOUS
    <2>1. i - 1 \in Nat
      BY <1>2
    <2>2. isRefType(c.fields[i].type) \in BOOLEAN
      BY DEF isRefType
    <2>3. c.fields[i].name \in UNION { { k.fields[j].name : j \in DOMAIN k.fields } : k \in ClassDecl }
      OBVIOUS
    <2>4. QED
      BY <2>1, <2>2, <2>3 DEF FieldInfo, FieldRec
  <1>4. new.fields \in Seq(FieldRec)
    BY <1>2, <1>3
  <1>5. new \in ClassRec
    BY <1>2, <1>4 DEF ClassRec
  <1>6. classes_' = Append(classes_, new)
    BY DEF parseClass
  <1>7. classes_' \in Seq(ClassRec) /\ Len(classes_') = Len(classes_) + 1
    BY <1>1, <1>5, <1>6
  <1>8. \A n \in DOMAIN class_name_to_id_' : class_name_to_id_'[n] \in 0 .. Len(classes_') - 1
    BY <1>1, <1>7 DEF parseClass, Insert, NextClassId
  <1>9. QED
    BY <1>7, <1>8, Quiet DEF parseClass, AtDeclaration, Ind, IInv, AsmTypeOK

-----------------------------------------------------------------------------
(***************************************************************************)
(* Steps of the first pass that change the functions.                      *)
(***************************************************************************)
LEMMA FuncShape ==
  ASSUME Ind, NEW g \in DOMAIN funcs_
  PROVE  /\ funcs_[g] \in FuncRec
         /\ g \in 1 .. Len(funcs_) /\ Len(funcs_) \in Nat
         /\ funcs_[g].instrs \in Seq(Instr)
         /\ Len(funcs_[g].instrs) \in Nat
         /\ DOMAIN funcs_[g].instrs = 1 .. Len(funcs_[g].instrs)
         /\ \A i \in DOMAIN funcs_[g].instrs : funcs_[g].instrs[i] \in Instr
  <1>1. funcs_ \in Seq(FuncRec)
    BY DEF Ind, Shape
  <1>2. funcs_[g] \in FuncRec /\ g \in 1 .. Len(funcs_) /\ Len(funcs_) \in Nat
    BY <1>1
  <1>3. funcs_[g].instrs \in Seq(Instr)
    BY <1>2 DEF FuncRec
  <1>4. QED
    BY <1>2, <1>3

\* A call that is defined stays so if it stays and no function up to the
\* caller changes its name.
LEMMA CallKept ==
  ASSUME NEW g \in Nat, NEW i, CallDefined(g, i),
         funcs_'[g].instrs[i].arg = funcs_[g].instrs[i].arg,
         funcs_'[g].instrs[i].name = funcs_[g].instrs[i].name,
         \A h \in 1 .. g : funcs_'[h].name = funcs_[h].name
  PROVE  CallDefined(g, i)'
  <1> PICK a : a = funcs_[g].instrs[i].arg
    OBVIOUS
  <1> PICK m : m = funcs_[g].instrs[i].name
    OBVIOUS
  <1>1. a \in 0 .. g - 1 /\ funcs_[a + 1].name = m /\ \A h \in 1 .. a : funcs_[h].name # m
    BY DEF CallDefined
  <1>2. a + 1 \in 1 .. g /\ \A h \in 1 .. a : h \in 1 .. g
    BY <1>1
  <1>3. funcs_'[a + 1].name = m /\ \A h \in 1 .. a : funcs_'[h].name # m
    BY <1>1, <1>2
  <1>4. QED
    BY <1>1, <1>3 DEF CallDefined

LEMMA FuncDeclInd ==
  ASSUME Ind, NEW d \in FuncDecl, parseFuncDecl(d)
  PROVE  Ind'
  <1>0. Len(funcs_) \in Nat
    BY DEF Ind, Shape
  <1> PICK n \in Nat : n = Len(funcs_)
    BY <1>0
  <1> PICK new : new = NewFunc(d)
    OBVIOUS
  <1>1. /\ funcs_ \in Seq(FuncRec) /\ classes_ \in Seq(ClassRec)
        /\ n \in Nat /\ DOMAIN funcs_ = 1 .. n
        /\ curr_offset_ \in Nat
    BY DEF Ind, IInv, Shape, AsmTypeOK
  <1>2. /\ phase \in {"top", "body", "class"} /\ phase' = "body"
        /\ funcs_' = Append(funcs_, new)
        /\ func_name_to_id_' = Insert(func_name_to_id_, d.name, n)
        /\ UNCHANGED <<curr_offset_, classes_, strings_, class_name_to_id_, cursor, out>>
    BY DEF parseFuncDecl, AtDeclaration, NextFuncId
  <1>3. NoNames \in LabelMap /\ DOMAIN NoNames = {}
    <2>1. NoNames \in [{} -> Nat]
      BY DEF NoNames
    <2>2. QED
      BY <2>1 DEF LabelMap, NoNames
  <1>4. new \in FuncRec
    BY <1>1, <1>3 DEF NewFunc, FuncRec
  <1>5. /\ new.offset = curr_offset_ /\ new.name = d.name
        /\ new.instrs = <<>> /\ new.labels = NoNames /\ new.marks = NoNames
    BY DEF NewFunc
  <1>6. /\ funcs_' \in Seq(FuncRec) /\ Len(funcs_') = n + 1
        /\ DOMAIN funcs_' = 1 .. n + 1
        /\ \A g \in 1 .. n : funcs_'[g] = funcs_[g]
        /\ funcs_'[n + 1] = new
    BY <1>1, <1>2, <1>4
  <1>7. /\ EndOf(n + 1)' = curr_offset_
        /\ \A g \in 1 .. n : EndOf(g)' = EndOf(g)
    <2>1. EndOf(n + 1)' = curr_offset_
      BY <1>2, <1>6 DEF EndOf
    <2>2. ASSUME NEW g \in 1 .. n PROVE EndOf(g)' = EndOf(g)
      <3>1. EndOf(g)' = funcs_'[g + 1].offset
        BY <1>1, <1>6 DEF EndOf
      <3>2. CASE g = n
        BY <3>1, <3>2, <1>5, <1>6 DEF EndOf
      <3>3. CASE g # n
        BY <3>1, <3>3, <1>1, <1>6 DEF EndOf
      <3>4. QED
        BY <3>2, <3>3
    <2>3. QED
      BY <2>1, <2>2
  <1>8. \A g \in 1 .. n : \A i : Position(g, i)' = Position(g, i)
    BY <1>6, <1>7 DEF Position
  <1>9. Position(n + 1, 1)' = curr_offset_
    <2>1. funcs_'[n + 1].instrs = <<>>
      BY <1>5, <1>6
    <2>2. QED
      BY <2>1, <1>7 DEF Position
  <1>10. Shape'
    BY <1>2, <1>6 DEF Ind, Shape, FileShape
  <1>11. \A m \in DOMAIN func_name_to_id_' : func_name_to_id_'[m] \in 0 .. n
    BY <1>1, <1>2 DEF Insert, Ind, IInv, AsmTypeOK
  <1>12. AsmTypeOK'
    <2>1. ASSUME NEW g \in DOMAIN funcs_'
          PROVE  /\ funcs_'[g].offset \in Nat
                 /\ funcs_'[g].instrs \in Seq(Instr)
                 /\ DOMAIN funcs_'[g].labels = DOMAIN funcs_'[g].marks
      <3>1. CASE g = n + 1
        BY <3>1, <1>4, <1>5, <1>6 DEF FuncRec
      <3>2. CASE g \in 1 .. n
        BY <3>2, <1>1, <1>6 DEF Ind, IInv, AsmTypeOK
      <3>3. QED
        BY <3>1, <3>2, <1>6
    <2>2. QED
      BY <2>1, <1>1, <1>2, <1>6, <1>11 DEF Ind, IInv, AsmTypeOK
  <1>13. Layout'
    <2>1. IF funcs_' = <<>> THEN curr_offset_' = 0 ELSE funcs_'[1].offset = 0
      BY <1>1, <1>2, <1>5, <1>6 DEF Ind, IInv, Layout
    <2>2. FuncLayout(n + 1)'
      BY <1>3, <1>5, <1>6, <1>9 DEF FuncLayout
    <2>3. ASSUME NEW g \in 1 .. n PROVE FuncLayout(g)'
      <3>1. FuncLayout(g)
        BY <1>1 DEF Ind, IInv, Layout
      <3>2. QED
        BY <3>1, <1>6, <1>8 DEF FuncLayout
    <2>4. QED
      BY <2>1, <2>2, <2>3, <1>6 DEF Layout
  <1>14. JumpsResolved' /\ CodeWritten' /\ InBody'
    BY <1>2, <1>6 DEF Ind, IInv, JumpsResolved, CodeWritten, InBody
  <1>15. FuncNames'
    <2>1. /\ DOMAIN func_name_to_id_' = DOMAIN func_name_to_id_ \cup {d.name}
          /\ \A m \in DOMAIN func_name_to_id_ : func_name_to_id_'[m] = func_name_to_id_[m]
          /\ d.name \notin DOMAIN func_name_to_id_ => func_name_to_id_'[d.name] = n
      BY <1>2 DEF Insert
    <2>2. funcs_'[n + 1].name = d.name
      BY <1>5, <1>6
    <2>3. \A h \in 1 .. n : funcs_'[h].name \in DOMAIN func_name_to_id_
      BY <1>1, <1>6 DEF Ind, IInv, FuncNames
    <2>4. ASSUME NEW m \in DOMAIN func_name_to_id_
          PROVE  IsFirst(m, func_name_to_id_[m])'
      <3>1. func_name_to_id_[m] \in 0 .. n - 1 /\ IsFirst(m, func_name_to_id_[m])
        BY <1>0 DEF Ind, IInv, AsmTypeOK, FuncNames
      <3>2. func_name_to_id_'[m] = func_name_to_id_[m]
        BY <2>1
      <3>3. QED
        BY <3>1, <3>2, <1>6 DEF IsFirst
    <2>5. d.name \notin DOMAIN func_name_to_id_ => IsFirst(d.name, n)'
      BY <2>2, <2>3 DEF IsFirst
    <2>6. \A m \in DOMAIN func_name_to_id_' : IsFirst(m, func_name_to_id_[m])'
      BY <2>1, <2>4, <2>5 DEF IsFirst
    <2>7. \A g \in 1 .. n + 1 : funcs_'[g].name \in DOMAIN func_name_to_id_'
      BY <2>1, <2>2, <2>3
    <2>8. QED
      BY <2>6, <2>7, <1>6 DEF FuncNames
  <1>16. CallsDefined'
    <2>1. ASSUME NEW g \in DOMAIN funcs_', NEW i \in DOMAIN funcs_'[g].instrs,
                 IsCall(funcs_'[g].instrs[i].op)
          PROVE  CallDefined(g, i)'
      <3>1. g \in 1 .. n
        BY <1>1, <1>5, <1>6
      <3>2. CallDefined(g, i)
        BY <3>1, <2>1, <1>1, <1>6 DEF Ind, IInv, CallsDefined
      <3>3. g \in Nat /\ \A h \in 1 .. g : h \in 1 .. n
        BY <3>1
      <3>4. /\ funcs_'[g] = funcs_[g]
            /\ \A h \in 1 .. g : funcs_'[h].name = funcs_[h].name
        BY <3>1, <3>3, <1>6
      <3>5. QED
        BY <3>2, <3>3, <3>4, CallKept
    <2>2. QED
      BY <2>1 DEF CallsDefined
  <1>17. QED
    BY <1>10, <1>12, <1>13, <1>14, <1>15, <1>16 DEF Ind, IInv

\* A step in a body changes the last function only, and of it not the name.
LEMMA BodyFacts ==
  ASSUME Ind, phase = "body"
  PROVE  /\ Len(funcs_) \in Nat \ {0}
         /\ DOMAIN funcs_ = 1 .. Len(funcs_)
         /\ curr_offset_ \in Nat
         /\ cursor = <<1, 1>> /\ out = NoFile
         /\ EndOf(Len(funcs_)) = curr_offset_
  <1>1. funcs_ \in Seq(FuncRec) /\ funcs_ # <<>>
    BY DEF Ind, IInv, Shape, InBody
  <1>2. Len(funcs_) \in Nat \ {0} /\ DOMAIN funcs_ = 1 .. Len(funcs_)
    BY <1>1
  <1>3. curr_offset_ \in Nat /\ cursor = <<1, 1>> /\ out = NoFile
    BY DEF Ind, IInv, AsmTypeOK, CodeWritten
  <1>4. QED
    BY <1>2, <1>3 DEF EndOf

LEMMA LabelInd ==
  ASSUME Ind, NEW l \in Label, addLexedLabel(l)
  PROVE  Ind'
  <1>0. phase = "body"
    BY DEF addLexedLabel
  <1> PICK n \in Nat \ {0} : n = Len(funcs_)
    BY <1>0, BodyFacts
  <1> PICK f : f = funcs_[n]
    OBVIOUS
  <1> PICK k : k = Len(f.instrs)
    OBVIOUS
  <1> PICK new : new = [f EXCEPT !.labels = Insert(@, l, curr_offset_),
                                 !.marks  = Insert(@, l, k + 1)]
    OBVIOUS
  <1>1. /\ funcs_ \in Seq(FuncRec)
        /\ DOMAIN funcs_ = 1 .. n
        /\ curr_offset_ \in Nat
        /\ f \in FuncRec /\ k \in Nat /\ DOMAIN f.instrs = 1 .. k
    BY <1>0, BodyFacts, FuncShape DEF Ind, Shape
  <1>2. /\ l \notin DOMAIN f.labels
        /\ funcs_' = [funcs_ EXCEPT ![n] = new]
        /\ UNCHANGED <<phase, curr_offset_, classes_, func_name_to_id_, strings_,
                       class_name_to_id_, cursor, out>>
    <2>1. current = f /\ Len(current.instrs) + 1 = k + 1
      BY DEF current
    <2>2. QED
      BY <2>1 DEF addLexedLabel, names
  <1>3. new \in FuncRec
    <2>1. f.labels \in LabelMap /\ f.marks \in LabelMap
      BY <1>1 DEF FuncRec
    <2>2. Insert(f.labels, l, curr_offset_) \in LabelMap
      BY <1>1, <2>1, InsertLabel
    <2>3. Insert(f.marks, l, k + 1) \in LabelMap
      BY <1>1, <2>1, InsertLabel
    <2>4. QED
      BY <1>1, <2>2, <2>3 DEF FuncRec
  <1>4. /\ new.offset = f.offset /\ new.name = f.name /\ new.instrs = f.instrs
        /\ new.labels = Insert(f.labels, l, curr_offset_)
        /\ new.marks = Insert(f.marks, l, k + 1)
    BY <1>1 DEF FuncRec
  <1>5. /\ funcs_' \in Seq(FuncRec) /\ Len(funcs_') = n /\ DOMAIN funcs_' = 1 .. n
        /\ \A g \in 1 .. n : g # n => funcs_'[g] = funcs_[g]
        /\ funcs_'[n] = new
    <2>1. n \in 1 .. Len(funcs_)
      OBVIOUS
    <2>2. /\ funcs_' \in Seq(FuncRec) /\ Len(funcs_') = n
          /\ \A g \in 1 .. n : funcs_'[g] = IF g = n THEN new ELSE funcs_[g]
      BY <2>1, <1>1, <1>2, <1>3, ExceptSeq
    <2>3. DOMAIN funcs_' = 1 .. n
      BY <2>2
    <2>4. QED
      BY <2>2, <2>3
  <1>6. \A g \in 1 .. n : /\ funcs_'[g].instrs = funcs_[g].instrs
                          /\ funcs_'[g].offset = funcs_[g].offset
                          /\ funcs_'[g].name = funcs_[g].name
    BY <1>4, <1>5
  <1>7. \A g \in 1 .. n : EndOf(g)' = EndOf(g)
    BY <1>1, <1>2, <1>5, <1>6 DEF EndOf
  <1>8. \A g \in 1 .. n : \A i : Position(g, i)' = Position(g, i)
    BY <1>6, <1>7 DEF Position
  <1>9. Shape'
    BY <1>2, <1>5 DEF Ind, Shape, FileShape
  <1>10. AsmTypeOK'
    <2>1. ASSUME NEW g \in DOMAIN funcs_'
          PROVE  /\ funcs_'[g].offset \in Nat
                 /\ funcs_'[g].instrs \in Seq(Instr)
                 /\ DOMAIN funcs_'[g].labels = DOMAIN funcs_'[g].marks
      <3>1. /\ funcs_[g].offset \in Nat
            /\ funcs_[g].instrs \in Seq(Instr)
            /\ DOMAIN funcs_[g].labels = DOMAIN funcs_[g].marks
        BY <1>1, <1>5 DEF Ind, IInv, AsmTypeOK
      <3>2. DOMAIN funcs_'[g].labels = DOMAIN funcs_'[g].marks
        <4>1. DOMAIN new.labels = DOMAIN new.marks
          <5>1. DOMAIN f.labels = DOMAIN f.marks
            BY <1>1 DEF Ind, IInv, AsmTypeOK
          <5>2. QED
            BY <5>1, <1>4 DEF Insert
        <4>2. QED
          BY <4>1, <3>1, <1>5
      <3>3. QED
        BY <3>1, <3>2, <1>5, <1>6
    <2>2. QED
      BY <2>1, <1>1, <1>2, <1>5 DEF Ind, IInv, AsmTypeOK
  <1>11. Layout'
    <2>1. IF funcs_' = <<>> THEN curr_offset_' = 0 ELSE funcs_'[1].offset = 0
      BY <1>1, <1>2, <1>5, <1>6 DEF Ind, IInv, Layout
    <2>2. ASSUME NEW g \in 1 .. n PROVE FuncLayout(g)
      BY <1>1 DEF Ind, IInv, Layout
    <2>3. ASSUME NEW g \in 1 .. n, g # n PROVE FuncLayout(g)'
      BY <2>2, <2>3, <1>5, <1>8 DEF FuncLayout
    <2>4. FuncLayout(n)'
      <3>1. DOMAIN f.labels = DOMAIN f.marks
        BY <1>1 DEF Ind, IInv, AsmTypeOK
      <3>2. Position(n, k + 1) = curr_offset_
        BY <1>0, <1>1, BodyFacts DEF Position
      <3>3. ASSUME NEW m \in DOMAIN new.labels
            PROVE  /\ new.marks[m] \in 1 .. k + 1
                   /\ new.labels[m] = Position(n, new.marks[m])
        <4>1. CASE m \in DOMAIN f.labels
          <5>1. new.labels[m] = f.labels[m] /\ new.marks[m] = f.marks[m]
            BY <4>1, <3>1, <1>4 DEF Insert
          <5>2. QED
            BY <5>1, <4>1, <2>2 DEF FuncLayout
        <4>2. CASE m \notin DOMAIN f.labels
          <5>1. new.labels[m] = curr_offset_ /\ new.marks[m] = k + 1
            BY <4>2, <3>1, <3>3, <1>4 DEF Insert
          <5>2. QED
            BY <5>1, <3>2, <1>1
        <4>3. QED
          BY <4>1, <4>2
      <3>4. QED
        BY <3>3, <2>2, <1>4, <1>5, <1>8 DEF FuncLayout
    <2>5. QED
      BY <2>1, <2>3, <2>4, <1>5 DEF Layout
  <1>12. JumpsResolved' /\ CodeWritten' /\ InBody'
    BY <1>0, <1>2, <1>5 DEF Ind, IInv, JumpsResolved, CodeWritten, InBody
  <1>13. FuncNames'
    <2>1. ASSUME NEW m \in DOMAIN func_name_to_id_ PROVE IsFirst(m, func_name_to_id_[m])'
      <3>1. func_name_to_id_[m] \in 0 .. n - 1 /\ IsFirst(m, func_name_to_id_[m])
        BY DEF Ind, IInv, AsmTypeOK, FuncNames
      <3>2. QED
        BY <3>1, <1>2, <1>6 DEF IsFirst
    <2>2. QED
      BY <2>1, <1>1, <1>2, <1>5, <1>6 DEF Ind, IInv, FuncNames
  <1>14. CallsDefined'
    <2>1. ASSUME NEW g \in DOMAIN funcs_', NEW i \in DOMAIN funcs_'[g].instrs,
                 IsCall(funcs_'[g].instrs[i].op)
          PROVE  CallDefined(g, i)'
      <3>1. CallDefined(g, i)
        BY <2>1, <1>1, <1>5, <1>6 DEF Ind, IInv, CallsDefined
      <3>2. g \in Nat /\ \A h \in 1 .. g : h \in 1 .. n
        BY <2>1, <1>5
      <3>3. /\ funcs_'[g].instrs = funcs_[g].instrs
            /\ \A h \in 1 .. g : funcs_'[h].name = funcs_[h].name
        BY <2>1, <3>2, <1>5, <1>6
      <3>4. QED
        BY <3>1, <3>2, <3>3, CallKept
    <2>2. QED
      BY <2>1 DEF CallsDefined
  <1>15. QED
    BY <1>9, <1>10, <1>11, <1>12, <1>13, <1>14 DEF Ind, IInv

\* The encoded operands are numbers, and that of a call is the id of the
\* first function of its name.
LEMMA OperandsType ==
  ASSUME Ind, phase = "body", NEW s \in Statement, NEW o \in Operands(s)
  PROVE  /\ o[1] \in Int /\ o[2] \in Nat
         /\ IsCall(s.op) => /\ o[1] \in 0 .. Len(funcs_) - 1
                            /\ IsFirst(s.name, o[1])
  <1>1. /\ Len(funcs_) \in Nat \ {0}
        /\ current \in FuncRec
    BY BodyFacts, FuncShape DEF current
  <1>2. CASE s.op = "LDA"
    <2>1. \A r \in parseReg(current.args, s.name) : r \in Int
      <3>1. PICK d \in FuncDecl : current.args = d.args
        BY <1>1 DEF FuncRec
      <3>2. \A i \in DOMAIN d.args : i \in Nat
        <4>1. PICK T : d.args \in Seq(T)
          BY AssemblerAssumption
        <4>2. QED
          BY <4>1
      <3>3. QED
        BY <3>1, <3>2, AssemblerAssumption DEF parseReg, NumRegs
    <2>2. o \in parseReg(current.args, s.name) \X {0}
      BY <1>2 DEF Operands, IsCall
    <2>3. ~IsCall(s.op)
      BY <1>2 DEF IsCall
    <2>4. QED
      BY <2>1, <2>2, <2>3
  <1>3. CASE IsCall(s.op)
    <2>1. o \in Lookup(func_name_to_id_, s.name) \X {0}
      BY <1>3 DEF Operands, IsCall
    <2>2. s.name \in DOMAIN func_name_to_id_ /\ o[1] = func_name_to_id_[s.name] /\ o[2] = 0
      BY <2>1 DEF Lookup
    <2>3. QED
      BY <2>2, <1>1 DEF Ind, IInv, AsmTypeOK, FuncNames
  <1>4. CASE s.op = "LDA_STR"
    <2>1. o \in {StringId(s.name)} \X {0}
      BY <1>4 DEF Operands, IsCall
    <2>2. StringId(s.name) \in Int
      <3>1. NumStrIds \in Nat
        BY DEF NumStrIds
      <3>2. QED
        BY <3>1, StringIdType
    <2>3. QED
      BY <2>1, <2>2, <1>4 DEF IsCall
  <1>5. CASE s.op = "OBJ_NEW"
    <2>1. o \in Lookup(class_name_to_id_, s.name) \X {0}
      BY <1>5 DEF Operands, IsCall
    <2>2. s.name \in DOMAIN class_name_to_id_ /\ o[1] = class_name_to_id_[s.name] /\ o[2] = 0
      BY <2>1 DEF Lookup
    <2>3. o[1] \in Int
      BY <2>2 DEF Ind, IInv, AsmTypeOK
    <2>4. QED
      BY <2>2, <2>3, <1>5 DEF IsCall
  <1>6. CASE s.op = "LDFIELD"
    <2>1. PICK id \in Lookup(class_name_to_id_, s.name) : o \in {id} \X parseClassFieldId(id, s.member)
      BY <1>6 DEF Operands, IsCall
    <2>2. s.name \in DOMAIN class_name_to_id_ /\ id = class_name_to_id_[s.name]
      BY <2>1 DEF Lookup
    <2>3. classes_ \in Seq(ClassRec) /\ id \in 0 .. Len(classes_) - 1
      BY <2>2 DEF Ind, Shape, IInv, AsmTypeOK
    <2>4. classes_[id + 1] \in ClassRec
      BY <2>3
    <2>5. classes_[id + 1].fields \in Seq(FieldRec)
      BY <2>4 DEF ClassRec
    <2>6. \A k \in parseClassFieldId(id, s.member) : k \in Nat
      BY <2>5 DEF parseClassFieldId
    <2>7. QED
      BY <2>1, <2>3, <2>6, <1>6 DEF IsCall
  <1>7. CASE s.op \notin {"LDA", "LDA_STR", "OBJ_NEW", "LDFIELD"} /\ ~IsCall(s.op)
    <2>1. o \in {<<0, 0>>}
      BY <1>7 DEF Operands
    <2>2. QED
      BY <2>1, <1>7
  <1>8. QED
    BY <1>2, <1>3, <1>4, <1>5, <1>6, <1>7

LEMMA InstrInd ==
  ASSUME Ind, NEW s \in Statement, parseInstr(s)
  PROVE  Ind'
  <1>0. phase = "body"
    BY DEF parseInstr
  <1> PICK n \in Nat \ {0} : n = Len(funcs_)
    BY <1>0, BodyFacts
  <1> PICK f : f = funcs_[n]
    OBVIOUS
  <1> PICK k : k = Len(f.instrs)
    OBVIOUS
  <1> PICK c : c = curr_offset_
    OBVIOUS
  <1>1. PICK o \in Operands(s) :
          funcs_' = [funcs_ EXCEPT ![n].instrs =
                       Append(@, [ op |-> s.op, name |-> s.name, member |-> s.member,
                                   at |-> c, arg |-> o[1], field |-> o[2] ])]
    BY DEF parseInstr
  <1> PICK b : b = [ op |-> s.op, name |-> s.name, member |-> s.member,
                     at |-> c, arg |-> o[1], field |-> o[2] ]
    OBVIOUS
  <1> PICK new : new = [f EXCEPT !.instrs = Append(@, b)]
    OBVIOUS
  <1>2. /\ funcs_ \in Seq(FuncRec)
        /\ DOMAIN funcs_ = 1 .. n
        /\ c \in Nat
        /\ f \in FuncRec /\ f.instrs \in Seq(Instr)
        /\ k \in Nat /\ DOMAIN f.instrs = 1 .. k
    BY <1>0, BodyFacts, FuncShape DEF Ind, Shape
  <1>3. /\ curr_offset_' = c + ByteSize[s.op]
        /\ UNCHANGED <<phase, classes_, func_name_to_id_, class_name_to_id_, cursor, out>>
        /\ strings_' \in {strings_, Insert(strings_, s.name, StringId(s.name))}
    BY DEF parseInstr
  <1>4. /\ b \in Instr
        /\ b.at = c /\ After(b) = curr_offset_'
        /\ b.name = s.name /\ b.op = s.op /\ b.arg = o[1]
    BY <1>0, <1>1, <1>2, <1>3, OperandsType, AssemblerAssumption DEF Instr, After
  <1>5. ByteSize[s.op] \in Nat \ {0} /\ curr_offset_' \in Nat
    BY <1>2, <1>3, OpSize, AssemblerAssumption
  <1>6. /\ new \in FuncRec
        /\ new.offset = f.offset /\ new.name = f.name
        /\ new.labels = f.labels /\ new.marks = f.marks
        /\ new.instrs = Append(f.instrs, b)
    <2>1. Append(f.instrs, b) \in Seq(Instr)
      BY <1>2, <1>4
    <2>2. new = [f EXCEPT !.instrs = Append(f.instrs, b)]
      OBVIOUS
    <2>3. QED
      BY <2>1, <2>2, <1>2 DEF FuncRec
  <1>7. /\ DOMAIN new.instrs = 1 .. k + 1 /\ Len(new.instrs) = k + 1
        /\ \A i \in 1 .. k : new.instrs[i] = f.instrs[i]
        /\ new.instrs[k + 1] = b
    BY <1>2, <1>4, <1>6
  <1>8. /\ funcs_' \in Seq(FuncRec) /\ Len(funcs_') = n /\ DOMAIN funcs_' = 1 .. n
        /\ \A g \in 1 .. n : g # n => funcs_'[g] = funcs_[g]
        /\ funcs_'[n] = new
    <2>1. funcs_' = [funcs_ EXCEPT ![n] = new]
      BY <1>1
    <2>2. n \in 1 .. Len(funcs_) /\ new \in FuncRec
      BY <1>6
    <2>3. /\ funcs_' \in Seq(FuncRec) /\ Len(funcs_') = n
          /\ \A g \in 1 .. n : funcs_'[g] = IF g = n THEN new ELSE funcs_[g]
      BY <2>1, <2>2, <1>2, ExceptSeq
    <2>4. DOMAIN funcs_' = 1 .. n
      BY <2>3
    <2>5. \A g \in 1 .. n : g # n => funcs_'[g] = funcs_[g]
      BY ONLY <2>3
    <2>6. n \in 1 .. n
      BY <2>2
    <2>7. funcs_'[n] = new
      BY ONLY <2>3, <2>6
    <2>8. QED
      BY <2>3, <2>4, <2>5, <2>7
  <1>9. \A g \in 1 .. n : /\ funcs_'[g].offset = funcs_[g].offset
                          /\ funcs_'[g].name = funcs_[g].name
                          /\ funcs_'[g].labels = funcs_[g].labels
                          /\ funcs_'[g].marks = funcs_[g].marks
    BY <1>6, <1>8
  <1>10. /\ \A g \in 1 .. n : g # n => EndOf(g)' = EndOf(g)
         /\ EndOf(n)' = After(b)
    BY <1>2, <1>4, <1>8, <1>9 DEF EndOf
  <1>11. \A g \in 1 .. n : g # n => \A i : Position(g, i)' = Position(g, i)
    BY <1>8, <1>10 DEF Position
  <1>12. /\ \A i \in 1 .. k + 1 : Position(n, i)' = Position(n, i)
         /\ Position(n, k + 2)' = After(b)
    <2>1. \A i \in 1 .. k : Position(n, i)' = Position(n, i)
      BY <1>2, <1>7, <1>8 DEF Position
    <2>2. Position(n, k + 1)' = c
      BY <1>2, <1>4, <1>7, <1>8 DEF Position
    <2>3. Position(n, k + 1) = c
      BY <1>0, <1>2, BodyFacts DEF Position
    <2>4. Position(n, k + 2)' = After(b)
      BY <1>2, <1>7, <1>8, <1>10 DEF Position
    <2>5. QED
      BY <2>1, <2>2, <2>3, <2>4, <1>2
  <1>13. Shape'
    BY <1>3, <1>8 DEF Ind, Shape, FileShape
  <1>14. AsmTypeOK'
    <2>1. ASSUME NEW g \in DOMAIN funcs_'
          PROVE  /\ funcs_'[g].offset \in Nat
                 /\ funcs_'[g].instrs \in Seq(Instr)
                 /\ DOMAIN funcs_'[g].labels = DOMAIN funcs_'[g].marks
      <3>1. /\ funcs_[g].offset \in Nat
            /\ DOMAIN funcs_[g].labels = DOMAIN funcs_[g].marks
        BY <1>2, <1>8 DEF Ind, IInv, AsmTypeOK
      <3>2. funcs_'[g] \in FuncRec
        BY <1>8
      <3>3. QED
        BY <3>1, <3>2, <1>8, <1>9 DEF FuncRec
    <2>2. /\ IsFiniteSet(DOMAIN strings_')
          /\ \A m \in DOMAIN strings_' : strings_'[m] \in 0 .. NumStrIds - 1
      BY <1>3, StringIdFacts DEF Ind, IInv, AsmTypeOK
    <2>3. QED
      BY <2>1, <2>2, <1>3, <1>5, <1>8 DEF Ind, IInv, AsmTypeOK
  <1>15. Layout'
    <2>1. IF funcs_' = <<>> THEN curr_offset_' = 0 ELSE funcs_'[1].offset = 0
      <3>1. funcs_ # <<>> /\ 1 \in 1 .. n
        BY <1>2
      <3>2. funcs_[1].offset = 0
        BY <3>1 DEF Ind, IInv, Layout
      <3>3. funcs_'[1].offset = 0 /\ funcs_' # <<>>
        BY <3>1, <3>2, <1>8, <1>9
      <3>4. QED
        BY <3>3
    <2>2. ASSUME NEW g \in 1 .. n PROVE FuncLayout(g)
      BY <1>2 DEF Ind, IInv, Layout
    <2>3. ASSUME NEW g \in 1 .. n, g # n PROVE FuncLayout(g)'
      BY <2>2, <2>3, <1>8, <1>11 DEF FuncLayout
    <2>4. FuncLayout(n)'
      <3>1. /\ Position(n, 1) = f.offset
            /\ \A i \in 1 .. k : Position(n, i + 1) = After(f.instrs[i])
            /\ \A l \in DOMAIN f.labels : /\ f.marks[l] \in 1 .. k + 1
                                          /\ f.labels[l] = Position(n, f.marks[l])
        BY <2>2, <1>2 DEF FuncLayout
      <3>2. Position(n, 1)' = new.offset
        BY <3>1, <1>2, <1>6, <1>12
      <3>3. \A i \in 1 .. k + 1 : Position(n, i + 1)' = After(new.instrs[i])
        <4>1. ASSUME NEW i \in 1 .. k PROVE Position(n, i + 1)' = After(new.instrs[i])
          <5>1. i + 1 \in 1 .. k + 1
            BY <1>2
          <5>2. Position(n, i + 1)' = Position(n, i + 1) /\ new.instrs[i] = f.instrs[i]
            BY <5>1, <1>7, <1>12
          <5>3. QED
            BY <5>2, <3>1
        <4>2. Position(n, k + 1 + 1)' = After(new.instrs[k + 1])
          BY <1>2, <1>7, <1>12
        <4>3. QED
          BY <4>1, <4>2, <1>2
      <3>4. \A l \in DOMAIN new.labels : /\ new.marks[l] \in 1 .. k + 1 + 1
                                         /\ new.labels[l] = Position(n, new.marks[l])'
        BY <3>1, <1>2, <1>6, <1>12
      <3>5. QED
        BY <3>2, <3>3, <3>4, <1>7, <1>8 DEF FuncLayout
    <2>5. QED
      BY <2>1, <2>3, <2>4, <1>8 DEF Layout
  <1>16. JumpsResolved' /\ CodeWritten' /\ InBody'
    BY <1>0, <1>3, <1>8 DEF Ind, IInv, JumpsResolved, CodeWritten, InBody
  <1>17. FuncNames'
    <2>1. ASSUME NEW m \in DOMAIN func_name_to_id_ PROVE IsFirst(m, func_name_to_id_[m])'
      <3>1. func_name_to_id_[m] \in 0 .. n - 1 /\ IsFirst(m, func_name_to_id_[m])
        BY DEF Ind, IInv, AsmTypeOK, FuncNames
      <3>2. QED
        BY <3>1, <1>3, <1>9 DEF IsFirst
    <2>2. QED
      BY <2>1, <1>2, <1>3, <1>8, <1>9 DEF Ind, IInv, FuncNames
  <1>18. CallsDefined'
    <2>1. ASSUME NEW g \in 1 .. n, NEW i \in DOMAIN funcs_[g].instrs,
                 IsCall(funcs_[g].instrs[i].op), funcs_'[g].instrs[i] = funcs_[g].instrs[i]
          PROVE  CallDefined(g, i)'
      <3>1. CallDefined(g, i)
        BY <2>1, <1>2 DEF Ind, IInv, CallsDefined
      <3>2. g \in Nat /\ \A h \in 1 .. g : h \in 1 .. n
        OBVIOUS
      <3>3. \A h \in 1 .. g : funcs_'[h].name = funcs_[h].name
        BY <3>2, <1>9
      <3>4. QED
        BY <2>1, <3>1, <3>2, <3>3, CallKept
    <2>2. IsCall(b.op) => CallDefined(n, k + 1)'
      <3>1. SUFFICES ASSUME IsCall(b.op) PROVE CallDefined(n, k + 1)'
        OBVIOUS
      <3>2. b.arg \in 0 .. n - 1 /\ IsFirst(b.name, b.arg)
        BY <3>1, <1>0, <1>1, <1>4, OperandsType
      <3>3. funcs_'[n].instrs[k + 1] = b
        BY <1>7, <1>8
      <3>4. QED
        BY <3>2, <3>3, <1>9 DEF CallDefined, IsFirst
    <2>3. ASSUME NEW g \in DOMAIN funcs_', NEW i \in DOMAIN funcs_'[g].instrs,
                 IsCall(funcs_'[g].instrs[i].op)
          PROVE  CallDefined(g, i)'
      <3>0. g \in 1 .. n
        BY <1>8
      <3>1. CASE g # n
        BY <3>0, <3>1, <2>1, <2>3, <1>8
      <3>2. CASE g = n
        <4>1. i \in 1 .. k + 1 /\ n \in 1 .. n
          BY <3>2, <1>7, <1>8
        <4>2. CASE i = k + 1
          BY <4>2, <3>2, <2>2, <2>3, <1>7, <1>8
        <4>3. CASE i # k + 1
          <5>1. i \in 1 .. k
            BY <4>1, <4>3, <1>2
          <5>2. i \in DOMAIN funcs_[n].instrs
            BY <5>1, <1>2
          <5>3. funcs_'[n].instrs[i] = funcs_[n].instrs[i]
            BY <5>1, <1>7, <1>8
          <5>4. QED
            BY <5>2, <5>3, <4>1, <3>2, <2>1, <2>3
        <4>4. QED
          BY <4>2, <4>3
      <3>3. QED
        BY <3>1, <3>2
    <2>4. QED
      BY <2>3 DEF CallsDefined
  <1>19. QED
    BY <1>13, <1>14, <1>15, <1>16, <1>17, <1>18 DEF Ind, IInv

-----------------------------------------------------------------------------
(***************************************************************************)
(* Resolving the jumps and writing the file.                               *)
(***************************************************************************)
\* Resolving a function changes the arguments of its jumps only.
LEMMA ResolvedFacts ==
  ASSUME NEW f \in FuncRec,
         \A i \in Jumps(f) : f.instrs[i].name \in DOMAIN f.labels
  PROVE  /\ Resolved(f) \in FuncRec
         /\ Resolved(f).offset = f.offset /\ Resolved(f).name = f.name
         /\ Resolved(f).labels = f.labels /\ Resolved(f).marks = f.marks
         /\ Resolved(f).args = f.args
         /\ Len(Resolved(f).instrs) = Len(f.instrs)
         /\ DOMAIN Resolved(f).instrs = DOMAIN f.instrs
         /\ \A i \in DOMAIN f.instrs :
              LET b == f.instrs[i]
                  r == Resolved(f).instrs[i]
              IN  /\ r.op = b.op /\ r.name = b.name /\ r.at = b.at
                  /\ r.member = b.member /\ r.field = b.field
                  /\ IF IsJump(b.op) THEN r.arg = f.labels[b.name] - b.at ELSE r = b
  <1> DEFINE Res(i) == IF IsJump(f.instrs[i].op)
                       THEN [f.instrs[i] EXCEPT !.arg = f.labels[f.instrs[i].name] - f.instrs[i].at]
                       ELSE f.instrs[i]
  <1>1. /\ f.instrs \in Seq(Instr) /\ f.labels \in LabelMap
        /\ Len(f.instrs) \in Nat /\ DOMAIN f.instrs = 1 .. Len(f.instrs)
    BY DEF FuncRec
  <1>2. PICK instrs : instrs = [i \in DOMAIN f.instrs |-> Res(i)]
    OBVIOUS
  <1>3. Resolved(f) = [f EXCEPT !.instrs = instrs]
    BY <1>2 DEF Resolved
  <1>4. ASSUME NEW i \in DOMAIN f.instrs
        PROVE  /\ Res(i) \in Instr
               /\ Res(i).op = f.instrs[i].op /\ Res(i).name = f.instrs[i].name
               /\ Res(i).at = f.instrs[i].at
               /\ Res(i).member = f.instrs[i].member /\ Res(i).field = f.instrs[i].field
               /\ IF IsJump(f.instrs[i].op)
                  THEN Res(i).arg = f.labels[f.instrs[i].name] - f.instrs[i].at
                  ELSE Res(i) = f.instrs[i]
    <2>1. f.instrs[i] \in Instr
      BY <1>1
    <2>2. CASE IsJump(f.instrs[i].op)
      <3>1. f.instrs[i].name \in DOMAIN f.labels
        BY <2>2 DEF Jumps
      <3>2. f.labels[f.instrs[i].name] \in Nat
        BY <3>1, <1>1 DEF LabelMap
      <3>3. f.labels[f.instrs[i].name] - f.instrs[i].at \in Int
        BY <3>2, <2>1 DEF Instr
      <3>4. QED
        BY <3>3, <2>1, <2>2 DEF Instr
    <2>3. CASE ~IsJump(f.instrs[i].op)
      BY <2>1, <2>3
    <2>4. QED
      BY <2>2, <2>3
  <1>5. instrs \in Seq(Instr) /\ Len(instrs) = Len(f.instrs)
        /\ DOMAIN instrs = DOMAIN f.instrs /\ \A i \in DOMAIN f.instrs : instrs[i] = Res(i)
    <2>1. instrs \in [1 .. Len(f.instrs) -> Instr]
      BY <1>1, <1>2, <1>4
    <2>2. instrs \in Seq(Instr) /\ Len(instrs) = Len(f.instrs)
      BY <1>1, <2>1
    <2>3. QED
      BY <2>2, <1>2
  <1>6. /\ Resolved(f) \in FuncRec
        /\ Resolved(f).offset = f.offset /\ Resolved(f).name = f.name
        /\ Resolved(f).labels = f.labels /\ Resolved(f).marks = f.marks
        /\ Resolved(f).args = f.args /\ Resolved(f).instrs = instrs
    BY <1>3, <1>5 DEF FuncRec
  <1> HIDE DEF Res
  <1>7. QED
    BY <1>4, <1>5, <1>6

LEMMA ResolveInd ==
  ASSUME Ind, resloveJumps
  PROVE  Ind'
  <1> PICK n : n = Len(funcs_)
    OBVIOUS
  <1>1. /\ funcs_ \in Seq(FuncRec) /\ n \in Nat /\ DOMAIN funcs_ = 1 .. n
        /\ phase = "resolve" /\ phase' = "write" /\ Resolvable
        /\ cursor = <<1, 1>> /\ out = NoFile
        /\ funcs_' = [g \in 1 .. n |-> Resolved(funcs_[g])]
        /\ UNCHANGED <<curr_offset_, classes_, func_name_to_id_, strings_,
                       class_name_to_id_, cursor, out>>
    <2>1. funcs_ \in Seq(FuncRec)
      BY DEF Ind, Shape
    <2>2. cursor = <<1, 1>> /\ out = NoFile
      BY DEF resloveJumps, Ind, IInv, CodeWritten
    <2>3. QED
      BY <2>1, <2>2 DEF resloveJumps, names
  <1>2. ASSUME NEW g \in 1 .. n
        PROVE  /\ funcs_[g] \in FuncRec
               /\ \A i \in Jumps(funcs_[g]) : funcs_[g].instrs[i].name \in DOMAIN funcs_[g].labels
    BY <1>1 DEF Resolvable
  <1>3. ASSUME NEW g \in 1 .. n
        PROVE  /\ funcs_'[g] \in FuncRec
               /\ funcs_'[g].offset = funcs_[g].offset /\ funcs_'[g].name = funcs_[g].name
               /\ funcs_'[g].labels = funcs_[g].labels /\ funcs_'[g].marks = funcs_[g].marks
               /\ Len(funcs_'[g].instrs) = Len(funcs_[g].instrs)
               /\ DOMAIN funcs_'[g].instrs = DOMAIN funcs_[g].instrs
    BY <1>1, <1>2, ResolvedFacts
  <1>4. ASSUME NEW g \in 1 .. n, NEW i \in DOMAIN funcs_[g].instrs
        PROVE  /\ funcs_'[g].instrs[i].op = funcs_[g].instrs[i].op
               /\ funcs_'[g].instrs[i].name = funcs_[g].instrs[i].name
               /\ funcs_'[g].instrs[i].at = funcs_[g].instrs[i].at
               /\ IF IsJump(funcs_[g].instrs[i].op)
                  THEN funcs_'[g].instrs[i].arg =
                         funcs_[g].labels[funcs_[g].instrs[i].name] - funcs_[g].instrs[i].at
                  ELSE funcs_'[g].instrs[i] = funcs_[g].instrs[i]
    <2>1. funcs_'[g] = Resolved(funcs_[g])
      BY <1>1
    <2>2. QED
      BY <1>2, <2>1, ResolvedFacts
  <1>5. funcs_' \in Seq(FuncRec) /\ Len(funcs_') = n /\ DOMAIN funcs_' = 1 .. n
    <2>1. funcs_' \in [1 .. n -> FuncRec]
      BY <1>1, <1>3
    <2>2. QED
      BY <2>1, <1>1
  <1>6. \A g \in 1 .. n : EndOf(g)' = EndOf(g)
    BY <1>1, <1>3, <1>5 DEF EndOf
  <1>7. \A g \in 1 .. n : \A i : Position(g, i)' = Position(g, i)
    BY <1>3, <1>4, <1>6 DEF Position
  <1>8. Shape'
    BY <1>1, <1>5 DEF Ind, Shape, FileShape
  <1>9. AsmTypeOK'
    <2>1. ASSUME NEW g \in DOMAIN funcs_'
          PROVE  /\ funcs_'[g].offset \in Nat
                 /\ funcs_'[g].instrs \in Seq(Instr)
                 /\ DOMAIN funcs_'[g].labels = DOMAIN funcs_'[g].marks
      <3>1. DOMAIN funcs_[g].labels = DOMAIN funcs_[g].marks
        BY <1>1, <1>5 DEF Ind, IInv, AsmTypeOK
      <3>2. funcs_'[g] \in FuncRec
        BY <1>3, <1>5
      <3>3. QED
        BY <3>1, <3>2, <1>3, <1>5 DEF FuncRec
    <2>2. QED
      BY <2>1, <1>1, <1>5 DEF Ind, IInv, AsmTypeOK
  <1>10. Layout'
    <2>1. IF funcs_' = <<>> THEN curr_offset_' = 0 ELSE funcs_'[1].offset = 0
      BY <1>1, <1>3, <1>5 DEF Ind, IInv, Layout
    <2>2. ASSUME NEW g \in 1 .. n PROVE FuncLayout(g)'
      <3>1. FuncLayout(g)
        BY <1>1 DEF Ind, IInv, Layout
      <3>2. \A i \in DOMAIN funcs_[g].instrs :
              After(funcs_'[g].instrs[i]) = After(funcs_[g].instrs[i])
        BY <1>4 DEF After
      <3>3. /\ Position(g, 1)' = funcs_'[g].offset
            /\ \A i \in DOMAIN funcs_'[g].instrs :
                 Position(g, i + 1)' = After(funcs_'[g].instrs[i])
        <4>1. Position(g, 1)' = Position(g, 1)
          BY <1>7
        <4>2. \A i \in DOMAIN funcs_[g].instrs : Position(g, i + 1)' = Position(g, i + 1)
          BY <1>7
        <4>3. QED
          BY <4>1, <4>2, <3>1, <3>2, <1>3 DEF FuncLayout
      <3>4. (\A l \in DOMAIN funcs_[g].labels :
               /\ funcs_[g].marks[l] \in 1 .. Len(funcs_[g].instrs) + 1
               /\ funcs_[g].labels[l] = Position(g, funcs_[g].marks[l]))'
        <4>1. ASSUME NEW l \in DOMAIN funcs_[g].labels, NEW k, k = funcs_[g].marks[l]
              PROVE  k \in 1 .. Len(funcs_[g].instrs) + 1 /\ funcs_[g].labels[l] = Position(g, k)'
          BY <4>1, <3>1, <1>7 DEF FuncLayout
        <4>2. QED
          BY <4>1, <1>3
      <3>5. QED
        BY <3>3, <3>4 DEF FuncLayout
    <2>3. QED
      BY <2>1, <2>2, <1>5 DEF Layout
  <1>11. JumpsResolved'
    <2>1. ASSUME NEW g \in 1 .. n, NEW i \in Jumps(funcs_'[g])
          PROVE  LET b == funcs_'[g].instrs[i]
                 IN  /\ b.name \in DOMAIN funcs_'[g].labels
                     /\ b.at + b.arg = funcs_'[g].labels[b.name]
      <3>1. i \in DOMAIN funcs_[g].instrs /\ i \in Jumps(funcs_[g])
        BY <2>1, <1>3, <1>4 DEF Jumps
      <3>2. funcs_[g].instrs \in Seq(Instr) /\ funcs_[g].labels \in LabelMap
        BY <1>2 DEF FuncRec
      <3>3. funcs_[g].instrs[i] \in Instr
        BY <3>1, <3>2
      <3>4. funcs_[g].instrs[i].at \in Nat
        BY <3>3 DEF Instr
      <3>5. funcs_[g].instrs[i].name \in DOMAIN funcs_[g].labels
        BY <3>1, <1>2
      <3>6. funcs_[g].labels[funcs_[g].instrs[i].name] \in Nat
        BY <3>2, <3>5 DEF LabelMap
      <3>7. IsJump(funcs_[g].instrs[i].op)
        BY <3>1 DEF Jumps
      <3>8. funcs_'[g].instrs[i].at + funcs_'[g].instrs[i].arg
              = funcs_[g].labels[funcs_[g].instrs[i].name]
        BY <3>1, <3>4, <3>6, <3>7, <1>4
      <3>9. QED
        BY <3>1, <3>5, <3>8, <1>3, <1>4
    <2>2. QED
      BY <2>1, <1>5 DEF JumpsResolved
  <1>12. CodeWritten'
    <2>1. out.Code.size = 0 /\ DOMAIN out.Code.at = {}
      BY <1>1 DEF NoFile, NoNames
    <2>2. 1 \in DOMAIN funcs_ => Position(1, 1) = 0
      <3>1. 1 \in DOMAIN funcs_ => FuncLayout(1) /\ funcs_[1].offset = 0
        BY <1>1 DEF Ind, IInv, Layout
      <3>2. QED
        BY <3>1 DEF FuncLayout
    <2>3. 1 \notin DOMAIN funcs_ => curr_offset_ = 0
      BY <1>1 DEF Ind, IInv, Layout
    <2>4. \A g \in 1 .. n : \A i \in DOMAIN funcs_'[g].instrs : ~IsWritten(g, i)'
      <3>1. ASSUME NEW g \in 1 .. n, NEW i \in DOMAIN funcs_'[g].instrs
            PROVE  ~IsWritten(g, i)'
        <4>1. i \in Nat \ {0}
          BY <1>3, <1>2 DEF FuncRec
        <4>2. QED
          BY <4>1, <1>1 DEF IsWritten
      <3>2. QED
        BY <3>1
    <2>5. 1 \in DOMAIN funcs_' => 1 \in 1 .. Len(funcs_'[1].instrs) + 1
      <3>1. 1 \in 1 .. n => Len(funcs_'[1].instrs) \in Nat
        BY <1>3 DEF FuncRec
      <3>2. QED
        BY <3>1, <1>5
    <2>6. (out.Code.size = IF cursor[1] \in DOMAIN funcs_
                          THEN Position(cursor[1], cursor[2]) ELSE curr_offset_)'
      BY <2>1, <2>2, <2>3, <1>1, <1>5, <1>7
    <2>7. QED
      BY <2>1, <2>4, <2>5, <2>6, <1>1, <1>5 DEF CodeWritten
  <1>13. FuncNames'
    <2>1. ASSUME NEW m \in DOMAIN func_name_to_id_ PROVE IsFirst(m, func_name_to_id_[m])'
      <3>1. func_name_to_id_[m] \in 0 .. n - 1 /\ IsFirst(m, func_name_to_id_[m])
        BY DEF Ind, IInv, AsmTypeOK, FuncNames
      <3>2. QED
        BY <3>1, <1>1, <1>3 DEF IsFirst
    <2>2. QED
      BY <2>1, <1>1, <1>3, <1>5 DEF Ind, IInv, FuncNames
  <1>14. CallsDefined'
    <2>1. ASSUME NEW g \in 1 .. n, NEW i \in DOMAIN funcs_'[g].instrs,
                 IsCall(funcs_'[g].instrs[i].op)
          PROVE  CallDefined(g, i)'
      <3>1. i \in DOMAIN funcs_[g].instrs /\ IsCall(funcs_[g].instrs[i].op)
        BY <2>1, <1>3, <1>4
      <3>2. CallDefined(g, i)
        BY <3>1, <1>1 DEF Ind, IInv, CallsDefined
      <3>3. funcs_'[g].instrs[i] = funcs_[g].instrs[i]
        BY <3>1, <1>4 DEF IsCall, IsJump
      <3>4. \A h \in 1 .. n : funcs_'[h].name = funcs_[h].name
        BY <1>3
      <3>5. g \in Nat /\ \A h \in 1 .. g : h \in 1 .. n
        OBVIOUS
      <3>6. QED
        BY <3>2, <3>3, <3>4, <3>5, CallKept
    <2>2. QED
      BY <2>1, <1>5 DEF CallsDefined
  <1>15. InBody'
    BY <1>1 DEF InBody
  <1>16. QED
    BY <1>8, <1>9, <1>10, <1>11, <1>12, <1>13, <1>14, <1>15 DEF Ind, IInv


\* The instruction of the cursor goes where the first pass put it; past the
\* last one of a function the size is the offset of the next function.
LEMMA WriteCodeInd ==
  ASSUME Ind, writeCode
  PROVE  Ind'
  <1>1. /\ funcs_ \in Seq(FuncRec) /\ Len(funcs_) \in Nat /\ DOMAIN funcs_ = 1 .. Len(funcs_)
        /\ phase = "write" /\ phase' = phase
        /\ UNCHANGED <<curr_offset_, funcs_, classes_, func_name_to_id_, strings_,
                       class_name_to_id_>>
    <2>1. funcs_ \in Seq(FuncRec)
      BY DEF Ind, Shape
    <2>2. QED
      BY <2>1 DEF writeCode, names
  <1>2. PICK g \in DOMAIN funcs_ : cursor[1] = g
    BY DEF writeCode
  <1>3. /\ funcs_[g].instrs \in Seq(Instr)
        /\ Len(funcs_[g].instrs) \in Nat
        /\ DOMAIN funcs_[g].instrs = 1 .. Len(funcs_[g].instrs)
    BY FuncShape
  <1>4. PICK k \in 1 .. Len(funcs_[g].instrs) + 1 : cursor[2] = k
    BY <1>1, <1>2 DEF Ind, IInv, CodeWritten
  <1>5. /\ g \in Nat /\ g <= Len(funcs_) /\ k \in Nat \ {0}
        /\ \A h \in DOMAIN funcs_ : h \in Nat
        /\ \A h \in DOMAIN funcs_ : \A i \in DOMAIN funcs_[h].instrs : i \in Nat \ {0}
    <2>1. \A h \in DOMAIN funcs_ : h \in Nat /\ h <= Len(funcs_)
      BY <1>1
    <2>2. k \in Nat \ {0}
      BY <1>3
    <2>3. ASSUME NEW h \in DOMAIN funcs_, NEW i \in DOMAIN funcs_[h].instrs
          PROVE  i \in Nat \ {0}
      BY FuncShape
    <2>4. QED
      BY <2>1, <2>2, <2>3
  <1>6. /\ out.Code.size = Position(g, k)
        /\ \A o \in DOMAIN out.Code.at : o < out.Code.size
        /\ \A h \in DOMAIN funcs_ : \A i \in DOMAIN funcs_[h].instrs :
             IsWritten(h, i) => /\ funcs_[h].instrs[i].at \in DOMAIN out.Code.at
                                /\ out.Code.at[funcs_[h].instrs[i].at] = funcs_[h].instrs[i]
    BY <1>1, <1>2, <1>4 DEF Ind, IInv, CodeWritten
  <1>7. \A h \in DOMAIN funcs_ : FuncLayout(h)
    BY DEF Ind, IInv, Layout
  <1>8. FileShape
    BY DEF Ind, Shape
  <1>9. \A h, i : EndOf(h)' = EndOf(h) /\ Position(h, i)' = Position(h, i)
    BY <1>1 DEF EndOf, Position
  <1>10. Layout' /\ JumpsResolved' /\ FuncNames' /\ CallsDefined' /\ InBody'
    <2>1. Layout'
      BY <1>1, <1>9 DEF Ind, IInv, Layout, FuncLayout
    <2>2. JumpsResolved' /\ InBody'
      BY <1>1 DEF Ind, IInv, JumpsResolved, InBody
    <2>3. FuncNames' /\ CallsDefined'
      BY <1>1 DEF Ind, IInv, FuncNames, IsFirst, CallsDefined, CallDefined
    <2>4. QED
      BY <2>1, <2>2, <2>3
  <1>11. CASE k \in DOMAIN funcs_[g].instrs
    <2>1. PICK b \in Instr : b = funcs_[g].instrs[k]
      BY <1>3, <1>11
    <2>2. /\ cursor' = <<g, k + 1>>
          /\ out' = [out EXCEPT !.Code = writeBytes(out.Code, b)]
      BY <1>2, <1>4, <1>11, <2>1 DEF writeCode
    <2>3. PICK start \in Nat : start = b.at
      BY DEF Instr
    <2>4. PICK width \in Nat \ {0} : width = ByteSize[b.op]
      BY OpSize DEF Instr
    <2>5. start + width \in Nat /\ start < start + width
      OBVIOUS
    <2>6. out.Code.size = start
      BY <1>6, <1>11, <2>1, <2>3 DEF Position
    <2>7. Position(g, k + 1) = start + width
      BY <1>7, <1>11, <2>1, <2>3, <2>4 DEF FuncLayout, After
    <2>8. out'.Code = [ size |-> start + width, at |-> Insert(out.Code.at, start, b) ]
      BY <2>2, <2>4, <2>6, <1>8 DEF FileShape, writeBytes
    <2>9. /\ out' = [ Code      |-> out'.Code,      Strings |-> out'.Strings,
                      Functions |-> out'.Functions, Classes |-> out'.Classes ]
          /\ out'.Code = [ size |-> out'.Code.size, at |-> out'.Code.at ]
      BY <2>2, <2>8, <1>8 DEF FileShape
    <2>10. out'.Code.at = Insert(out.Code.at, start, b) /\ out'.Code.size = start + width
      BY <2>8
    <2>11. \A o \in DOMAIN out.Code.at : o \in Nat /\ o < start
      BY <1>6, <1>8, <2>6 DEF FileShape
    <2>12. /\ DOMAIN out'.Code.at = DOMAIN out.Code.at \cup {start}
           /\ \A o \in DOMAIN out.Code.at : out'.Code.at[o] = out.Code.at[o]
           /\ out'.Code.at[start] = b
      <3>1. start \notin DOMAIN out.Code.at
        BY <2>11
      <3>2. QED
        BY <2>10, <3>1 DEF Insert
    <2>13. FileShape'
      <3>1. out'.Code.at = [o \in DOMAIN out'.Code.at |-> out'.Code.at[o]]
        BY <2>10, InsertIsMap
      <3>2. QED
        BY <3>1, <2>5, <2>9, <2>10, <2>11, <2>12 DEF FileShape
    <2>14. \A o \in DOMAIN out'.Code.at : o < out'.Code.size
      <3>1. \A o \in DOMAIN out.Code.at : o < start + width
        BY <2>11
      <3>2. QED
        BY <3>1, <2>5, <2>10, <2>12
    <2>15. ASSUME NEW h \in DOMAIN funcs_, NEW i \in DOMAIN funcs_[h].instrs, IsWritten(h, i)'
           PROVE  /\ funcs_[h].instrs[i].at \in DOMAIN out'.Code.at
                  /\ out'.Code.at[funcs_[h].instrs[i].at] = funcs_[h].instrs[i]
      <3>1. h \in Nat /\ i \in Nat
        BY <1>5
      <3>2. IsWritten(h, i) \/ (h = g /\ i = k)
        BY <3>1, <2>2, <2>15, <1>2, <1>4, <1>5 DEF IsWritten
      <3>3. CASE IsWritten(h, i)
        BY <3>3, <2>12, <1>6
      <3>4. CASE h = g /\ i = k
        BY <3>4, <2>1, <2>3, <2>12
      <3>5. QED
        BY <3>2, <3>3, <3>4
    <2>16. k + 1 \in 1 .. Len(funcs_[g].instrs) + 1
      BY <1>3, <1>5, <1>11
    <2>17. CodeWritten'
      <3>1. cursor'[1] = g /\ cursor'[2] = k + 1
        BY <2>2
      <3>2. (out.Code.size = IF cursor[1] \in DOMAIN funcs_
                             THEN Position(cursor[1], cursor[2]) ELSE curr_offset_)'
        BY <3>1, <2>7, <2>10, <1>1, <1>9
      <3>3. g \in 1 .. Len(funcs_) + 1
        BY <1>5, <1>1
      <3>4. QED
        BY <3>1, <3>2, <3>3, <2>14, <2>15, <2>16, <1>1 DEF CodeWritten
    <2>18. Shape' /\ AsmTypeOK'
      <3>1. cursor' \in (Nat \ {0}) \X (Nat \ {0})
        BY <2>2, <1>1, <1>5
      <3>2. QED
        BY <3>1, <2>13, <1>1 DEF Ind, IInv, Shape, AsmTypeOK
    <2>19. QED
      BY <2>17, <2>18, <1>10 DEF Ind, IInv
  <1>12. CASE k \notin DOMAIN funcs_[g].instrs
    <2>1. cursor' = <<g + 1, 1>> /\ out' = out
      BY <1>2, <1>4, <1>12 DEF writeCode
    <2>2. k = Len(funcs_[g].instrs) + 1
      BY <1>3, <1>12
    <2>3. out.Code.size = EndOf(g)
      BY <1>6, <1>12 DEF Position
    <2>4. g + 1 \in DOMAIN funcs_ => EndOf(g) = Position(g + 1, 1)
      BY <1>1, <1>7 DEF EndOf, FuncLayout
    <2>5. g + 1 \notin DOMAIN funcs_ => EndOf(g) = curr_offset_
      BY <1>1 DEF EndOf
    <2>6. ASSUME NEW h \in DOMAIN funcs_, NEW i \in DOMAIN funcs_[h].instrs, IsWritten(h, i)'
          PROVE  IsWritten(h, i)
      <3>1. h \in Nat /\ i \in 1 .. Len(funcs_[h].instrs) /\ Len(funcs_[h].instrs) \in Nat
        BY <1>5, FuncShape
      <3>2. h < g \/ h = g
        BY <3>1, <2>1, <2>6, <1>5 DEF IsWritten
      <3>3. QED
        BY <3>1, <3>2, <2>2, <1>2, <1>4 DEF IsWritten
    <2>7. g + 1 \in DOMAIN funcs_ => 1 \in 1 .. Len(funcs_[g + 1].instrs) + 1
      <3>1. g + 1 \in DOMAIN funcs_ => Len(funcs_[g + 1].instrs) \in Nat
        BY FuncShape
      <3>2. QED
        BY <3>1
    <2>8. CodeWritten'
      <3>1. cursor'[1] = g + 1 /\ cursor'[2] = 1
        BY <2>1
      <3>2. g + 1 \in 1 .. Len(funcs_) + 1
        BY <1>1, <1>5
      <3>3. (out.Code.size = IF cursor[1] \in DOMAIN funcs_
                             THEN Position(cursor[1], cursor[2]) ELSE curr_offset_)'
        BY <3>1, <2>1, <2>3, <2>4, <2>5, <1>1, <1>9
      <3>4. \A h \in DOMAIN funcs_ : \A i \in DOMAIN funcs_[h].instrs :
              IsWritten(h, i)' => /\ funcs_[h].instrs[i].at \in DOMAIN out.Code.at
                                  /\ out.Code.at[funcs_[h].instrs[i].at] = funcs_[h].instrs[i]
        BY <2>6, <1>6
      <3>5. QED
        BY <3>1, <3>2, <3>3, <3>4, <2>1, <2>7, <1>1, <1>6 DEF CodeWritten
    <2>9. Shape' /\ AsmTypeOK'
      <3>1. cursor' \in (Nat \ {0}) \X (Nat \ {0})
        BY <2>1, <1>5
      <3>2. QED
        BY <3>1, <2>1, <1>1 DEF Ind, IInv, Shape, FileShape, AsmTypeOK
    <2>10. QED
      BY <2>8, <2>9, <1>10 DEF Ind, IInv
  <1>13. QED
    BY <1>11, <1>12

LEMMA TablesInd ==
  ASSUME Ind, writeTables
  PROVE  Ind'
  <1>1. /\ phase = "write" /\ phase' = "written" /\ cursor[1] \notin DOMAIN funcs_
        /\ UNCHANGED <<curr_offset_, funcs_, classes_, func_name_to_id_, strings_,
                       class_name_to_id_, cursor>>
    BY DEF writeTables, names
  <1>2. PICK strs, fns, cls :
          out' = [out EXCEPT !.Strings = strs, !.Functions = fns, !.Classes = cls]
    BY DEF writeTables
  <1>3. FileShape' /\ out'.Code = out.Code
    BY <1>2 DEF Ind, Shape, FileShape
  <1>4. \A h, i : EndOf(h)' = EndOf(h) /\ Position(h, i)' = Position(h, i)
    BY <1>1 DEF EndOf, Position
  <1>5. Shape' /\ AsmTypeOK' /\ InBody'
    BY <1>1, <1>3 DEF Ind, IInv, Shape, AsmTypeOK, InBody
  <1>6. Layout' /\ JumpsResolved'
    BY <1>1, <1>4 DEF Ind, IInv, Layout, FuncLayout, JumpsResolved
  <1>7. CodeWritten'
    BY <1>1, <1>3, <1>4 DEF Ind, IInv, CodeWritten, IsWritten
  <1>8. FuncNames' /\ CallsDefined'
    BY <1>1 DEF Ind, IInv, FuncNames, IsFirst, CallsDefined, CallDefined
  <1>9. QED
    BY <1>5, <1>6, <1>7, <1>8 DEF Ind, IInv

-----------------------------------------------------------------------------
(***************************************************************************)
(* The theorems.                                                           *)
(***************************************************************************)
LEMMA StepInd == Ind /\ [AsmNext]_asmVars => Ind'
  <1> SUFFICES ASSUME Ind, [AsmNext]_asmVars PROVE Ind'
    OBVIOUS
  <1>1. ASSUME NEW d \in FuncDecl, parseFuncDecl(d) PROVE Ind'
    BY <1>1, FuncDeclInd
  <1>2. ASSUME NEW d \in FuncDecl, TooManyArgs(d) PROVE Ind'
    BY <1>2, ErrorInd DEF TooManyArgs, AtDeclaration
  <1>3. ASSUME NEW c \in ClassDecl, parseClass(c) PROVE Ind'
    BY <1>3, ClassInd
  <1>4. ASSUME NEW c \in ClassDecl, UnknownType(c) PROVE Ind'
    BY <1>4, ErrorInd DEF UnknownType, AtDeclaration
  <1>5. ASSUME NEW l \in Label, addLexedLabel(l) PROVE Ind'
    BY <1>5, LabelInd
  <1>6. ASSUME NEW l \in Label, LabelRedeclared(l) PROVE Ind'
    BY <1>6, ErrorInd DEF LabelRedeclared
  <1>7. ASSUME NEW s \in Statement, parseInstr(s) PROVE Ind'
    BY <1>7, InstrInd
  <1>8. ASSUME NEW s \in Statement, UnknownOperand(s) PROVE Ind'
    BY <1>8, ErrorInd DEF UnknownOperand
  <1>9. ASSUME NEW str \in Literal, parseString(str) PROVE Ind'
    BY <1>9, StringInd
  <1>10. CASE EndOfInput
    BY <1>10, EndInd
  <1>11. CASE EndAfterClass
    BY <1>11, ErrorInd DEF EndAfterClass
  <1>12. CASE resloveJumps
    BY <1>12, ResolveInd
  <1>13. CASE UnresolvedLabel
    BY <1>13, ErrorInd DEF UnresolvedLabel
  <1>14. CASE writeCode
    BY <1>14, WriteCodeInd
  <1>15. CASE writeTables
    BY <1>15, TablesInd
  <1>16. CASE UNCHANGED asmVars
    <2>1. UNCHANGED <<phase, curr_offset_, funcs_, classes_, func_name_to_id_, strings_,
                      class_name_to_id_, cursor, out>>
      BY <1>16 DEF asmVars, names
    <2>2. Shape' /\ AsmTypeOK' /\ InBody' /\ JumpsResolved'
      BY <2>1 DEF Ind, IInv, Shape, FileShape, AsmTypeOK, InBody, JumpsResolved
    <2>3. Layout' /\ CodeWritten'
      BY <2>1 DEF Ind, IInv, Layout, FuncLayout, CodeWritten, IsWritten, Position, EndOf
    <2>4. FuncNames' /\ CallsDefined'
      BY <2>1 DEF Ind, IInv, FuncNames, IsFirst, CallsDefined, CallDefined
    <2>5. QED
      BY <2>2, <2>3, <2>4 DEF Ind, IInv
  <1>17. QED
    BY <1>1, <1>2, <1>3, <1>4, <1>5, <1>6, <1>7, <1>8, <1>9, <1>10, <1>11, <1>12,
       <1>13, <1>14, <1>15, <1>16 DEF AsmNext

LEMMA IndAlways == AsmSpec => []Ind
  <1>1. QED
    BY InitInd, StepInd, PTL DEF AsmSpec

\* The tables of the assembler have their types: the ids of functions and
\* classes index the tables they name (parseFuncDecl, parseClass).
THEOREM AsmTypeCorrect == AsmSpec => []AsmTypeOK
  <1>1. Ind => AsmTypeOK
    BY DEF Ind, IInv
  <1>2. QED
    BY <1>1, IndAlways, PTL

\* A call is always encoded as the first function of its name, declared no
\* later than the caller (parseFuncDecl, parseCallFuncId).
THEOREM CallsAreDefined == AsmSpec => []CallsDefined
  <1>1. Ind => CallsDefined
    BY DEF Ind, IInv
  <1>2. QED
    BY <1>1, IndAlways, PTL

\* In a written file every jump reaches the instruction its label stands
\* before (JumpInfo, addLexedLabel, resloveJumps, writeCode).
THEOREM JumpsAlwaysLand == AsmSpec => []JumpsLand
  <1>1. ASSUME Ind, phase = "written",
               NEW g \in DOMAIN funcs_, NEW i \in Jumps(funcs_[g])
        PROVE  LET b == funcs_[g].instrs[i]
                   k == funcs_[g].marks[b.name]
                   t == b.at + b.arg
               IN  /\ b.at \in DOMAIN out.Code.at
                   /\ out.Code.at[b.at] = b
                   /\ IF k \in DOMAIN funcs_[g].instrs
                      THEN t \in DOMAIN out.Code.at /\ out.Code.at[t] = funcs_[g].instrs[k]
                      ELSE t = EndOf(g)
    <2>1. /\ g \in 1 .. Len(funcs_) /\ Len(funcs_) \in Nat /\ DOMAIN funcs_ = 1 .. Len(funcs_)
          /\ i \in DOMAIN funcs_[g].instrs
      <3>1. funcs_ \in Seq(FuncRec)
        BY <1>1 DEF Ind, Shape
      <3>2. QED
        BY <3>1 DEF Jumps
    <2>2. \A j \in DOMAIN funcs_[g].instrs :
            /\ funcs_[g].instrs[j].at \in DOMAIN out.Code.at
            /\ out.Code.at[funcs_[g].instrs[j].at] = funcs_[g].instrs[j]
      <3>1. cursor[1] \in 1 .. Len(funcs_) + 1 /\ cursor[1] \notin DOMAIN funcs_
        BY <1>1 DEF Ind, IInv, CodeWritten
      <3>2. g < cursor[1]
        BY <3>1, <2>1
      <3>3. QED
        BY <3>2, <1>1 DEF Ind, IInv, CodeWritten, IsWritten
    <2>3. /\ funcs_[g].instrs[i].name \in DOMAIN funcs_[g].labels
          /\ funcs_[g].instrs[i].at + funcs_[g].instrs[i].arg
               = funcs_[g].labels[funcs_[g].instrs[i].name]
      BY <1>1 DEF Ind, IInv, JumpsResolved
    <2>4. FuncLayout(g)
      BY <1>1 DEF Ind, IInv, Layout
    <2>5. funcs_[g].instrs[i].at + funcs_[g].instrs[i].arg
            = Position(g, funcs_[g].marks[funcs_[g].instrs[i].name])
      BY <2>3, <2>4 DEF FuncLayout
    <2>6. QED
      BY <2>1, <2>2, <2>5 DEF Position
  <1>2. Ind => JumpsLand
    BY <1>1 DEF JumpsLand
  <1>3. QED
    BY <1>2, IndAlways, PTL

=============================================================================
