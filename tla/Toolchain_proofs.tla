-------------------------- MODULE Toolchain_proofs --------------------------
(***************************************************************************)
(* Proofs about the way from source to execution, for any vocabulary,      *)
(* programs of any length and stacks of any depth.  The file is what       *)
(* ShrimpFile_proofs asks for, so the machine reads what was written.      *)
(***************************************************************************)
EXTENDS Toolchain, Assembler_proofs, ShrimpFile_proofs

-----------------------------------------------------------------------------
(***************************************************************************)
(* What a step of the assembler does to the functions.                     *)
(***************************************************************************)
\* An instruction that was there: only resloveJumps changes it, and of it
\* the argument of a jump.
Kept(g, i) ==
  /\ g \in DOMAIN funcs_ /\ i \in DOMAIN funcs_[g].instrs
  /\ LET b == funcs_[g].instrs[i]
         r == funcs_'[g].instrs[i]
     IN  /\ r.op = b.op /\ r.name = b.name /\ r.member = b.member
         /\ r.at = b.at /\ r.field = b.field
         /\ ~IsJump(b.op) => r.arg = b.arg

\* An instruction that parseInstr adds.
Added(g, i) ==
  /\ phase = "body" /\ g = Len(funcs_)
  /\ \E s \in Statement : \E o \in Operands(s) :
       /\ funcs_'[g].instrs[i] =
            [ op |-> s.op, name |-> s.name, member |-> s.member,
              at |-> curr_offset_, arg |-> o[1], field |-> o[2] ]
       /\ curr_offset_' = curr_offset_ + ByteSize[s.op]
       /\ strings_' = IF s.op = "LDA_STR" THEN Insert(strings_, s.name, StringId(s.name))
                                          ELSE strings_

\* A step keeps the functions and appends to them.
Grows ==
  /\ Len(funcs_) \in Nat /\ Len(funcs_') \in Nat
  /\ DOMAIN funcs_ = 1 .. Len(funcs_) /\ DOMAIN funcs_' = 1 .. Len(funcs_')
  /\ curr_offset_ \in Nat /\ curr_offset_' \in Nat /\ curr_offset_ <= curr_offset_'
  /\ \A g \in DOMAIN funcs_ :
       /\ g \in DOMAIN funcs_'
       /\ funcs_'[g].offset = funcs_[g].offset
       /\ funcs_'[g].name = funcs_[g].name
       /\ funcs_'[g].args = funcs_[g].args
       /\ DOMAIN funcs_[g].instrs \subseteq DOMAIN funcs_'[g].instrs
  /\ \A g \in DOMAIN funcs_' :
       /\ g \notin DOMAIN funcs_ => /\ funcs_'[g].offset = curr_offset_
                                    /\ curr_offset_' = curr_offset_
                                    /\ g = Len(funcs_) + 1
       /\ \A i \in DOMAIN funcs_'[g].instrs : Kept(g, i) \/ Added(g, i)

\* The operands of an instruction that parseInstr adds.
LEMMA AddedFacts ==
  ASSUME NEW g, NEW i, Added(g, i)
  PROVE  /\ phase = "body" /\ g = Len(funcs_)
         /\ \E s \in Statement : \E o \in Operands(s) :
              LET r == funcs_'[g].instrs[i]
              IN  /\ r.op = s.op /\ r.name = s.name /\ r.member = s.member
                  /\ r.at = curr_offset_ /\ r.arg = o[1] /\ r.field = o[2]
                  /\ After(r) = curr_offset_'
                  /\ strings_' = IF s.op = "LDA_STR"
                                 THEN Insert(strings_, s.name, StringId(s.name))
                                 ELSE strings_
  <1>1. PICK s \in Statement : \E o \in Operands(s) :
          /\ funcs_'[g].instrs[i] =
               [ op |-> s.op, name |-> s.name, member |-> s.member,
                 at |-> curr_offset_, arg |-> o[1], field |-> o[2] ]
          /\ curr_offset_' = curr_offset_ + ByteSize[s.op]
          /\ strings_' = IF s.op = "LDA_STR" THEN Insert(strings_, s.name, StringId(s.name))
                                             ELSE strings_
    BY DEF Added
  <1>2. PICK o \in Operands(s) :
          /\ funcs_'[g].instrs[i] =
               [ op |-> s.op, name |-> s.name, member |-> s.member,
                 at |-> curr_offset_, arg |-> o[1], field |-> o[2] ]
          /\ curr_offset_' = curr_offset_ + ByteSize[s.op]
          /\ strings_' = IF s.op = "LDA_STR" THEN Insert(strings_, s.name, StringId(s.name))
                                             ELSE strings_
    BY <1>1
  <1>3. phase = "body" /\ g = Len(funcs_)
    BY DEF Added
  <1>4. After(funcs_'[g].instrs[i]) = curr_offset_'
    BY <1>2 DEF After
  <1>5. QED
    BY <1>2, <1>3, <1>4

LEMMA FuncTypes ==
  ASSUME Ind
  PROVE  /\ funcs_ \in Seq(FuncRec) /\ Len(funcs_) \in Nat
         /\ DOMAIN funcs_ = 1 .. Len(funcs_) /\ curr_offset_ \in Nat
  <1>1. funcs_ \in Seq(FuncRec)
    BY DEF Ind, Shape
  <1>2. curr_offset_ \in Nat
    BY DEF Ind, IInv, AsmTypeOK
  <1>3. QED
    BY <1>1, <1>2

LEMMA SameGrows ==
  ASSUME Ind, UNCHANGED <<funcs_, curr_offset_>>
  PROVE  Grows
  BY FuncTypes DEF Grows, Kept

LEMMA DeclGrows ==
  ASSUME Ind, NEW d \in FuncDecl, parseFuncDecl(d)
  PROVE  Grows
  <1>1. /\ funcs_ \in Seq(FuncRec) /\ Len(funcs_) \in Nat
        /\ DOMAIN funcs_ = 1 .. Len(funcs_) /\ curr_offset_ \in Nat
    BY FuncTypes
  <1>2. funcs_' = Append(funcs_, NewFunc(d)) /\ curr_offset_' = curr_offset_
    BY DEF parseFuncDecl
  <1>3. /\ Len(funcs_') = Len(funcs_) + 1 /\ DOMAIN funcs_' = 1 .. Len(funcs_) + 1
        /\ \A g \in 1 .. Len(funcs_) : funcs_'[g] = funcs_[g]
        /\ funcs_'[Len(funcs_) + 1] = NewFunc(d)
    BY <1>1, <1>2
  <1>4. /\ NewFunc(d).offset = curr_offset_ /\ NewFunc(d).instrs = <<>>
    BY DEF NewFunc
  <1>5. \A g \in DOMAIN funcs_' : g \in DOMAIN funcs_ \/ g = Len(funcs_) + 1
    BY <1>1, <1>3
  <1>6. \A g \in DOMAIN funcs_' : \A i \in DOMAIN funcs_'[g].instrs : Kept(g, i)
    BY <1>1, <1>3, <1>4, <1>5 DEF Kept
  <1>7. QED
    BY <1>1, <1>2, <1>3, <1>4, <1>5, <1>6 DEF Grows

LEMMA LabelGrows ==
  ASSUME Ind, NEW l \in Label, addLexedLabel(l)
  PROVE  Grows
  <1>1. /\ funcs_ \in Seq(FuncRec) /\ Len(funcs_) \in Nat
        /\ DOMAIN funcs_ = 1 .. Len(funcs_) /\ curr_offset_ \in Nat
    BY FuncTypes
  <1>2. Len(funcs_) \in DOMAIN funcs_ /\ current \in FuncRec
    BY BodyFacts, FuncShape DEF addLexedLabel, current
  <1> PICK new : new = [current EXCEPT !.labels = Insert(@, l, curr_offset_),
                                       !.marks  = Insert(@, l, Len(current.instrs) + 1)]
    OBVIOUS
  <1>3. /\ new.offset = current.offset /\ new.name = current.name
        /\ new.args = current.args /\ new.instrs = current.instrs
    BY <1>2 DEF FuncRec
  <1>4. funcs_' = [funcs_ EXCEPT ![Len(funcs_)] = new] /\ curr_offset_' = curr_offset_
    BY DEF addLexedLabel
  <1>5. /\ DOMAIN funcs_' = DOMAIN funcs_ /\ Len(funcs_') = Len(funcs_)
        /\ \A g \in DOMAIN funcs_ : /\ funcs_'[g].offset = funcs_[g].offset
                                    /\ funcs_'[g].name = funcs_[g].name
                                    /\ funcs_'[g].args = funcs_[g].args
                                    /\ funcs_'[g].instrs = funcs_[g].instrs
    <2>1. DOMAIN funcs_' = DOMAIN funcs_
      BY <1>4
    <2>2. Len(funcs_') = Len(funcs_)
      BY <2>1, <1>1, <1>4
    <2>3. QED
      BY <2>1, <2>2, <1>1, <1>2, <1>3, <1>4 DEF current
  <1>6. QED
    BY <1>1, <1>4, <1>5 DEF Grows, Kept

LEMMA InstrGrows ==
  ASSUME Ind, NEW s \in Statement, parseInstr(s)
  PROVE  Grows
  <1>1. /\ funcs_ \in Seq(FuncRec) /\ Len(funcs_) \in Nat
        /\ DOMAIN funcs_ = 1 .. Len(funcs_) /\ curr_offset_ \in Nat
    BY FuncTypes
  <1>2. phase = "body"
    BY DEF parseInstr
  <1>3. Len(funcs_) \in DOMAIN funcs_
    BY <1>2, BodyFacts
  <1> PICK n : n = Len(funcs_)
    OBVIOUS
  <1>4. /\ funcs_[n] \in FuncRec /\ funcs_[n].instrs \in Seq(Instr)
        /\ n \in DOMAIN funcs_
    BY <1>3, FuncShape
  <1>5. PICK o \in Operands(s) :
          funcs_' = [funcs_ EXCEPT ![n].instrs =
                       Append(@, [ op |-> s.op, name |-> s.name, member |-> s.member,
                                   at |-> curr_offset_, arg |-> o[1], field |-> o[2] ])]
    BY DEF parseInstr
  <1> PICK b : b = [ op |-> s.op, name |-> s.name, member |-> s.member,
                     at |-> curr_offset_, arg |-> o[1], field |-> o[2] ]
    OBVIOUS
  <1>6. curr_offset_' = curr_offset_ + ByteSize[s.op] /\ ByteSize[s.op] \in Nat \ {0}
    BY AssemblerAssumption, OpSize DEF parseInstr
  <1>7. /\ DOMAIN funcs_' = DOMAIN funcs_
        /\ Len(funcs_') = Len(funcs_)
        /\ \A g \in DOMAIN funcs_ : g # n => funcs_'[g] = funcs_[g]
        /\ funcs_'[n] = [funcs_[n] EXCEPT !.instrs = Append(funcs_[n].instrs, b)]
    <2>1. DOMAIN funcs_' = DOMAIN funcs_
      BY <1>5
    <2>2. Len(funcs_') = Len(funcs_)
      BY <2>1, <1>1, <1>5
    <2>3. QED
      BY <2>1, <2>2, <1>4, <1>5
  <1>8. /\ funcs_'[n].offset = funcs_[n].offset /\ funcs_'[n].name = funcs_[n].name
        /\ funcs_'[n].args = funcs_[n].args
        /\ funcs_'[n].instrs = Append(funcs_[n].instrs, b)
    BY <1>4, <1>7 DEF FuncRec
  <1>9. /\ Len(funcs_[n].instrs) \in Nat
        /\ DOMAIN funcs_[n].instrs = 1 .. Len(funcs_[n].instrs)
        /\ DOMAIN funcs_'[n].instrs = 1 .. Len(funcs_[n].instrs) + 1
        /\ \A i \in DOMAIN funcs_[n].instrs : funcs_'[n].instrs[i] = funcs_[n].instrs[i]
        /\ funcs_'[n].instrs[Len(funcs_[n].instrs) + 1] = b
    BY <1>4, <1>8
  <1>10. Added(n, Len(funcs_[n].instrs) + 1)
    <2>1. strings_' = IF s.op = "LDA_STR" THEN Insert(strings_, s.name, StringId(s.name))
                                          ELSE strings_
      BY DEF parseInstr
    <2>2. funcs_'[n].instrs[Len(funcs_[n].instrs) + 1] =
            [ op |-> s.op, name |-> s.name, member |-> s.member,
              at |-> curr_offset_, arg |-> o[1], field |-> o[2] ]
      BY <1>9
    <2>3. QED
      BY <2>1, <2>2, <1>2, <1>6 DEF Added
  <1>11. ASSUME NEW g \in DOMAIN funcs_, NEW i \in DOMAIN funcs_'[g].instrs
         PROVE  Kept(g, i) \/ Added(g, i)
    <2>1. CASE g # n
      BY <2>1, <1>7 DEF Kept
    <2>2. CASE g = n /\ i \in DOMAIN funcs_[n].instrs
      BY <2>2, <1>4, <1>9 DEF Kept
    <2>3. CASE g = n /\ i \notin DOMAIN funcs_[n].instrs
      <3>1. i = Len(funcs_[n].instrs) + 1
        BY <2>3, <1>9, <1>11
      <3>2. QED
        BY <3>1, <2>3, <1>10
    <2>4. QED
      BY <2>1, <2>2, <2>3
  <1>12. \A g \in DOMAIN funcs_ : DOMAIN funcs_[g].instrs \subseteq DOMAIN funcs_'[g].instrs
    <2>1. ASSUME NEW g \in DOMAIN funcs_
          PROVE  DOMAIN funcs_[g].instrs \subseteq DOMAIN funcs_'[g].instrs
      <3>1. CASE g # n
        BY <3>1, <1>7
      <3>2. CASE g = n
        BY <3>2, <1>9
      <3>3. QED
        BY <3>1, <3>2
    <2>2. QED
      BY <2>1
  <1>13. curr_offset_ <= curr_offset_' /\ curr_offset_' \in Nat
    BY <1>1, <1>6
  <1>14. \A g \in DOMAIN funcs_ : /\ funcs_'[g].offset = funcs_[g].offset
                                  /\ funcs_'[g].name = funcs_[g].name
                                  /\ funcs_'[g].args = funcs_[g].args
    BY <1>7, <1>8
  <1>15. QED
    BY <1>1, <1>7, <1>11, <1>12, <1>13, <1>14 DEF Grows

LEMMA ResolveGrows ==
  ASSUME Ind, resloveJumps
  PROVE  Grows
  <1>1. /\ funcs_ \in Seq(FuncRec) /\ Len(funcs_) \in Nat
        /\ DOMAIN funcs_ = 1 .. Len(funcs_) /\ curr_offset_ \in Nat
    BY FuncTypes
  <1>2. funcs_' = [g \in DOMAIN funcs_ |-> Resolved(funcs_[g])] /\ curr_offset_' = curr_offset_
    BY DEF resloveJumps
  <1>3. DOMAIN funcs_' = DOMAIN funcs_ /\ Len(funcs_') = Len(funcs_)
    BY <1>1, <1>2
  <1>4. ASSUME NEW g \in DOMAIN funcs_
        PROVE  /\ funcs_'[g].offset = funcs_[g].offset
               /\ funcs_'[g].name = funcs_[g].name
               /\ funcs_'[g].args = funcs_[g].args
               /\ DOMAIN funcs_'[g].instrs = DOMAIN funcs_[g].instrs
               /\ \A i \in DOMAIN funcs_'[g].instrs : Kept(g, i)
    <2>1. /\ funcs_[g] \in FuncRec
          /\ \A i \in Jumps(funcs_[g]) : funcs_[g].instrs[i].name \in DOMAIN funcs_[g].labels
      BY FuncShape DEF resloveJumps, Resolvable
    <2>2. funcs_'[g] = Resolved(funcs_[g])
      BY <1>2
    <2>3. QED
      BY <2>1, <2>2, ResolvedFacts DEF Kept
  <1>5. QED
    BY <1>1, <1>2, <1>3, <1>4 DEF Grows

LEMMA StepGrows == Ind /\ [AsmNext]_asmVars => Grows
  <1> SUFFICES ASSUME Ind, [AsmNext]_asmVars PROVE Grows
    OBVIOUS
  <1>1. ASSUME NEW d \in FuncDecl, parseFuncDecl(d) PROVE Grows
    BY <1>1, DeclGrows
  <1>2. ASSUME NEW l \in Label, addLexedLabel(l) PROVE Grows
    BY <1>2, LabelGrows
  <1>3. ASSUME NEW s \in Statement, parseInstr(s) PROVE Grows
    BY <1>3, InstrGrows
  <1>4. CASE resloveJumps
    BY <1>4, ResolveGrows
  <1>5. CASE parseError
    BY <1>5, SameGrows DEF parseError
  <1>6. ASSUME NEW c \in ClassDecl, parseClass(c) PROVE Grows
    BY <1>6, SameGrows DEF parseClass
  <1>7. CASE EndOfInput \/ writeCode \/ writeTables \/ UNCHANGED asmVars
    BY <1>7, SameGrows DEF EndOfInput, writeCode, writeTables, asmVars
  <1>8. ASSUME NEW str \in Literal, parseString(str) PROVE Grows
    BY <1>8, SameGrows DEF parseString
  <1>9. QED
    BY <1>1, <1>2, <1>3, <1>4, <1>5, <1>6, <1>7, <1>8
       DEF AsmNext, TooManyArgs, UnknownType, LabelRedeclared, UnknownOperand,
           EndAfterClass, UnresolvedLabel

-----------------------------------------------------------------------------
(***************************************************************************)
(* Parameters.                                                             *)
(***************************************************************************)
\* The register of the first parameter of a name is the one CALL fills.
LEMMA FirstParameter ==
  ASSUME NEW args, NEW r, DOMAIN args \subseteq Int,
         NEW k \in DOMAIN args, args[k] = r, \A j \in 1 .. k - 1 : args[j] # r,
         NEW n \in parseReg(args, r), \A j \in DOMAIN args : j \in Nat \ {0}
  PROVE  n = CallArgReg(k)
  <1> DEFINE params == { i \in DOMAIN args : args[i] = r }
  <1>1. k \in params
    OBVIOUS
  <1>2. PICK i \in params : n = NumRegs - i /\ \A j \in params : i <= j
    BY <1>1 DEF parseReg
  <1>3. i <= k
    BY <1>1, <1>2
  <1>4. i \in 1 .. k - 1 => FALSE
    BY <1>2
  <1>5. i = k
    BY <1>3, <1>4
  <1>6. QED
    BY <1>2, <1>5 DEF CallArgReg, NumRegs

LEMMA ParamsStep ==
  ASSUME Ind, ParamsArrive, [AsmNext]_asmVars
  PROVE  ParamsArrive'
  <1>1. Grows
    BY StepGrows
  <1> SUFFICES ASSUME NEW g \in DOMAIN funcs_', NEW i \in DOMAIN funcs_'[g].instrs,
                      funcs_'[g].instrs[i].op = "LDA",
                      NEW k \in DOMAIN funcs_'[g].args,
                      funcs_'[g].args[k] = funcs_'[g].instrs[i].name,
                      \A j \in 1 .. k - 1 : funcs_'[g].args[j] # funcs_'[g].instrs[i].name
               PROVE  funcs_'[g].instrs[i].arg = CallArgReg(k)
    BY DEF ParamsArrive
  <1>2. CASE Kept(g, i)
    <2>1. /\ g \in DOMAIN funcs_ /\ i \in DOMAIN funcs_[g].instrs
          /\ funcs_[g].instrs[i].op = "LDA"
          /\ funcs_'[g].instrs[i].name = funcs_[g].instrs[i].name
          /\ funcs_'[g].instrs[i].arg = funcs_[g].instrs[i].arg
          /\ funcs_'[g].args = funcs_[g].args
      BY <1>1, <1>2 DEF Kept, Grows, IsJump
    <2>2. QED
      BY <2>1 DEF ParamsArrive
  <1>3. CASE Added(g, i)
    <2>1. PICK s \in Statement : \E o \in Operands(s) :
            /\ funcs_'[g].instrs[i].op = s.op /\ funcs_'[g].instrs[i].name = s.name
            /\ funcs_'[g].instrs[i].arg = o[1]
      BY <1>3, AddedFacts
    <2> PICK o \in Operands(s) :
            /\ funcs_'[g].instrs[i].op = s.op /\ funcs_'[g].instrs[i].name = s.name
            /\ funcs_'[g].instrs[i].arg = o[1]
      BY <2>1
    <2>2. s.op = "LDA" /\ funcs_'[g].instrs[i].name = s.name /\ funcs_'[g].instrs[i].arg = o[1]
      OBVIOUS
    <2>3. phase = "body" /\ g = Len(funcs_)
      BY <1>3 DEF Added
    <2>4. g \in DOMAIN funcs_ /\ funcs_[g] \in FuncRec /\ current = funcs_[g]
      BY <2>3, BodyFacts, FuncShape DEF current
    <2>5. funcs_'[g].args = current.args
      BY <2>4, <1>1 DEF Grows
    <2>6. o[1] \in parseReg(current.args, s.name)
      <3>1. o \in parseReg(current.args, s.name) \X {0}
        BY <2>2 DEF Operands, IsCall
      <3>2. QED
        BY <3>1
    <2>7. \A j \in DOMAIN current.args : j \in Nat \ {0}
      <3>1. PICK d \in FuncDecl : current.args = d.args
        BY <2>4 DEF FuncRec
      <3>2. PICK T : d.args \in Seq(T)
        BY AssemblerAssumption
      <3>3. QED
        BY <3>1, <3>2
    <2>8. /\ k \in DOMAIN current.args /\ current.args[k] = s.name
          /\ \A j \in 1 .. k - 1 : current.args[j] # s.name
      BY <2>2, <2>5
    <2>9. o[1] = CallArgReg(k)
      BY <2>6, <2>7, <2>8, FirstParameter
    <2>10. QED
      BY <2>2, <2>9
  <1>4. QED
    BY <1>1, <1>2, <1>3 DEF Grows

LEMMA ParamsInit == AsmInit => ParamsArrive
  BY DEF AsmInit, ParamsArrive

-----------------------------------------------------------------------------
(***************************************************************************)
(* The code of the functions does not overlap.                             *)
(***************************************************************************)
LEMMA OrderedStep ==
  ASSUME Ind, Ordered, [AsmNext]_asmVars
  PROVE  Ordered'
  <1>1. Grows /\ Ind'
    BY StepGrows, StepInd
  <1>2. /\ Len(funcs_) \in Nat /\ Len(funcs_') \in Nat
        /\ DOMAIN funcs_ = 1 .. Len(funcs_) /\ DOMAIN funcs_' = 1 .. Len(funcs_')
        /\ curr_offset_ \in Nat /\ curr_offset_' \in Nat /\ curr_offset_ <= curr_offset_'
    BY <1>1 DEF Grows
  <1>3. \A g \in DOMAIN funcs_ : g \in DOMAIN funcs_' /\ funcs_'[g].offset = funcs_[g].offset
    BY <1>1 DEF Grows
  <1>4. \A g \in DOMAIN funcs_' \ DOMAIN funcs_ :
          /\ funcs_'[g].offset = curr_offset_ /\ curr_offset_' = curr_offset_
          /\ g = Len(funcs_) + 1
    BY <1>1 DEF Grows
  <1>5. \A g \in DOMAIN funcs_' : funcs_'[g].offset \in Nat
    BY <1>1 DEF Ind, IInv, AsmTypeOK
  <1>6. \A g \in DOMAIN funcs_' : funcs_'[g].offset <= curr_offset_'
    <2>1. ASSUME NEW g \in DOMAIN funcs_' PROVE funcs_'[g].offset <= curr_offset_'
      <3>1. CASE g \in DOMAIN funcs_
        <4>1. funcs_[g].offset <= curr_offset_
          BY <3>1 DEF Ordered
        <4>2. QED
          BY <3>1, <4>1, <1>2, <1>3, <1>5
      <3>2. CASE g \notin DOMAIN funcs_
        BY <3>2, <1>2, <1>4
      <3>3. QED
        BY <3>1, <3>2
    <2>2. QED
      BY <2>1
  <1>7. ASSUME NEW g \in DOMAIN funcs_', NEW h \in g + 1 .. Len(funcs_')
        PROVE  /\ g \in DOMAIN funcs_ /\ h \in DOMAIN funcs_'
               /\ IF h \in DOMAIN funcs_
                  THEN h \in g + 1 .. Len(funcs_) /\ funcs_'[h].offset = funcs_[h].offset
                  ELSE funcs_'[h].offset = curr_offset_ /\ curr_offset_' = curr_offset_
    <2>1. h \in DOMAIN funcs_' /\ h \in 1 .. Len(funcs_')
      BY <1>2
    <2>2. g \in DOMAIN funcs_
      <3>1. CASE h \in DOMAIN funcs_
        BY <3>1, <1>2
      <3>2. CASE h \notin DOMAIN funcs_
        <4>1. h = Len(funcs_) + 1
          BY <3>2, <2>1, <1>4
        <4>2. QED
          BY <4>1, <1>2
      <3>3. QED
        BY <3>1, <3>2
    <2>3. h \in DOMAIN funcs_ => h \in g + 1 .. Len(funcs_)
      BY <1>2
    <2>4. QED
      BY <2>1, <2>2, <2>3, <1>3, <1>4
  <1>8. ASSUME NEW g \in DOMAIN funcs_', NEW h \in g + 1 .. Len(funcs_')
        PROVE  funcs_'[g].offset <= funcs_'[h].offset
    <2>1. g \in DOMAIN funcs_ /\ funcs_[g].offset <= curr_offset_
      BY <1>7 DEF Ordered
    <2>2. CASE h \in DOMAIN funcs_
      <3>1. funcs_[g].offset <= funcs_[h].offset
        BY <2>1, <2>2, <1>7 DEF Ordered
      <3>2. QED
        BY <3>1, <2>1, <2>2, <1>3, <1>7
    <2>3. CASE h \notin DOMAIN funcs_
      BY <2>1, <2>3, <1>3, <1>7
    <2>4. QED
      BY <2>2, <2>3
  <1>9. ASSUME NEW g \in DOMAIN funcs_', NEW i \in DOMAIN funcs_'[g].instrs
        PROVE  /\ funcs_'[g].offset <= funcs_'[g].instrs[i].at
               /\ After(funcs_'[g].instrs[i]) <= curr_offset_'
               /\ \A h \in g + 1 .. Len(funcs_') :
                    After(funcs_'[g].instrs[i]) <= funcs_'[h].offset
    <2> DEFINE r == funcs_'[g].instrs[i]
    <2>1. CASE Kept(g, i)
      <3> DEFINE b == funcs_[g].instrs[i]
      <3>1. /\ g \in DOMAIN funcs_ /\ i \in DOMAIN funcs_[g].instrs
            /\ r.at = b.at /\ After(r) = After(b)
            /\ funcs_'[g].offset = funcs_[g].offset
        BY <2>1, <1>3 DEF Kept, After
      <3>2. b \in Instr
        BY <3>1, FuncShape
      <3>3. After(b) \in Nat
        <4>1. b.at \in Nat /\ ByteSize[b.op] \in Nat
          BY <3>2, OpSize DEF Instr
        <4>2. QED
          BY <4>1 DEF After
      <3>4. funcs_[g].offset <= b.at /\ After(b) <= curr_offset_
        BY <3>1 DEF Ordered
      <3>5. After(r) <= curr_offset_'
        BY <3>1, <3>3, <3>4, <1>2
      <3>6. ASSUME NEW h \in g + 1 .. Len(funcs_') PROVE After(r) <= funcs_'[h].offset
        <4>1. CASE h \in DOMAIN funcs_
          <5>1. After(b) <= funcs_[h].offset
            BY <4>1, <3>1, <1>7 DEF Ordered
          <5>2. QED
            BY <5>1, <4>1, <3>1, <1>7
        <4>2. CASE h \notin DOMAIN funcs_
          <5>1. funcs_'[h].offset = curr_offset_
            BY <4>2, <1>7
          <5>2. QED
            BY <5>1, <3>1, <3>4
        <4>3. QED
          BY <4>1, <4>2
      <3>7. QED
        BY <3>1, <3>4, <3>5, <3>6
    <2>2. CASE Added(g, i)
      <3>2. r.at = curr_offset_ /\ After(r) = curr_offset_'
        BY <2>2, AddedFacts
      <3>3. phase = "body" /\ g = Len(funcs_) /\ Len(funcs_) \in DOMAIN funcs_
        BY <2>2, BodyFacts DEF Added
      <3>4. funcs_'[g].offset <= curr_offset_
        BY <3>3, <1>3 DEF Ordered
      <3>5. ASSUME NEW h \in g + 1 .. Len(funcs_') PROVE After(r) <= funcs_'[h].offset
        <4>1. h \notin DOMAIN funcs_
          BY <3>3, <1>2
        <4>2. funcs_'[h].offset = curr_offset_ /\ curr_offset_' = curr_offset_
          BY <4>1, <1>7
        <4>3. QED
          BY <4>2, <3>2, <1>2
      <3>6. QED
        BY <3>2, <3>4, <3>5, <1>2
    <2>3. QED
      BY <2>1, <2>2, <1>1 DEF Grows
  <1>10. QED
    BY <1>6, <1>8, <1>9 DEF Ordered

LEMMA OrderedInit == AsmInit => Ordered
  BY DEF AsmInit, Ordered

-----------------------------------------------------------------------------
(***************************************************************************)
(* Classes and strings.                                                    *)
(***************************************************************************)
\* What a step does to the classes and to the strings.
LEMMA TablesGrow ==
  ASSUME Ind, [AsmNext]_asmVars
  PROVE  /\ \/ UNCHANGED <<classes_, class_name_to_id_>>
            \/ \E c \in ClassDecl : parseClass(c)
         /\ \/ UNCHANGED strings_
            \/ \E str \in SourceStrings : strings_' = Insert(strings_, str, StringId(str))
  <1>1. UNCHANGED <<classes_, class_name_to_id_>> \/ \E c \in ClassDecl : parseClass(c)
    BY DEF AsmNext, parseFuncDecl, TooManyArgs, UnknownType, addLexedLabel, LabelRedeclared,
           parseInstr, UnknownOperand, parseString, EndOfInput, EndAfterClass, resloveJumps,
           UnresolvedLabel, writeCode, writeTables, parseError, asmVars, names
  <1>2. \/ UNCHANGED strings_
        \/ \E str \in Literal : parseString(str)
        \/ \E s \in Statement : s.op = "LDA_STR" /\ parseInstr(s)
    BY DEF AsmNext, parseFuncDecl, TooManyArgs, parseClass, UnknownType, addLexedLabel,
           LabelRedeclared, parseInstr, UnknownOperand, EndOfInput, EndAfterClass,
           resloveJumps, UnresolvedLabel, writeCode, writeTables, parseError, asmVars, names
  <1>3. ASSUME NEW str \in Literal, parseString(str)
        PROVE  str \in SourceStrings /\ strings_' = Insert(strings_, str, StringId(str))
    BY <1>3 DEF parseString, SourceStrings
  <1>4. ASSUME NEW s \in Statement, s.op = "LDA_STR", parseInstr(s)
        PROVE  s.name \in SourceStrings /\ strings_' = Insert(strings_, s.name, StringId(s.name))
    BY <1>4 DEF parseInstr, SourceStrings
  <1>5. QED
    BY <1>1, <1>2, <1>3, <1>4

\* A class that is there stays as it is, and a new one comes after it.
LEMMA ClassesGrow ==
  ASSUME Ind, ClassNames, [AsmNext]_asmVars
  PROVE  /\ ClassNames'
         /\ Len(classes_) \in Nat /\ Len(classes_') \in Nat /\ Len(classes_) <= Len(classes_')
         /\ \A k \in 1 .. Len(classes_) : classes_'[k] = classes_[k]
  <1>1. /\ classes_ \in Seq(ClassRec) /\ Len(classes_) \in Nat
        /\ DOMAIN classes_ = 1 .. Len(classes_)
    <2>1. classes_ \in Seq(ClassRec)
      BY DEF Ind, Shape
    <2>2. QED
      BY <2>1
  <1>2. CASE UNCHANGED <<classes_, class_name_to_id_>>
    BY <1>1, <1>2 DEF ClassNames
  <1>3. ASSUME NEW c \in ClassDecl, parseClass(c)
        PROVE  /\ ClassNames'
               /\ Len(classes_') = Len(classes_) + 1
               /\ \A k \in 1 .. Len(classes_) : classes_'[k] = classes_[k]
    <2> PICK new : new = [ name   |-> c.name,
                           size   |-> 8 * Len(c.fields),
                           fields |-> [i \in DOMAIN c.fields |-> FieldInfo(c, i)] ]
      OBVIOUS
    <2>1. /\ classes_' = Append(classes_, new)
          /\ class_name_to_id_' = Insert(class_name_to_id_, c.name, Len(classes_))
      BY <1>3 DEF parseClass, NextClassId
    <2>2. /\ Len(classes_') = Len(classes_) + 1
          /\ \A k \in 1 .. Len(classes_) : classes_'[k] = classes_[k]
          /\ classes_'[Len(classes_) + 1] = new
      BY <2>1, <1>1
    <2>3. new.name = c.name
      OBVIOUS
    <2>4. \A n \in DOMAIN class_name_to_id_ : class_name_to_id_[n] \in 0 .. Len(classes_) - 1
      BY DEF Ind, IInv, AsmTypeOK
    <2>5. ASSUME NEW n \in DOMAIN class_name_to_id_'
          PROVE  classes_'[class_name_to_id_'[n] + 1].name = n
      <3>1. CASE n \in DOMAIN class_name_to_id_
        <4>1. class_name_to_id_'[n] = class_name_to_id_[n]
          BY <3>1, <2>1 DEF Insert
        <4>2. class_name_to_id_[n] + 1 \in 1 .. Len(classes_)
          BY <3>1, <2>4, <1>1
        <4>3. QED
          BY <3>1, <4>1, <4>2, <2>2 DEF ClassNames
      <3>2. CASE n \notin DOMAIN class_name_to_id_
        <4>1. n = c.name /\ class_name_to_id_'[n] = Len(classes_)
          BY <3>2, <2>1, <2>5 DEF Insert
        <4>2. QED
          BY <4>1, <2>2, <2>3
      <3>3. QED
        BY <3>1, <3>2
    <2>6. QED
      BY <2>2, <2>5 DEF ClassNames
  <1>4. QED
    BY <1>1, <1>2, <1>3, TablesGrow

\* The field of a class that an operand stands for.
LEMMA FieldOperand ==
  ASSUME Ind, NEW id \in 0 .. Len(classes_) - 1, NEW name,
         NEW k \in parseClassFieldId(id, name)
  PROVE  /\ k + 1 \in DOMAIN classes_[id + 1].fields
         /\ classes_[id + 1].fields[k + 1].name = name
  <1>1. classes_ \in Seq(ClassRec)
    BY DEF Ind, Shape
  <1>2. classes_[id + 1] \in ClassRec
    BY <1>1
  <1>3. classes_[id + 1].fields \in Seq(FieldRec)
    BY <1>2 DEF ClassRec
  <1>4. PICK i \in DOMAIN classes_[id + 1].fields :
          k = i - 1 /\ classes_[id + 1].fields[i].name = name
    BY DEF parseClassFieldId
  <1>5. i \in Nat /\ k + 1 = i
    BY <1>3, <1>4
  <1>6. QED
    BY <1>4, <1>5

\* The operands of a statement name what the statement names.
LEMMA OperandSymbols ==
  ASSUME Ind, ClassNames, NEW s \in Statement, NEW o \in Operands(s)
  PROVE  /\ s.op = "LDA_STR" => o[1] = StringId(s.name)
         /\ s.op \in {"OBJ_NEW", "LDFIELD"} =>
              o[1] \in 0 .. Len(classes_) - 1 /\ classes_[o[1] + 1].name = s.name
         /\ s.op = "LDFIELD" => /\ o[2] + 1 \in DOMAIN classes_[o[1] + 1].fields
                                /\ classes_[o[1] + 1].fields[o[2] + 1].name = s.member
  <1>1. \A n \in DOMAIN class_name_to_id_ : /\ class_name_to_id_[n] \in 0 .. Len(classes_) - 1
                                            /\ classes_[class_name_to_id_[n] + 1].name = n
    BY DEF Ind, IInv, AsmTypeOK, ClassNames
  <1>2. CASE s.op = "LDA_STR"
    <2>1. o \in {StringId(s.name)} \X {0}
      BY <1>2 DEF Operands, IsCall
    <2>2. QED
      BY <2>1, <1>2
  <1>3. CASE s.op = "OBJ_NEW"
    <2>1. o \in Lookup(class_name_to_id_, s.name) \X {0}
      BY <1>3 DEF Operands, IsCall
    <2>2. s.name \in DOMAIN class_name_to_id_ /\ o[1] = class_name_to_id_[s.name]
      BY <2>1 DEF Lookup
    <2>3. QED
      BY <2>2, <1>1, <1>3
  <1>4. CASE s.op = "LDFIELD"
    <2>1. PICK id \in Lookup(class_name_to_id_, s.name) :
            o \in {id} \X parseClassFieldId(id, s.member)
      BY <1>4 DEF Operands, IsCall
    <2>2. s.name \in DOMAIN class_name_to_id_ /\ id = class_name_to_id_[s.name]
      BY <2>1 DEF Lookup
    <2>3. o[1] = id /\ o[2] \in parseClassFieldId(id, s.member)
      BY <2>1
    <2>4. QED
      BY <2>2, <2>3, <1>1, <1>4, FieldOperand
  <1>5. QED
    BY <1>2, <1>3, <1>4

LEMMA SymbolsStep ==
  ASSUME Ind, ClassNames, SymbolsEncoded, [AsmNext]_asmVars
  PROVE  SymbolsEncoded'
  <1>1. Grows
    BY StepGrows
  <1>2. /\ Len(classes_) \in Nat /\ Len(classes_') \in Nat /\ Len(classes_) <= Len(classes_')
        /\ \A k \in 1 .. Len(classes_) : classes_'[k] = classes_[k]
    BY ClassesGrow
  <1>3. \A n \in DOMAIN strings_ : n \in DOMAIN strings_' /\ strings_'[n] = strings_[n]
    BY TablesGrow DEF Insert
  <1>4. ASSUME NEW g \in DOMAIN funcs_', NEW i \in DOMAIN funcs_'[g].instrs
        PROVE  LET b == funcs_'[g].instrs[i] IN
               /\ b.op = "LDA_STR" => b.name \in DOMAIN strings_' /\ b.arg = strings_'[b.name]
               /\ b.op \in {"OBJ_NEW", "LDFIELD"} =>
                    b.arg \in 0 .. Len(classes_') - 1 /\ classes_'[b.arg + 1].name = b.name
               /\ b.op = "LDFIELD" =>
                    /\ b.field + 1 \in DOMAIN classes_'[b.arg + 1].fields
                    /\ classes_'[b.arg + 1].fields[b.field + 1].name = b.member
    <2> PICK r : r = funcs_'[g].instrs[i]
      OBVIOUS
    <2>1. \A x \in 0 .. Len(classes_) - 1 :
            x \in 0 .. Len(classes_') - 1 /\ classes_'[x + 1] = classes_[x + 1]
      BY <1>2
    <2>2. CASE Kept(g, i)
      <3> PICK b : b = funcs_[g].instrs[i]
        OBVIOUS
      <3>1. /\ g \in DOMAIN funcs_ /\ i \in DOMAIN funcs_[g].instrs
            /\ r.op = b.op /\ r.name = b.name /\ r.member = b.member /\ r.field = b.field
            /\ ~IsJump(b.op) => r.arg = b.arg
        BY <2>2 DEF Kept
      <3>2. /\ b.op = "LDA_STR" => b.name \in DOMAIN strings_ /\ b.arg = strings_[b.name]
            /\ b.op \in {"OBJ_NEW", "LDFIELD"} =>
                 b.arg \in 0 .. Len(classes_) - 1 /\ classes_[b.arg + 1].name = b.name
            /\ b.op = "LDFIELD" =>
                 /\ b.field + 1 \in DOMAIN classes_[b.arg + 1].fields
                 /\ classes_[b.arg + 1].fields[b.field + 1].name = b.member
        BY <3>1 DEF SymbolsEncoded
      <3>3. b.op \in {"LDA_STR", "OBJ_NEW", "LDFIELD"} => r.arg = b.arg
        BY <3>1 DEF IsJump
      <3>4. QED
        BY <3>1, <3>2, <3>3, <2>1, <1>3
    <2>3. CASE Added(g, i)
      <3>1. PICK s \in Statement : \E o \in Operands(s) :
              /\ r.op = s.op /\ r.name = s.name /\ r.member = s.member
              /\ r.arg = o[1] /\ r.field = o[2]
              /\ strings_' = IF s.op = "LDA_STR"
                             THEN Insert(strings_, s.name, StringId(s.name)) ELSE strings_
        BY <2>3, AddedFacts
      <3>2. PICK o \in Operands(s) :
              /\ r.op = s.op /\ r.name = s.name /\ r.member = s.member
              /\ r.arg = o[1] /\ r.field = o[2]
              /\ strings_' = IF s.op = "LDA_STR"
                             THEN Insert(strings_, s.name, StringId(s.name)) ELSE strings_
        BY <3>1
      <3>3. s.op = "LDA_STR" => s.name \in DOMAIN strings_' /\ strings_'[s.name] = StringId(s.name)
        BY <3>2 DEF Insert, StringId
      <3>4. /\ s.op = "LDA_STR" => o[1] = StringId(s.name)
            /\ s.op \in {"OBJ_NEW", "LDFIELD"} =>
                 o[1] \in 0 .. Len(classes_) - 1 /\ classes_[o[1] + 1].name = s.name
            /\ s.op = "LDFIELD" => /\ o[2] + 1 \in DOMAIN classes_[o[1] + 1].fields
                                   /\ classes_[o[1] + 1].fields[o[2] + 1].name = s.member
        BY OperandSymbols
      <3>5. QED
        BY <3>2, <3>3, <3>4, <2>1
    <2>4. QED
      BY <2>2, <2>3, <1>1 DEF Grows
  <1>5. QED
    BY <1>4 DEF SymbolsEncoded

\* The next id is free, as long as the ids suffice.
LEMMA StringsStep ==
  ASSUME Ind, FewStrings, StringsFromSource, StringIds, [AsmNext]_asmVars
  PROVE  StringIds'
  <1>1. /\ IsFiniteSet(DOMAIN strings_) /\ Cardinality(DOMAIN strings_) \in Nat
        /\ IsFiniteSet(SourceStrings) /\ Cardinality(SourceStrings) \in Nat
    <2>1. IsFiniteSet(DOMAIN strings_)
      BY DEF Ind, IInv, AsmTypeOK
    <2>2. QED
      BY <2>1, FS_CardinalityType DEF FewStrings
  <1>2. CASE UNCHANGED strings_
    BY <1>2 DEF StringIds
  <1>3. ASSUME NEW str \in SourceStrings, strings_' = Insert(strings_, str, StringId(str))
        PROVE  StringIds'
    <2>1. CASE str \in DOMAIN strings_
      <3>1. strings_' = [n \in DOMAIN strings_ |-> strings_[n]]
        BY <2>1, <1>3 DEF Insert
      <3>2. DOMAIN strings_' = DOMAIN strings_ /\ \A n \in DOMAIN strings_ : strings_'[n] = strings_[n]
        BY <3>1
      <3>3. QED
        BY <3>2 DEF StringIds
    <2>2. CASE str \notin DOMAIN strings_
      <3> PICK n : n = Cardinality(DOMAIN strings_)
        OBVIOUS
      <3>1. DOMAIN strings_' = DOMAIN strings_ \cup {str}
        BY <1>3 DEF Insert
      <3>2. DOMAIN strings_' \subseteq SourceStrings
        BY <3>1 DEF StringsFromSource
      <3>3. Cardinality(DOMAIN strings_') = n + 1
        BY <3>1, <2>2, <1>1, FS_AddElement
      <3>4. n + 1 <= Cardinality(SourceStrings)
        BY <3>2, <3>3, <1>1, FS_Subset
      <3>5. n \in Nat /\ n < NumStrIds
        BY <3>4, <1>1 DEF FewStrings, NumStrIds
      <3>6. n % NumStrIds = n
        BY <3>5 DEF NumStrIds
      <3>7. /\ strings_'[str] = n
            /\ \A m \in DOMAIN strings_ : strings_'[m] = strings_[m]
        BY <3>6, <2>2, <1>3 DEF Insert, StringId
      <3>8. \A m \in DOMAIN strings_ : strings_[m] \in Nat /\ strings_[m] < n
        BY DEF StringIds, Ind, IInv, AsmTypeOK
      <3>9. \A m \in DOMAIN strings_' : strings_'[m] < n + 1
        BY <3>1, <3>5, <3>7, <3>8
      <3>10. \A m, k \in DOMAIN strings_' : strings_'[m] = strings_'[k] => m = k
        BY <3>1, <3>5, <3>7, <3>8 DEF StringIds
      <3>11. QED
        BY <3>3, <3>9, <3>10 DEF StringIds
    <2>3. QED
      BY <2>1, <2>2
  <1>4. QED
    BY <1>2, <1>3, TablesGrow

LEMMA SourceStringsStep ==
  ASSUME Ind, StringsFromSource, [AsmNext]_asmVars
  PROVE  StringsFromSource'
  BY TablesGrow DEF StringsFromSource, Insert

LEMMA SymbolsInit ==
  AsmInit => ClassNames /\ SymbolsEncoded /\ StringsFromSource /\ StringIds
  <1> SUFFICES ASSUME AsmInit
               PROVE  ClassNames /\ SymbolsEncoded /\ StringsFromSource /\ StringIds
    OBVIOUS
  <1>1. DOMAIN class_name_to_id_ = {} /\ DOMAIN strings_ = {} /\ DOMAIN funcs_ = {}
    BY DEF AsmInit, NoNames
  <1>2. QED
    BY <1>1 DEF ClassNames, SymbolsEncoded, StringsFromSource, StringIds

-----------------------------------------------------------------------------
(***************************************************************************)
(* What is written.                                                        *)
(***************************************************************************)
LEMMA CodeInit == AsmInit => CodeFromSource /\ TablesWritten
  BY DEF AsmInit, CodeFromSource, TablesWritten

\* Writing starts with the code empty and the first function at its end.
LEMMA CodeResolve ==
  ASSUME Ind, resloveJumps
  PROVE  CodeFromSource' /\ TablesWritten'
  <1>1. Ind' /\ Grows
    <2>1. [AsmNext]_asmVars
      BY DEF AsmNext
    <2>2. QED
      BY <2>1, StepInd, StepGrows
  <1>2. phase = "resolve" /\ phase' = "write" /\ out' = out /\ cursor' = cursor
    BY DEF resloveJumps
  <1>3. cursor = <<1, 1>> /\ out = NoFile
    BY <1>2 DEF Ind, IInv, CodeWritten
  <1>4. DOMAIN out'.Code.at = {} /\ out'.Code.size = 0
    BY <1>2, <1>3 DEF NoFile, NoNames
  <1>5. ASSUME NEW g \in DOMAIN funcs_', g <= cursor'[1] PROVE funcs_'[g].offset = 0
    <2>1. g = 1
      BY <1>1, <1>2, <1>3, <1>5 DEF Grows
    <2>2. funcs_' # <<>> /\ g \in DOMAIN funcs_'
      BY <1>1, <2>1 DEF Grows
    <2>3. QED
      BY <1>1, <2>1, <2>2 DEF Ind, IInv, Layout
  <1>6. QED
    BY <1>2, <1>4, <1>5 DEF CodeFromSource, TablesWritten, Places

LEMMA CodeStep ==
  ASSUME Ind, CodeFromSource, writeCode
  PROVE  CodeFromSource'
  <1>1. Ind'
    <2>1. [AsmNext]_asmVars
      BY DEF AsmNext
    <2>2. QED
      BY <2>1, StepInd
  <1>2. /\ funcs_ \in Seq(FuncRec) /\ Len(funcs_) \in Nat /\ DOMAIN funcs_ = 1 .. Len(funcs_)
    BY FuncTypes
  <1>3. /\ phase = "write" /\ phase' = "write" /\ cursor[1] \in DOMAIN funcs_
        /\ funcs_' = funcs_ /\ curr_offset_' = curr_offset_
    BY DEF writeCode
  <1>4. PICK g \in DOMAIN funcs_ : g = cursor[1]
    BY <1>3
  <1>5. FileShape /\ out.Code.size = Position(g, cursor[2])
    BY <1>3, <1>4 DEF Ind, Shape, IInv, CodeWritten
  <1>6. CASE cursor[2] \in DOMAIN funcs_[g].instrs
    <2>1. PICK b : b = funcs_[g].instrs[cursor[2]]
      OBVIOUS
    <2>2. /\ out'.Code = writeBytes(out.Code, b)
          /\ cursor' = <<g, cursor[2] + 1>>
      BY <1>4, <1>5, <1>6, <2>1 DEF writeCode, FileShape
    <2>3. out.Code.size = b.at
      BY <1>5, <1>6, <2>1 DEF Position
    <2>4. /\ DOMAIN out'.Code.at = DOMAIN out.Code.at \cup {b.at}
          /\ \A o \in DOMAIN out.Code.at : out'.Code.at[o] = out.Code.at[o]
          /\ b.at \notin DOMAIN out.Code.at => out'.Code.at[b.at] = b
      <3>1. out'.Code.at = Insert(out.Code.at, b.at, b)
        BY <2>2, <2>3 DEF writeBytes
      <3>2. QED
        BY <3>1 DEF Insert
    <2>5. \A o \in DOMAIN out'.Code.at :
            \E h \in DOMAIN funcs_ : \E i \in DOMAIN funcs_[h].instrs :
              out'.Code.at[o] = funcs_[h].instrs[i] /\ funcs_[h].instrs[i].at = o
      BY <1>3, <1>6, <2>1, <2>4 DEF CodeFromSource
    <2>6. Places \subseteq DOMAIN out'.Code.at
      BY <2>3, <2>4 DEF Places
    <2>7. QED
      BY <1>3, <1>4, <2>2, <2>5, <2>6 DEF CodeFromSource, Places
  <1>7. CASE cursor[2] \notin DOMAIN funcs_[g].instrs
    <2>1. out' = out /\ cursor' = <<g + 1, 1>>
      BY <1>4, <1>7 DEF writeCode
    <2>2. out.Code.size = EndOf(g)
      BY <1>5, <1>7 DEF Position
    <2>3. g + 1 \in DOMAIN funcs_ => EndOf(g) = funcs_[g + 1].offset
      BY <1>2 DEF EndOf
    <2>4. ASSUME NEW h \in DOMAIN funcs_, h <= g + 1 PROVE funcs_[h].offset \in Places
      <3>1. CASE h <= g
        BY <3>1, <1>3, <1>4 DEF CodeFromSource
      <3>2. CASE h = g + 1
        BY <3>2, <2>2, <2>3 DEF Places
      <3>3. QED
        BY <3>1, <3>2, <2>4, <1>2
    <2>5. QED
      BY <1>3, <2>1, <2>4 DEF CodeFromSource, Places
  <1>8. QED
    BY <1>6, <1>7

LEMMA TablesStep ==
  ASSUME Ind, CodeFromSource, writeTables
  PROVE  CodeFromSource' /\ TablesWritten'
  <1>1. /\ phase = "write" /\ phase' = "written"
        /\ UNCHANGED <<curr_offset_, funcs_, classes_, func_name_to_id_, strings_,
                       class_name_to_id_, cursor>>
    BY DEF writeTables, names
  <1>2. FileShape
    BY DEF Ind, Shape
  <1>3. PICK order \in Orders(DOMAIN strings_) :
          out' = [out EXCEPT
                    !.Strings   = [i \in DOMAIN order |->
                                     [id |-> strings_[order[i]], str |-> order[i]]],
                    !.Functions = [g \in DOMAIN funcs_ |-> FileFunction(funcs_[g])],
                    !.Classes   = [c \in DOMAIN classes_ |-> FileClass(classes_[c])]]
    BY DEF writeTables
  <1>4. /\ out'.Code = out.Code
        /\ out'.Functions = [g \in DOMAIN funcs_ |-> FileFunction(funcs_[g])]
        /\ out'.Classes = [c \in DOMAIN classes_ |-> FileClass(classes_[c])]
        /\ out'.Strings = [i \in DOMAIN order |->
                             [id |-> strings_[order[i]], str |-> order[i]]]
    BY <1>2, <1>3 DEF FileShape
  <1>5. CodeFromSource'
    BY <1>1, <1>4 DEF CodeFromSource, Places
  <1>6. /\ \A f : FileFunction(f)' = FileFunction(f)
        /\ \A c : FileClass(c)' = FileClass(c)
    BY <1>1 DEF FileFunction, FileClass
  <1>7. TablesWritten'
    BY <1>1, <1>4, <1>6 DEF TablesWritten
  <1>8. QED
    BY <1>5, <1>7

LEMMA WrittenStep ==
  ASSUME Ind, CodeFromSource, TablesWritten, [AsmNext]_asmVars
  PROVE  CodeFromSource' /\ TablesWritten'
  <1>1. CASE resloveJumps
    BY <1>1, CodeResolve
  <1>2. CASE writeCode
    BY <1>2, CodeStep DEF writeCode, TablesWritten
  <1>3. CASE writeTables
    BY <1>3, TablesStep
  <1>4. CASE UNCHANGED asmVars
    <2>1. UNCHANGED <<phase, curr_offset_, funcs_, classes_, func_name_to_id_, strings_,
                      class_name_to_id_, cursor, out>>
      BY <1>4 DEF asmVars, names
    <2>2. /\ \A f : FileFunction(f)' = FileFunction(f)
          /\ \A c : FileClass(c)' = FileClass(c)
      BY <2>1 DEF FileFunction, FileClass
    <2>3. CodeFromSource'
      BY <2>1 DEF CodeFromSource, Places
    <2>4. TablesWritten'
      BY <2>1, <2>2 DEF TablesWritten
    <2>5. QED
      BY <2>3, <2>4
  <1>5. CASE phase' \notin {"write", "written"}
    BY <1>5 DEF CodeFromSource, TablesWritten
  <1>6. AsmNext => \/ resloveJumps \/ writeCode \/ writeTables
                   \/ phase' \notin {"write", "written"}
    BY DEF AsmNext, parseFuncDecl, TooManyArgs, parseClass, UnknownType, addLexedLabel,
           LabelRedeclared, parseInstr, UnknownOperand, parseString, EndOfInput,
           EndAfterClass, UnresolvedLabel, parseError
  <1>7. QED
    BY <1>1, <1>2, <1>3, <1>4, <1>5, <1>6

\* Nothing happens to a finished file.
LEMMA WrittenIsFinal == phase = "written" /\ [AsmNext]_asmVars => UNCHANGED asmVars
  BY DEF AsmNext, parseFuncDecl, TooManyArgs, parseClass, UnknownType, AtDeclaration,
         addLexedLabel, LabelRedeclared, parseInstr, UnknownOperand, parseString,
         EndOfInput, EndAfterClass, resloveJumps, UnresolvedLabel, writeCode, writeTables

-----------------------------------------------------------------------------
(***************************************************************************)
(* The tables and the code of a finished file.                             *)
(***************************************************************************)
\* In ById the first entry with an id stands for it.
LEMMA FirstById ==
  ASSUME NEW seq, NEW n \in Nat, DOMAIN seq = 1 .. n,
         NEW i \in 1 .. n, \A j \in 1 .. i - 1 : seq[j].id # seq[i].id
  PROVE  seq[i].id \in DOMAIN ById(seq) /\ ById(seq)[seq[i].id] = seq[i]
  <1> DEFINE First(k) == seq[k].id = seq[i].id /\ \A j \in 1 .. k - 1 : seq[j].id # seq[i].id
             k == CHOOSE k \in DOMAIN seq : First(k)
  <1>1. First(i) /\ i \in DOMAIN seq
    OBVIOUS
  <1>2. k \in DOMAIN seq /\ First(k)
    BY <1>1
  <1>3. k = i
    <2>1. k \in 1 .. i - 1 => FALSE
      BY <1>1, <1>2
    <2>2. i \in 1 .. k - 1 => FALSE
      BY <1>1, <1>2
    <2> HIDE DEF k
    <2>3. QED
      BY <2>1, <2>2, <1>2
  <1>4. seq[i].id \in DOMAIN ById(seq)
    BY DEF ById
  <1>5. ById(seq)[seq[i].id] = seq[k]
    BY <1>4 DEF ById
  <1>6. QED
    BY <1>3, <1>4, <1>5

\* The machine finds a function under its id, and under every id a function.
LEMMA FuncsById ==
  ASSUME Ind, TablesWritten, phase = "written"
  PROVE  LET t == ById(out.Functions)
         IN  /\ \A id \in DOMAIN t : /\ id \in 0 .. Len(funcs_) - 1
                                     /\ t[id] = FileFunction(funcs_[id + 1])
             /\ \A n \in DOMAIN func_name_to_id_ : func_name_to_id_[n] \in DOMAIN t
  <1> DEFINE seq == out.Functions
  <1>1. Len(funcs_) \in Nat /\ DOMAIN funcs_ = 1 .. Len(funcs_)
    BY FuncTypes
  <1>2. /\ DOMAIN seq = 1 .. Len(funcs_)
        /\ \A g \in DOMAIN funcs_ : seq[g] = FileFunction(funcs_[g])
    BY <1>1 DEF TablesWritten
  <1>3. \A g \in DOMAIN funcs_ : seq[g].id = func_name_to_id_[funcs_[g].name]
    <2>1. ASSUME NEW g \in DOMAIN funcs_
          PROVE  seq[g].id = func_name_to_id_[funcs_[g].name]
      <3>1. FileFunction(funcs_[g]).id = func_name_to_id_[funcs_[g].name]
        BY DEF FileFunction
      <3>2. QED
        BY <3>1, <1>2
    <2> HIDE DEF seq
    <2>2. QED
      BY <2>1
  <1>4. /\ \A n \in DOMAIN func_name_to_id_ : /\ func_name_to_id_[n] \in 0 .. Len(funcs_) - 1
                                              /\ IsFirst(n, func_name_to_id_[n])
        /\ \A g \in DOMAIN funcs_ : funcs_[g].name \in DOMAIN func_name_to_id_
    BY DEF Ind, IInv, AsmTypeOK, FuncNames
  <1> HIDE DEF seq
  <1>5. ASSUME NEW n \in DOMAIN func_name_to_id_
        PROVE  LET id == func_name_to_id_[n]
               IN  id \in DOMAIN ById(seq) /\ ById(seq)[id] = FileFunction(funcs_[id + 1])
    <2> DEFINE id == func_name_to_id_[n]
    <2>1. id \in 0 .. Len(funcs_) - 1 /\ IsFirst(n, id)
      BY <1>4
    <2>2. id + 1 \in 1 .. Len(funcs_) /\ id + 1 \in DOMAIN funcs_ /\ funcs_[id + 1].name = n
      BY <2>1, <1>1 DEF IsFirst
    <2>3. seq[id + 1].id = id
      BY <2>2, <1>3
    <2>4. ASSUME NEW j \in 1 .. id + 1 - 1, seq[j].id = seq[id + 1].id PROVE FALSE
      <3>1. j \in DOMAIN funcs_ /\ j \in 1 .. id
        BY <2>1, <1>1
      <3>2. func_name_to_id_[funcs_[j].name] = id
        BY <2>3, <2>4, <3>1, <1>3
      <3>3. IsFirst(funcs_[j].name, id)
        BY <3>1, <3>2, <1>4
      <3>4. QED
        BY <3>1, <3>3, <2>1 DEF IsFirst
    <2>5. seq[id + 1].id \in DOMAIN ById(seq) /\ ById(seq)[seq[id + 1].id] = seq[id + 1]
      <3>1. PICK k \in 1 .. Len(funcs_) : k = id + 1
        BY <2>2
      <3>2. \A j \in 1 .. k - 1 : seq[j].id # seq[k].id
        <4>1. ASSUME NEW j \in 1 .. k - 1 PROVE seq[j].id # seq[k].id
          <5>1. j \in 1 .. id + 1 - 1
            BY <3>1, <2>1, <1>1
          <5>2. QED
            BY <5>1, <3>1, <2>4
        <4>2. QED
          BY <4>1
      <3>3. seq[k].id \in DOMAIN ById(seq) /\ ById(seq)[seq[k].id] = seq[k]
        BY <3>2, <1>1, <1>2, FirstById
      <3>4. QED
        BY <3>1, <3>3
    <2>6. QED
      BY <2>2, <2>3, <2>5, <1>2
  <1>6. ASSUME NEW id \in DOMAIN ById(seq)
        PROVE  id \in 0 .. Len(funcs_) - 1 /\ ById(seq)[id] = FileFunction(funcs_[id + 1])
    <2>1. PICK g \in DOMAIN seq : id = seq[g].id
      BY DEF ById
    <2>2. g \in DOMAIN funcs_
      BY <2>1, <1>1, <1>2
    <2>3. id = func_name_to_id_[funcs_[g].name]
      BY <2>1, <2>2, <1>3
    <2>4. QED
      BY <2>2, <2>3, <1>4, <1>5
  <1>7. QED
    BY <1>4, <1>5, <1>6 DEF seq

\* With enough ids the machine finds each string under its id.
LEMMA StringsById ==
  ASSUME Ind, TablesWritten, StringIds, phase = "written", NEW n \in DOMAIN strings_
  PROVE  LET t == ById(out.Strings)
         IN  strings_[n] \in DOMAIN t /\ t[strings_[n]].str = n
  <1> DEFINE S == DOMAIN strings_
  <1> PICK c : c = Cardinality(S)
    OBVIOUS
  <1>1. IsFiniteSet(S) /\ c \in Nat
    BY FS_CardinalityType DEF Ind, IInv, AsmTypeOK
  <1>2. PICK order \in Orders(S) :
          out.Strings = [i \in DOMAIN order |-> [id |-> strings_[order[i]], str |-> order[i]]]
    BY DEF TablesWritten
  <1>3. /\ order \in [1 .. c -> S] /\ DOMAIN order = 1 .. c
        /\ \A i, j \in 1 .. c : i # j => order[i] # order[j]
    BY <1>2 DEF Orders
  <1>4. PICK i \in 1 .. c : order[i] = n
    <2>1. order \in Injection(1 .. c, S)
      BY <1>3 DEF Injection, IsInjective
    <2>2. Cardinality(1 .. c) = c
      BY <1>1, FS_Interval
    <2>3. order \in Surjection(1 .. c, S)
      BY <2>1, <2>2, <1>1, FS_Injection
    <2>4. QED
      BY <2>3 DEF Surjection
  <1> PICK seq : seq = out.Strings
    OBVIOUS
  <1>5. /\ DOMAIN seq = 1 .. c
        /\ \A k \in 1 .. c : seq[k].id = strings_[order[k]] /\ seq[k].str = order[k]
    BY <1>2, <1>3
  <1>6. \A j \in 1 .. i - 1 : seq[j].id # seq[i].id
    <2>1. ASSUME NEW j \in 1 .. i - 1 PROVE seq[j].id # seq[i].id
      <3>1. j \in 1 .. c /\ j # i
        BY <1>1
      <3>2. order[j] # order[i] /\ order[j] \in S /\ order[i] \in S
        BY <3>1, <1>3
      <3>3. strings_[order[j]] # strings_[order[i]]
        BY <3>2 DEF StringIds
      <3>4. QED
        BY <3>1, <3>3, <1>5
    <2>2. QED
      BY <2>1
  <1>7. seq[i].id \in DOMAIN ById(seq) /\ ById(seq)[seq[i].id] = seq[i]
    <2>1. DOMAIN seq = 1 .. c
      BY <1>5
    <2>2. QED
      BY ONLY <1>1, <2>1, <1>6, i \in 1 .. c, FirstById
  <1>8. QED
    BY <1>4, <1>5, <1>7

\* A finished file has every instruction of the source at its offset, and
\* the positions of the source are places of the code.
LEMMA WholeCode ==
  ASSUME Ind, CodeFromSource, phase = "written"
  PROVE  /\ Places \subseteq Nat
         /\ \A g \in DOMAIN funcs_ :
              /\ funcs_[g].offset \in Places
              /\ \A i \in DOMAIN funcs_[g].instrs :
                   LET b == funcs_[g].instrs[i]
                   IN  /\ b \in Instr
                       /\ b.at \in DOMAIN out.Code.at /\ out.Code.at[b.at] = b
                       /\ After(b) \in Places
                       /\ i + 1 \in DOMAIN funcs_[g].instrs =>
                            After(b) = funcs_[g].instrs[i + 1].at
              /\ \A k \in 1 .. Len(funcs_[g].instrs) + 1 : Position(g, k) \in Places
  <1>1. Len(funcs_) \in Nat /\ DOMAIN funcs_ = 1 .. Len(funcs_)
    BY FuncTypes
  <1>2. FileShape
    BY DEF Ind, Shape
  <1>3. Places \subseteq Nat
    BY <1>2 DEF FileShape, Places
  <1>4. /\ cursor[1] \in 1 .. Len(funcs_) + 1 /\ cursor[1] \notin DOMAIN funcs_
        /\ out.Code.size = curr_offset_
    BY DEF Ind, IInv, CodeWritten
  <1>5. cursor[1] = Len(funcs_) + 1
    BY <1>1, <1>4
  <1>6. \A g \in DOMAIN funcs_ : funcs_[g].offset \in Places
    BY <1>1, <1>5 DEF CodeFromSource
  <1>7. \A g \in DOMAIN funcs_ : EndOf(g) \in Places
    <2>1. ASSUME NEW g \in DOMAIN funcs_ PROVE EndOf(g) \in Places
      <3>1. CASE g = Len(funcs_)
        BY <3>1, <1>4 DEF EndOf, Places
      <3>2. CASE g # Len(funcs_)
        <4>1. g + 1 \in DOMAIN funcs_
          BY <3>2, <1>1
        <4>2. QED
          BY <4>1, <3>2, <1>6 DEF EndOf
      <3>3. QED
        BY <3>1, <3>2
    <2>2. QED
      BY <2>1
  <1>8. ASSUME NEW g \in DOMAIN funcs_, NEW i \in DOMAIN funcs_[g].instrs
        PROVE  LET b == funcs_[g].instrs[i]
               IN  b.at \in DOMAIN out.Code.at /\ out.Code.at[b.at] = b
    <2>1. g < cursor[1]
      BY <1>1, <1>5
    <2>2. QED
      BY <2>1 DEF Ind, IInv, CodeWritten, IsWritten
  <1>9. \A g \in DOMAIN funcs_ : \A k : Position(g, k) \in Places
    BY <1>7, <1>8 DEF Position, Places
  <1>10. ASSUME NEW g \in DOMAIN funcs_, NEW i \in DOMAIN funcs_[g].instrs
         PROVE  LET b == funcs_[g].instrs[i]
                IN  /\ b \in Instr
                    /\ After(b) = Position(g, i + 1)
                    /\ i + 1 \in DOMAIN funcs_[g].instrs =>
                         After(b) = funcs_[g].instrs[i + 1].at
    <2>1. funcs_[g].instrs[i] \in Instr
      BY FuncShape
    <2>2. FuncLayout(g)
      BY DEF Ind, IInv, Layout
    <2>3. Position(g, i + 1) = After(funcs_[g].instrs[i])
      BY <2>2 DEF FuncLayout
    <2>4. QED
      BY <2>1, <2>3 DEF Position
  <1>11. QED
    BY <1>3, <1>6, <1>8, <1>9, <1>10

\* Where a jump of a finished file goes.
LEMMA JumpTarget ==
  ASSUME Ind, CodeFromSource, phase = "written",
         NEW g \in DOMAIN funcs_, NEW i \in Jumps(funcs_[g])
  PROVE  LET b == funcs_[g].instrs[i]
             k == funcs_[g].marks[b.name]
         IN  /\ b.name \in DOMAIN funcs_[g].marks
             /\ b.at + b.arg = Position(g, k) /\ b.at + b.arg \in Places
  <1>1. /\ funcs_[g].instrs[i].name \in DOMAIN funcs_[g].labels
        /\ funcs_[g].instrs[i].at + funcs_[g].instrs[i].arg
             = funcs_[g].labels[funcs_[g].instrs[i].name]
    BY DEF Ind, IInv, JumpsResolved
  <1>2. FuncLayout(g) /\ DOMAIN funcs_[g].labels = DOMAIN funcs_[g].marks
    BY DEF Ind, IInv, Layout, AsmTypeOK
  <1>3. PICK k : k = funcs_[g].marks[funcs_[g].instrs[i].name]
    OBVIOUS
  <1>4. k \in 1 .. Len(funcs_[g].instrs) + 1
        /\ funcs_[g].labels[funcs_[g].instrs[i].name] = Position(g, k)
    BY <1>1, <1>2, <1>3 DEF FuncLayout
  <1>5. Position(g, k) \in Places
    BY <1>4, WholeCode
  <1>6. QED
    BY <1>1, <1>2, <1>3, <1>4, <1>5

\* What a call of a finished file finds.
LEMMA CallTarget ==
  ASSUME Ind, TablesWritten, phase = "written",
         NEW g \in DOMAIN funcs_, NEW i \in DOMAIN funcs_[g].instrs,
         IsCall(funcs_[g].instrs[i].op)
  PROVE  LET b == funcs_[g].instrs[i]
             t == ById(out.Functions)
         IN  /\ b.arg \in 0 .. Len(funcs_) - 1 /\ b.arg \in DOMAIN t
             /\ t[b.arg] = FileFunction(funcs_[b.arg + 1])
             /\ funcs_[b.arg + 1].name = b.name
  <1> DEFINE b == funcs_[g].instrs[i]
  <1>1. Len(funcs_) \in Nat /\ DOMAIN funcs_ = 1 .. Len(funcs_)
    BY FuncTypes
  <1>2. CallDefined(g, i)
    BY DEF Ind, IInv, CallsDefined
  <1>3. /\ b.arg \in 0 .. Len(funcs_) - 1
        /\ funcs_[b.arg + 1].name = b.name
        /\ \A h \in 1 .. b.arg : funcs_[h].name # b.name
    BY <1>1, <1>2 DEF CallDefined
  <1>4. b.name \in DOMAIN func_name_to_id_
    <2>1. b.arg + 1 \in DOMAIN funcs_
      BY <1>1, <1>3
    <2>2. QED
      BY <2>1, <1>3 DEF Ind, IInv, FuncNames
  <1> PICK id : id = func_name_to_id_[b.name]
    OBVIOUS
  <1>5. id \in 0 .. Len(funcs_) - 1 /\ IsFirst(b.name, id)
    BY <1>4 DEF Ind, IInv, AsmTypeOK, FuncNames
  <1>6. id = b.arg
    <2>1. id < b.arg => FALSE
      <3>1. id < b.arg => id + 1 \in 1 .. b.arg
        BY <1>3, <1>5
      <3>2. QED
        BY <3>1, <1>3, <1>5 DEF IsFirst
    <2>2. b.arg < id => FALSE
      <3>1. b.arg < id => b.arg + 1 \in 1 .. id
        BY <1>3, <1>5
      <3>2. QED
        BY <3>1, <1>3, <1>5 DEF IsFirst
    <2>3. QED
      BY <2>1, <2>2, <1>1, <1>3, <1>5
  <1>7. QED
    BY <1>3, <1>4, <1>6, FuncsById

-----------------------------------------------------------------------------
(***************************************************************************)
(* The inductive invariant of the whole: ToolchainInv and the shapes of    *)
(* the assembler's tables.                                                 *)
(***************************************************************************)
Source == /\ Ind /\ Ordered /\ CodeFromSource /\ TablesWritten
          /\ ClassNames /\ SymbolsEncoded
          /\ StringsFromSource /\ (FewStrings => StringIds)

Whole == Source /\ FileRoundTrips /\ MachineLoaded /\ Frames /\ FramesInFunction

LEMMA WholeInit == Init => Whole
  <1> SUFFICES ASSUME Init PROVE Whole
    OBVIOUS
  <1>1. Source
    BY InitInd, OrderedInit, CodeInit, SymbolsInit DEF Init, Source
  <1>2. FileRoundTrips /\ MachineLoaded /\ FramesInFunction
    BY DEF Init, FileRoundTrips, MachineLoaded, Loaded, FramesInFunction
  <1>3. Frames
    <2>1. stack = <<>> /\ pc = 0 /\ status = "none"
      BY DEF Init
    <2>2. <<>> \in Seq([func : Nat, ret : Int]) /\ Len(<<>>) = 0 /\ DOMAIN <<>> = {}
      OBVIOUS
    <2>3. QED
      BY <2>1, <2>2, ToolchainAssumption DEF Frames
  <1>4. QED
    BY <1>1, <1>2, <1>3 DEF Whole

LEMMA SourceStep ==
  ASSUME Source, [AsmNext]_asmVars
  PROVE  Source'
  <1>1. Ind' /\ Ordered' /\ CodeFromSource' /\ TablesWritten'
    BY StepInd, OrderedStep, WrittenStep DEF Source
  <1>2. ClassNames' /\ SymbolsEncoded'
    BY ClassesGrow, SymbolsStep DEF Source
  <1>3. StringsFromSource' /\ (FewStrings => StringIds)'
    BY SourceStringsStep, StringsStep DEF Source, FewStrings
  <1>4. QED
    BY <1>1, <1>2, <1>3 DEF Source

LEMMA SameSource ==
  ASSUME UNCHANGED asmVars
  PROVE  /\ UNCHANGED <<phase, funcs_, out, Places, Closed>>
         /\ \A id : Instructions(id)' = Instructions(id)
  BY DEF asmVars, names, Places, Closed, Instructions

LEMMA SameFile == FileRoundTrips /\ UNCHANGED <<image, out>> => FileRoundTrips'
  <1> SUFFICES ASSUME FileRoundTrips, image' = image, out' = out
               PROVE  image' # NoImage => ReadFile(image') = out'
    BY DEF FileRoundTrips, NoImage
  <1>1. QED
    BY DEF FileRoundTrips

\* A finished file is one that reads back as it was written.
LEMMA FileWellFormed ==
  ASSUME Source, phase = "written"
  PROVE  WellFormed(out)
  <1>1. FileShape /\ CodeWritten /\ TablesWritten
    BY DEF Source, Ind, Shape, IInv
  <1>2. \A t \in FileNames : IsText(t)
    BY ToolchainAssumption DEF IsText
  <1>3. IsSeq(out.Functions) /\ \A g \in 1 .. Len(out.Functions) : IsFunc(out.Functions[g])
    <2> PICK fs : fs = out.Functions
      OBVIOUS
    <2> PICK n \in Nat : n = Len(funcs_)
      BY FuncTypes DEF Source
    <2>1. DOMAIN funcs_ = 1 .. n
      BY FuncTypes DEF Source
    <2>2. fs = [g \in 1 .. n |-> FileFunction(funcs_[g])]
      BY <1>1, <2>1 DEF TablesWritten
    <2>3. fs = [g \in 1 .. n |-> fs[g]]
      BY <2>2
    <2>4. IsSeq(fs) /\ Len(fs) = n
      BY <2>3, MadeSeq
    <2>5. ASSUME NEW g \in 1 .. n PROVE IsFunc(fs[g])
      <3>1. funcs_[g] \in FuncRec
        BY <2>1, FuncShape DEF Source
      <3>2. funcs_[g].name \in FileNames
        BY <3>1 DEF FuncRec, FileNames
      <3>3. fs[g] = FileFunction(funcs_[g])
        BY <2>2
      <3>4. QED
        BY <3>2, <3>3, <1>2 DEF IsFunc, FileFunction
    <2>6. QED
      BY <2>4, <2>5
  <1>4. IsSeq(out.Classes) /\ \A c \in 1 .. Len(out.Classes) : IsClass(out.Classes[c])
    <2> PICK cs : cs = out.Classes
      OBVIOUS
    <2>1. classes_ \in Seq(ClassRec)
      BY DEF Source, Ind, Shape
    <2> PICK n \in Nat : n = Len(classes_)
      BY <2>1
    <2>2. DOMAIN classes_ = 1 .. n /\ \A c \in 1 .. n : classes_[c] \in ClassRec
      BY <2>1
    <2>3. cs = [c \in 1 .. n |-> FileClass(classes_[c])]
      BY <1>1, <2>2 DEF TablesWritten
    <2>4. cs = [c \in 1 .. n |-> cs[c]]
      BY <2>3
    <2>5. IsSeq(cs) /\ Len(cs) = n
      BY <2>4, MadeSeq
    <2>6. ASSUME NEW c \in 1 .. n PROVE IsClass(cs[c])
      <3> PICK d : d = classes_[c]
        OBVIOUS
      <3>1. /\ d.name \in FileNames /\ d.fields \in Seq(FieldRec)
        BY <2>2 DEF ClassRec, FileNames
      <3> PICK k \in Nat : k = Len(d.fields)
        BY <3>1
      <3>2. DOMAIN d.fields = 1 .. k /\ \A i \in 1 .. k : d.fields[i] \in FieldRec
        BY <3>1
      <3>3. cs[c] = FileClass(d)
        BY <2>3
      <3> PICK fs : fs = cs[c].fields
        OBVIOUS
      <3>4. fs = [i \in 1 .. k |->
                    [ id     |-> i - 1,
                      is_ref |-> IF d.fields[i].is_ref THEN 1 ELSE 0,
                      size   |-> d.fields[i].size,
                      offset |-> d.fields[i].offset,
                      name   |-> d.fields[i].name ]]
        BY <3>2, <3>3 DEF FileClass
      <3>5. fs = [i \in 1 .. k |-> fs[i]]
        BY <3>4
      <3>6. IsSeq(fs) /\ Len(fs) = k
        BY <3>5, MadeSeq
      <3>7. ASSUME NEW i \in 1 .. k PROVE IsField(fs[i])
        <4>1. d.fields[i].name \in FileNames
          BY <3>2 DEF FieldRec, FieldNames, FileNames
        <4>2. fs[i] = [ id     |-> i - 1,
                        is_ref |-> IF d.fields[i].is_ref THEN 1 ELSE 0,
                        size   |-> d.fields[i].size,
                        offset |-> d.fields[i].offset,
                        name   |-> d.fields[i].name ]
          BY <3>4
        <4>3. QED
          BY <4>1, <4>2, <1>2 DEF IsField
      <3>8. /\ cs[c] = [id |-> cs[c].id, size |-> cs[c].size, name |-> cs[c].name, fields |-> fs]
            /\ cs[c].name = d.name
        BY <3>3 DEF FileClass
      <3>9. QED
        BY <3>1, <3>6, <3>7, <3>8, <1>2 DEF IsClass
    <2>7. QED
      BY <2>5, <2>6
  <1>5. IsSeq(out.Strings) /\ \A i \in 1 .. Len(out.Strings) : IsString(out.Strings[i])
    <2> DEFINE S == DOMAIN strings_
    <2> PICK ss : ss = out.Strings
      OBVIOUS
    <2> PICK n \in Nat : n = Cardinality(S)
      BY FS_CardinalityType DEF Source, Ind, IInv, AsmTypeOK
    <2>1. PICK order \in Orders(S) :
            ss = [i \in DOMAIN order |-> [id |-> strings_[order[i]], str |-> order[i]]]
      BY <1>1 DEF TablesWritten
    <2>2. DOMAIN order = 1 .. n /\ \A i \in 1 .. n : order[i] \in S
      BY <2>1 DEF Orders
    <2>3. ss = [i \in 1 .. n |-> [id |-> strings_[order[i]], str |-> order[i]]]
      BY <2>1, <2>2
    <2>4. ss = [i \in 1 .. n |-> ss[i]]
      BY <2>3
    <2>5. IsSeq(ss) /\ Len(ss) = n
      BY <2>4, MadeSeq
    <2>6. ASSUME NEW i \in 1 .. n PROVE IsString(ss[i])
      <3>1. order[i] \in FileNames
        <4>1. S \subseteq FileNames
          BY DEF Source, StringsFromSource, FileNames
        <4>2. QED
          BY <4>1, <2>2
      <3>2. ss[i] = [id |-> strings_[order[i]], str |-> order[i]]
        BY <2>3
      <3>3. QED
        BY <3>1, <3>2, <1>2 DEF IsString
    <2>7. QED
      BY <2>5, <2>6
  <1>6. out.Code.size \in Nat /\ (out.Code.size = 0 => out.Code = NoCode)
    <2>1. SUFFICES ASSUME out.Code.size = 0 PROVE out.Code = NoCode
      BY <1>1 DEF FileShape
    <2>2. DOMAIN out.Code.at = {}
      <3>1. \A o \in DOMAIN out.Code.at : o \in Nat /\ o < 0
        BY <2>1, <1>1 DEF CodeWritten, FileShape
      <3>2. QED
        BY <3>1
    <2>3. out.Code.at = [o \in {} |-> 0]
      BY <2>2, <1>1 DEF FileShape
    <2>4. QED
      BY <2>1, <2>3, <1>1 DEF FileShape, NoCode
  <1>7. out = [ Classes |-> out.Classes, Code |-> out.Code, Strings |-> out.Strings,
                Functions |-> out.Functions ]
    BY <1>1 DEF FileShape
  <1>8. QED
    BY <1>3, <1>4, <1>5, <1>6, <1>7 DEF WellFormed

\* Until the file is there the machine is empty; then the source is final.
LEMMA AssembleStep ==
  ASSUME Whole, Assemble
  PROVE  Whole'
  <1>1. Source' /\ UNCHANGED <<image, vm, pc, stack, status>>
    BY SourceStep DEF Whole, Assemble, vmVars
  <1>2. CASE image = NoImage
    <2>1. status = "none"
      BY <1>2 DEF Whole, MachineLoaded, Loaded
    <2>2. stack = <<>>
      BY <2>1 DEF Whole, Frames
    <2>3. FileRoundTrips' /\ MachineLoaded' /\ FramesInFunction'
      BY <1>1, <1>2, <2>1 DEF FileRoundTrips, MachineLoaded, Loaded, NoImage, FramesInFunction
    <2>4. Frames'
      <3>1. DOMAIN stack' = {}
        BY <1>1, <2>2
      <3>2. QED
        BY <3>1, <1>1, <2>1 DEF Whole, Frames
    <2>5. QED
      BY <1>1, <2>3, <2>4 DEF Whole
  <1>3. CASE image # NoImage
    <2>1. phase = "written"
      BY <1>3 DEF Whole, MachineLoaded
    <2>2. UNCHANGED asmVars
      BY <2>1, WrittenIsFinal DEF Assemble
    <2>3. UNCHANGED <<phase, funcs_, out, Places, Closed>>
          /\ \A id : Instructions(id)' = Instructions(id)
      BY <2>2, SameSource
    <2>4. FileRoundTrips' /\ MachineLoaded'
      <3>1. image' = image /\ vm' = vm /\ status' = status
        BY <1>1
      <3>2. QED
        BY <2>3, <3>1, SameFile DEF Whole, MachineLoaded, Loaded, NoImage
    <2>5. Frames'
      BY <1>1, <2>3 DEF Whole, Frames
    <2>6. FramesInFunction'
      BY <1>1, <2>3 DEF Whole, FramesInFunction
    <2>7. QED
      BY <1>1, <2>4, <2>5, <2>6 DEF Whole
  <1>4. QED
    BY <1>2, <1>3

\* The file is written complete.
LEMMA SerializeStep ==
  ASSUME Whole, Serialize
  PROVE  Whole'
  <1>1. UNCHANGED asmVars /\ UNCHANGED <<vm, pc, stack, status>> /\ phase = "written"
    BY DEF Serialize, vmVars
  <1>2. Source'
    BY <1>1, SourceStep DEF Whole
  <1>3. UNCHANGED <<phase, funcs_, out, Places, Closed>>
        /\ \A id : Instructions(id)' = Instructions(id)
    BY <1>1, SameSource
  <1>4. status = "none"
    BY DEF Serialize, Whole, MachineLoaded, Loaded
  <1>5. MachineLoaded' /\ FramesInFunction'
    BY <1>1, <1>3, <1>4 DEF MachineLoaded, Loaded, FramesInFunction
  <1>6. Frames'
    BY <1>1, <1>3 DEF Whole, Frames
  <1>7. FileRoundTrips'
    <2>1. WellFormed(out) /\ image' = serialize(out)
      BY <1>1, FileWellFormed DEF Whole, Serialize
    <2>2. ReadFile(image') = out'
      BY <2>1, <1>3, RoundTrip
    <2>3. QED
      BY <2>2 DEF FileRoundTrips
  <1>8. QED
    BY <1>2, <1>5, <1>6, <1>7 DEF Whole

\* The first instruction of a closed program's function is at its offset.
LEMMA FirstInstruction ==
  ASSUME Ind, Closed, NEW id \in 0 .. Len(funcs_) - 1
  PROVE  funcs_[id + 1].offset \in Instructions(id)
  <1>1. Len(funcs_) \in Nat /\ DOMAIN funcs_ = 1 .. Len(funcs_)
    BY FuncTypes
  <1>2. id + 1 \in DOMAIN funcs_
    BY <1>1
  <1>3. funcs_[id + 1].instrs \in Seq(Instr)
    BY <1>2, FuncShape
  <1>4. funcs_[id + 1].instrs # <<>>
    BY <1>2 DEF Closed
  <1>5. 1 \in DOMAIN funcs_[id + 1].instrs
    BY <1>3, <1>4
  <1>6. FuncLayout(id + 1)
    BY <1>2 DEF Ind, IInv, Layout
  <1>7. funcs_[id + 1].instrs[1].at = funcs_[id + 1].offset
    BY <1>5, <1>6 DEF FuncLayout, Position
  <1>8. QED
    BY <1>5, <1>7 DEF Instructions

LEMMA LoadStep ==
  ASSUME Whole, Load
  PROVE  Whole'
  <1>1. UNCHANGED asmVars /\ image' = image /\ status = "none" /\ image # NoImage
    BY DEF Load
  <1>2. Source' /\ phase = "written"
    BY <1>1, SourceStep DEF Whole, MachineLoaded
  <1>3. UNCHANGED <<phase, funcs_, out, Places, Closed>>
        /\ \A id : Instructions(id)' = Instructions(id)
    BY <1>1, SameSource
  <1>4. ReadFile(image) = out /\ FileRoundTrips'
    BY <1>1, <1>3, SameFile DEF Whole, FileRoundTrips
  <1> PICK t : t = ById(out.Functions)
    OBVIOUS
  <1>5. /\ vm' = [ strings |-> ById(out.Strings), funcs |-> t,
                   classes |-> out.Classes,       code  |-> out.Code ]
        /\ IF EntryIds(t) = {}
           THEN status' = "abort" /\ UNCHANGED <<pc, stack>>
           ELSE \E id \in EntryIds(t) :
                  /\ status' = "run"
                  /\ pc' = EntryPc(t[id])
                  /\ stack' = <<[func |-> id, ret |-> -1]>>
    BY <1>4 DEF Load
  <1>6. MachineLoaded'
    <2>1. status' \in {"run", "abort"}
      BY <1>5
    <2>2. (Loaded => /\ image # NoImage
                     /\ vm = [ strings |-> ById(out.Strings), funcs |-> ById(out.Functions),
                               classes |-> out.Classes,       code  |-> out.Code ])'
      BY <1>1, <1>3, <1>5 DEF NoImage, ById
    <2>3. QED
      BY <2>1, <2>2, <1>1, <1>2, <1>3 DEF MachineLoaded
  <1>7. CASE EntryIds(t) = {}
    <2>1. status' = "abort" /\ pc' = pc /\ stack' = stack
      BY <1>5, <1>7
    <2>2. Frames' /\ FramesInFunction'
      BY <2>1, <1>3 DEF Whole, Frames, FramesInFunction
    <2>3. QED
      BY <2>2, <1>2, <1>4, <1>6 DEF Whole
  <1>8. CASE EntryIds(t) # {}
    <2>1. PICK id \in EntryIds(t) :
            /\ status' = "run"
            /\ pc' = EntryPc(t[id])
            /\ stack' = <<[func |-> id, ret |-> -1]>>
      BY <1>5, <1>8
    <2>2. Len(funcs_) \in Nat /\ DOMAIN funcs_ = 1 .. Len(funcs_)
      BY FuncTypes DEF Whole, Source
    <2>3. /\ id \in 0 .. Len(funcs_) - 1 /\ id \in Nat /\ id + 1 \in DOMAIN funcs_
          /\ t[id] = FileFunction(funcs_[id + 1])
      <3>1. id \in DOMAIN t
        BY DEF EntryIds
      <3>2. id \in 0 .. Len(funcs_) - 1 /\ t[id] = FileFunction(funcs_[id + 1])
        BY <3>1, <1>2, FuncsById DEF Whole, Source
      <3>3. QED
        BY <3>2, <2>2
    <2>4. pc' = funcs_[id + 1].offset
      BY <2>1, <2>3 DEF EntryPc, FileFunction
    <2>5. pc' \in Places /\ pc' \in Nat
      BY <2>3, <2>4, <1>2, WholeCode DEF Whole, Source
    <2>6. /\ stack' \in Seq([func : Nat, ret : Int])
          /\ Len(stack') = 1 /\ DOMAIN stack' = {1}
          /\ stack'[1] = [func |-> id, ret |-> -1]
      BY <2>1, <2>3
    <2>7. Frames'
      BY <2>1, <2>5, <2>6, <1>3, ToolchainAssumption DEF Frames
    <2>8. FramesInFunction'
      <3>1. Closed => pc' \in Instructions(id)
        <4>1. SUFFICES ASSUME Closed PROVE pc' \in Instructions(id)
          OBVIOUS
        <4>2. QED
          BY <4>1, <2>3, <2>4, FirstInstruction DEF Whole, Source
      <3>2. QED
        BY <3>1, <2>3, <2>6, <1>3 DEF FramesInFunction
    <2>9. QED
      BY <2>7, <2>8, <1>2, <1>4, <1>6 DEF Whole
  <1>9. QED
    BY <1>7, <1>8

-----------------------------------------------------------------------------
(***************************************************************************)
(* The steps of execution.                                                 *)
(***************************************************************************)
\* What is fetched is an instruction of the source; in a closed program one
\* of the function on top of the stack.
LEMMA FetchedIsSource ==
  ASSUME Whole, CanFetch
  PROVE  /\ phase = "written"
         /\ \E g \in DOMAIN funcs_ : \E i \in DOMAIN funcs_[g].instrs :
              /\ Fetched = funcs_[g].instrs[i] /\ Fetched.at = pc
              /\ Closed => g = stack[Len(stack)].func + 1
  <1>1. Loaded /\ image # NoImage /\ phase = "written" /\ vm.code = out.Code
    BY DEF CanFetch, Whole, MachineLoaded, Loaded
  <1>2. pc \in DOMAIN out.Code.at /\ Fetched = out.Code.at[pc] /\ status = "run"
    BY <1>1 DEF CanFetch, Fetched
  <1>3. CASE ~Closed
    <2>1. PICK g \in DOMAIN funcs_ : \E i \in DOMAIN funcs_[g].instrs :
            out.Code.at[pc] = funcs_[g].instrs[i] /\ funcs_[g].instrs[i].at = pc
      BY <1>1, <1>2 DEF Whole, Source, CodeFromSource
    <2>2. PICK i \in DOMAIN funcs_[g].instrs :
            out.Code.at[pc] = funcs_[g].instrs[i] /\ funcs_[g].instrs[i].at = pc
      BY <2>1
    <2>3. Fetched = funcs_[g].instrs[i] /\ Fetched.at = pc
      BY <2>2, <1>2
    <2>4. QED
      BY <2>3, <1>1, <1>3
  <1>4. CASE Closed
    <2> PICK id : id = stack[Len(stack)].func
      OBVIOUS
    <2>1. Len(funcs_) \in Nat /\ DOMAIN funcs_ = 1 .. Len(funcs_)
      BY FuncTypes DEF Whole, Source
    <2>2. stack \in Seq([func : Nat, ret : Int]) /\ stack # <<>>
      BY <1>2 DEF Whole, Frames
    <2>3. Len(stack) \in DOMAIN stack
      BY <2>2
    <2>4. id \in 0 .. Len(funcs_) - 1 /\ pc \in Instructions(id)
      BY <2>3, <1>2, <1>4 DEF Whole, FramesInFunction
    <2>5. id + 1 \in DOMAIN funcs_
      BY <2>1, <2>4
    <2>6. PICK i \in DOMAIN funcs_[id + 1].instrs : pc = funcs_[id + 1].instrs[i].at
      BY <2>4 DEF Instructions
    <2>7. Fetched = funcs_[id + 1].instrs[i]
      <3>1. out.Code.at[funcs_[id + 1].instrs[i].at] = funcs_[id + 1].instrs[i]
        BY <2>5, <2>6, <1>1, WholeCode DEF Whole, Source
      <3>2. QED
        BY <3>1, <2>6, <1>2
    <2>8. QED
      BY <2>5, <2>6, <2>7, <1>1
  <1>5. QED
    BY <1>3, <1>4

\* A step of execution keeps the source and the machine's tables.
LEMMA ExecKeeps ==
  ASSUME Whole, UNCHANGED <<vm, image>>, UNCHANGED asmVars,
         status # "none", status' \in {"run", "halted", "end"}
  PROVE  /\ Source' /\ FileRoundTrips' /\ MachineLoaded'
         /\ UNCHANGED <<funcs_, Places, Closed>>
         /\ \A id : Instructions(id)' = Instructions(id)
  <1>1. Source'
    BY SourceStep DEF Whole
  <1>2. UNCHANGED <<phase, funcs_, out, Places, Closed>>
        /\ \A id : Instructions(id)' = Instructions(id)
    BY SameSource
  <1>3. FileRoundTrips' /\ MachineLoaded'
    BY <1>2, SameFile DEF Whole, MachineLoaded, Loaded, NoImage
  <1>4. QED
    BY <1>1, <1>2, <1>3

\* An instruction other than the last of a function is followed by another.
LEMMA NotLast ==
  ASSUME Ind, Closed, NEW g \in DOMAIN funcs_, NEW i \in DOMAIN funcs_[g].instrs,
         funcs_[g].instrs[i].op \notin {"RET", "JUMP"}
  PROVE  i + 1 \in DOMAIN funcs_[g].instrs
  <1>1. /\ Len(funcs_[g].instrs) \in Nat
        /\ DOMAIN funcs_[g].instrs = 1 .. Len(funcs_[g].instrs)
    BY FuncShape
  <1>2. funcs_[g].instrs[Len(funcs_[g].instrs)].op \in {"RET", "JUMP"}
    BY DEF Closed
  <1>3. i # Len(funcs_[g].instrs)
    BY <1>2
  <1>4. QED
    BY <1>1, <1>3

\* A step that moves pc within the function on top of the stack.
LEMMA MoveStep ==
  ASSUME Whole, status = "run", status' = "run", stack' = stack,
         UNCHANGED <<vm, image>>, UNCHANGED asmVars,
         pc' \in Places, phase = "written",
         Closed => pc' \in Instructions(stack[Len(stack)].func)
  PROVE  Whole'
  <1>1. /\ Source' /\ FileRoundTrips' /\ MachineLoaded'
        /\ UNCHANGED <<funcs_, Places, Closed>>
        /\ \A id : Instructions(id)' = Instructions(id)
    BY ExecKeeps
  <1>2. pc' \in Nat
    BY WholeCode DEF Whole, Source
  <1>3. Frames'
    BY <1>1, <1>2 DEF Whole, Frames
  <1>4. FramesInFunction'
    BY <1>1 DEF Whole, FramesInFunction
  <1>5. QED
    BY <1>1, <1>3, <1>4 DEF Whole

LEMMA NextStep ==
  ASSUME Whole, ExecNext
  PROVE  Whole'
  <1>1. /\ CanFetch /\ status = "run" /\ status' = "run"
        /\ UNCHANGED <<vm, image, stack>> /\ UNCHANGED asmVars
        /\ Fetched.op \notin {"JUMP", "RET"} /\ pc' = pc + ByteSize[Fetched.op]
    BY DEF ExecNext, CanFetch
  <1>2. /\ phase = "written"
        /\ \E g \in DOMAIN funcs_ : \E i \in DOMAIN funcs_[g].instrs :
             /\ Fetched = funcs_[g].instrs[i] /\ Fetched.at = pc
             /\ Closed => g = stack[Len(stack)].func + 1
    BY <1>1, FetchedIsSource
  <1>3. PICK g \in DOMAIN funcs_ : \E i \in DOMAIN funcs_[g].instrs :
          /\ Fetched = funcs_[g].instrs[i] /\ Fetched.at = pc
          /\ Closed => g = stack[Len(stack)].func + 1
    BY <1>2
  <1>4. PICK i \in DOMAIN funcs_[g].instrs :
          /\ Fetched = funcs_[g].instrs[i] /\ Fetched.at = pc
          /\ Closed => g = stack[Len(stack)].func + 1
    BY <1>3
  <1>5. pc' = After(funcs_[g].instrs[i])
    BY <1>1, <1>4 DEF After
  <1>6. pc' \in Places
    BY <1>2, <1>5, WholeCode DEF Whole, Source
  <1>7. Closed => pc' \in Instructions(stack[Len(stack)].func)
    <2>1. SUFFICES ASSUME Closed PROVE pc' \in Instructions(stack[Len(stack)].func)
      OBVIOUS
    <2>2. i + 1 \in DOMAIN funcs_[g].instrs
      BY <2>1, <1>1, <1>4, NotLast DEF Whole, Source
    <2>3. pc' = funcs_[g].instrs[i + 1].at
      BY <2>2, <1>2, <1>5, WholeCode DEF Whole, Source
    <2>4. QED
      BY <2>1, <2>2, <2>3, <1>4 DEF Instructions
  <1>8. QED
    BY <1>1, <1>2, <1>6, <1>7, MoveStep

LEMMA JumpStep ==
  ASSUME Whole, ExecJump
  PROVE  Whole'
  <1>1. /\ CanFetch /\ status = "run" /\ status' = "run"
        /\ UNCHANGED <<vm, image, stack>> /\ UNCHANGED asmVars
        /\ IsJump(Fetched.op) /\ pc' = pc + Fetched.arg
    BY DEF ExecJump, CanFetch
  <1>2. /\ phase = "written"
        /\ \E g \in DOMAIN funcs_ : \E i \in DOMAIN funcs_[g].instrs :
             /\ Fetched = funcs_[g].instrs[i] /\ Fetched.at = pc
             /\ Closed => g = stack[Len(stack)].func + 1
    BY <1>1, FetchedIsSource
  <1>3. PICK g \in DOMAIN funcs_ : \E i \in DOMAIN funcs_[g].instrs :
          /\ Fetched = funcs_[g].instrs[i] /\ Fetched.at = pc
          /\ Closed => g = stack[Len(stack)].func + 1
    BY <1>2
  <1>4. PICK i \in DOMAIN funcs_[g].instrs :
          /\ Fetched = funcs_[g].instrs[i] /\ Fetched.at = pc
          /\ Closed => g = stack[Len(stack)].func + 1
    BY <1>3
  <1>5. i \in Jumps(funcs_[g])
    BY <1>1, <1>4 DEF Jumps
  <1> PICK k : k = funcs_[g].marks[funcs_[g].instrs[i].name]
    OBVIOUS
  <1>6. /\ funcs_[g].instrs[i].name \in DOMAIN funcs_[g].marks
        /\ pc' = Position(g, k) /\ pc' \in Places
    BY <1>1, <1>2, <1>4, <1>5, JumpTarget DEF Whole, Source
  <1>7. Closed => pc' \in Instructions(stack[Len(stack)].func)
    <2>1. SUFFICES ASSUME Closed PROVE pc' \in Instructions(stack[Len(stack)].func)
      OBVIOUS
    <2>2. k \in DOMAIN funcs_[g].instrs
      BY <2>1, <1>6 DEF Closed
    <2>3. pc' = funcs_[g].instrs[k].at
      BY <2>2, <1>6 DEF Position
    <2>4. QED
      BY <2>1, <2>2, <2>3, <1>4 DEF Instructions
  <1>8. QED
    BY <1>1, <1>2, <1>6, <1>7, MoveStep

LEMMA CallStep ==
  ASSUME Whole, ExecCall
  PROVE  Whole'
  <1> DEFINE Frame == [func : Nat, ret : Int]
  <1> PICK frame : frame = [func |-> Fetched.arg, ret |-> pc + ByteSize[Fetched.op]]
    OBVIOUS
  <1>1. /\ CanFetch /\ status = "run" /\ status' = "run"
        /\ UNCHANGED <<vm, image>> /\ UNCHANGED asmVars
        /\ IsCall(Fetched.op) /\ pc' = vm.funcs[Fetched.arg].func_start
        /\ Len(stack) < MaxDepth /\ stack' = Append(stack, frame)
    BY DEF ExecCall, CanFetch
  <1>2. /\ phase = "written"
        /\ \E g \in DOMAIN funcs_ : \E i \in DOMAIN funcs_[g].instrs :
             /\ Fetched = funcs_[g].instrs[i] /\ Fetched.at = pc
             /\ Closed => g = stack[Len(stack)].func + 1
    BY <1>1, FetchedIsSource
  <1>3. PICK g \in DOMAIN funcs_ : \E i \in DOMAIN funcs_[g].instrs :
          /\ Fetched = funcs_[g].instrs[i] /\ Fetched.at = pc
          /\ Closed => g = stack[Len(stack)].func + 1
    BY <1>2
  <1>4. PICK i \in DOMAIN funcs_[g].instrs :
          /\ Fetched = funcs_[g].instrs[i] /\ Fetched.at = pc
          /\ Closed => g = stack[Len(stack)].func + 1
    BY <1>3
  <1> PICK id : id = Fetched.arg
    OBVIOUS
  <1>5. Len(funcs_) \in Nat /\ DOMAIN funcs_ = 1 .. Len(funcs_)
    BY FuncTypes DEF Whole, Source
  <1>6. vm.funcs = ById(out.Functions)
    BY <1>1 DEF Whole, MachineLoaded, Loaded
  <1>7. /\ id \in 0 .. Len(funcs_) - 1
        /\ vm.funcs[id] = FileFunction(funcs_[id + 1])
    BY <1>1, <1>2, <1>4, <1>6, CallTarget DEF Whole, Source
  <1>8. id \in Nat /\ id + 1 \in DOMAIN funcs_
    BY <1>5, <1>7
  <1>9. pc' = funcs_[id + 1].offset
    BY <1>1, <1>7 DEF FileFunction
  <1>10. pc' \in Places /\ pc' \in Nat
    BY <1>2, <1>8, <1>9, WholeCode DEF Whole, Source
  <1>11. /\ frame.func = id /\ frame.ret = After(funcs_[g].instrs[i])
         /\ frame.ret \in Places
    <2>1. frame.func = id /\ frame.ret = After(funcs_[g].instrs[i])
      BY <1>4 DEF After
    <2>2. QED
      BY <2>1, <1>2, WholeCode DEF Whole, Source
  <1>12. frame \in Frame
    <2>1. frame.ret \in Int
      BY <1>2, <1>11, WholeCode DEF Whole, Source
    <2>2. QED
      BY <2>1, <1>8, <1>11
  <1>13. /\ stack \in Seq(Frame) /\ Len(stack) \in Nat \ {0} /\ DOMAIN stack = 1 .. Len(stack)
    <2>1. stack \in Seq(Frame) /\ stack # <<>>
      BY <1>1 DEF Whole, Frames
    <2>2. QED
      BY <2>1
  <1>14. /\ stack' \in Seq(Frame) /\ Len(stack') = Len(stack) + 1
         /\ DOMAIN stack' = 1 .. Len(stack) + 1
         /\ \A j \in DOMAIN stack : stack'[j] = stack[j]
         /\ stack'[Len(stack) + 1] = frame
    <2> HIDE DEF Frame
    <2>1. QED
      BY <1>1, <1>12, <1>13
  <1>15. /\ Source' /\ FileRoundTrips' /\ MachineLoaded'
         /\ UNCHANGED <<funcs_, Places, Closed>>
         /\ \A x : Instructions(x)' = Instructions(x)
    BY <1>1, ExecKeeps
  <1>16. Frames'
    <2>1. Len(stack') <= MaxDepth
      BY <1>1, <1>13, <1>14, ToolchainAssumption
    <2>2. ASSUME NEW j \in DOMAIN stack'
          PROVE  IF j = 1 THEN stack'[j].ret = -1 ELSE stack'[j].ret \in Places
      <3>1. CASE j \in DOMAIN stack
        BY <3>1, <1>14 DEF Whole, Frames
      <3>2. CASE j = Len(stack) + 1
        BY <3>2, <1>11, <1>13, <1>14
      <3>3. QED
        BY <3>1, <3>2, <1>13, <1>14
    <2>3. stack' # <<>>
      BY <1>13, <1>14
    <2>4. QED
      BY <2>1, <2>2, <2>3, <1>1, <1>10, <1>14, <1>15 DEF Frames
  <1>17. FramesInFunction'
    <2>1. SUFFICES ASSUME Closed
                   PROVE  /\ \A j \in DOMAIN stack' : stack'[j].func \in 0 .. Len(funcs_) - 1
                          /\ pc' \in Instructions(stack'[Len(stack')].func)
                          /\ \A j \in 2 .. Len(stack') :
                               stack'[j].ret \in Instructions(stack'[j - 1].func)
      BY <1>15 DEF FramesInFunction
    <2>2. /\ \A j \in DOMAIN stack : stack[j].func \in 0 .. Len(funcs_) - 1
          /\ \A j \in 2 .. Len(stack) : stack[j].ret \in Instructions(stack[j - 1].func)
      BY <2>1, <1>1 DEF Whole, FramesInFunction
    <2>3. \A j \in DOMAIN stack' : stack'[j].func \in 0 .. Len(funcs_) - 1
      <3>1. ASSUME NEW j \in DOMAIN stack' PROVE stack'[j].func \in 0 .. Len(funcs_) - 1
        <4>1. CASE j \in DOMAIN stack
          BY <4>1, <2>2, <1>14
        <4>2. CASE j = Len(stack) + 1
          BY <4>2, <1>7, <1>11, <1>14
        <4>3. QED
          BY <4>1, <4>2, <1>13, <1>14
      <3>2. QED
        BY <3>1
    <2>4. pc' \in Instructions(stack'[Len(stack')].func)
      BY <2>1, <1>7, <1>9, <1>11, <1>14, FirstInstruction DEF Whole, Source
    <2>5. frame.ret \in Instructions(stack[Len(stack)].func)
      <3>1. i + 1 \in DOMAIN funcs_[g].instrs
        BY <2>1, <1>1, <1>4, NotLast DEF Whole, Source, IsCall
      <3>2. frame.ret = funcs_[g].instrs[i + 1].at
        BY <3>1, <1>2, <1>11, WholeCode DEF Whole, Source
      <3>3. QED
        BY <2>1, <3>1, <3>2, <1>4 DEF Instructions
    <2>6. ASSUME NEW j \in 2 .. Len(stack')
          PROVE  stack'[j].ret \in Instructions(stack'[j - 1].func)
      <3>0. j \in 2 .. Len(stack) + 1
        BY <1>14
      <3>1. j - 1 \in DOMAIN stack
        BY <3>0, <1>13
      <3>2. CASE j \in DOMAIN stack
        <4>1. j \in 2 .. Len(stack)
          BY <3>0, <3>2, <1>13
        <4>2. QED
          BY <3>1, <3>2, <4>1, <2>2, <1>14
      <3>3. CASE j = Len(stack) + 1
        <4>1. j - 1 = Len(stack)
          BY <3>3, <1>13
        <4>2. QED
          BY <3>1, <3>3, <4>1, <2>5, <1>14
      <3>4. QED
        BY <3>2, <3>3, <1>13, <1>14
    <2>7. QED
      BY <2>3, <2>4, <2>6
  <1>18. QED
    BY <1>15, <1>16, <1>17 DEF Whole

LEMMA RetStep ==
  ASSUME Whole, ExecRet
  PROVE  Whole'
  <1> DEFINE Frame == [func : Nat, ret : Int]
             n == Len(stack)
  <1>1. /\ CanFetch /\ status = "run"
        /\ UNCHANGED <<vm, image>> /\ UNCHANGED asmVars
        /\ IF stack[n].ret = -1
           THEN status' = "halted" /\ UNCHANGED <<pc, stack>>
           ELSE /\ pc' = stack[n].ret
                /\ stack' = SubSeq(stack, 1, n - 1)
                /\ status' = status
    BY DEF ExecRet, CanFetch
  <1>2. status' \in {"run", "halted"}
    BY <1>1
  <1>3. /\ Source' /\ FileRoundTrips' /\ MachineLoaded'
        /\ UNCHANGED <<funcs_, Places, Closed>>
        /\ \A x : Instructions(x)' = Instructions(x)
    BY <1>1, <1>2, ExecKeeps
  <1>4. stack \in Seq(Frame) /\ n \in Nat \ {0} /\ DOMAIN stack = 1 .. n
    <2>1. stack \in Seq(Frame) /\ stack # <<>>
      BY <1>1 DEF Whole, Frames
    <2>2. QED
      BY <2>1
  <1>5. CASE stack[n].ret = -1
    <2>1. status' = "halted" /\ pc' = pc /\ stack' = stack
      BY <1>1, <1>5
    <2>2. Frames' /\ FramesInFunction'
      BY <2>1, <1>1, <1>3 DEF Whole, Frames, FramesInFunction
    <2>3. QED
      BY <2>2, <1>3 DEF Whole
  <1>6. CASE stack[n].ret # -1
    <2>1. pc' = stack[n].ret /\ stack' = SubSeq(stack, 1, n - 1) /\ status' = "run"
      BY <1>1, <1>6
    <2>0. \A j \in DOMAIN stack : IF j = 1 THEN stack[j].ret = -1 ELSE stack[j].ret \in Places
      BY DEF Whole, Frames
    <2>2. n # 1 /\ pc' \in Places
      <3>1. n \in DOMAIN stack
        BY <1>4
      <3> HIDE DEF n
      <3>2. QED
        BY <3>1, <2>0, <2>1, <1>6
    <2>3. n - 1 \in Nat \ {0}
      BY <2>2, <1>4
    <2>4. /\ stack' \in Seq(Frame) /\ Len(stack') = n - 1 /\ DOMAIN stack' = 1 .. n - 1
          /\ \A j \in 1 .. n - 1 : stack'[j] = stack[j] /\ j \in DOMAIN stack
      <3> HIDE DEF Frame, n
      <3>1. n = Len(stack)
        BY DEF n
      <3>2. QED
        BY <2>1, <2>3, <3>1, <1>4
    <2>5. pc' \in Nat
      <3>1. phase = "written"
        BY <1>1, FetchedIsSource
      <3>2. QED
        BY <2>2, <3>1, WholeCode DEF Whole, Source
    <2>6. Frames'
      <3>1. Len(stack') <= MaxDepth
        BY <2>4, <1>4, ToolchainAssumption DEF Whole, Frames
      <3>2. \A j \in DOMAIN stack' :
              IF j = 1 THEN stack'[j].ret = -1 ELSE stack'[j].ret \in Places
        BY SMTT(20), <2>0, <2>4
      <3>3. stack' # <<>>
        BY <2>3, <2>4
      <3>4. QED
        BY <2>1, <2>2, <2>4, <2>5, <3>1, <3>2, <3>3, <1>3 DEF Frames
    <2>7. FramesInFunction'
      <3>1. SUFFICES ASSUME Closed
                     PROVE  /\ \A j \in DOMAIN stack' : stack'[j].func \in 0 .. Len(funcs_) - 1
                            /\ pc' \in Instructions(stack'[Len(stack')].func)
                            /\ \A j \in 2 .. Len(stack') :
                                 stack'[j].ret \in Instructions(stack'[j - 1].func)
        BY <1>3 DEF FramesInFunction
      <3>2. /\ \A j \in DOMAIN stack : stack[j].func \in 0 .. Len(funcs_) - 1
            /\ \A j \in 2 .. n : stack[j].ret \in Instructions(stack[j - 1].func)
        BY <3>1, <1>1 DEF Whole, FramesInFunction
      <3>3. pc' \in Instructions(stack'[n - 1].func)
        <4>1. n \in 2 .. n /\ n - 1 \in 1 .. n - 1
          BY <2>3, <1>4
        <4>2. QED
          BY <4>1, <2>1, <2>4, <3>2
      <3>4. \A j \in 2 .. n - 1 : stack'[j].ret \in Instructions(stack'[j - 1].func)
        <4>1. ASSUME NEW j \in 2 .. n - 1
              PROVE  stack'[j].ret \in Instructions(stack'[j - 1].func)
          <5>1. j \in 1 .. n - 1 /\ j - 1 \in 1 .. n - 1 /\ j \in 2 .. n
            BY <1>4
          <5>2. QED
            BY <5>1, <2>4, <3>2
        <4>2. QED
          BY <4>1
      <3>5. QED
        BY <2>4, <3>2, <3>3, <3>4
    <2>8. QED
      BY <2>6, <2>7, <1>3 DEF Whole
  <1>7. QED
    BY <1>5, <1>6

LEMMA RunOffStep ==
  ASSUME Whole, RunOff
  PROVE  Whole'
  <1>1. /\ status = "run" /\ status' = "end"
        /\ UNCHANGED <<vm, image, pc, stack>> /\ UNCHANGED asmVars
    BY DEF RunOff
  <1>2. /\ Source' /\ FileRoundTrips' /\ MachineLoaded'
        /\ UNCHANGED <<funcs_, Places, Closed>>
    BY <1>1, ExecKeeps
  <1>3. Frames' /\ FramesInFunction'
    BY <1>1, <1>2 DEF Whole, Frames, FramesInFunction
  <1>4. QED
    BY <1>2, <1>3 DEF Whole

LEMMA WholeStep == Whole /\ [Next]_vars => Whole'
  <1> SUFFICES ASSUME Whole, [Next]_vars PROVE Whole'
    OBVIOUS
  <1>1. CASE Assemble
    BY <1>1, AssembleStep
  <1>2. CASE Serialize
    BY <1>2, SerializeStep
  <1>3. CASE Load
    BY <1>3, LoadStep
  <1>4. CASE ExecNext
    BY <1>4, NextStep
  <1>5. CASE ExecJump
    BY <1>5, JumpStep
  <1>6. CASE ExecCall
    BY <1>6, CallStep
  <1>7. CASE ExecRet
    BY <1>7, RetStep
  <1>8. CASE RunOff
    BY <1>8, RunOffStep
  <1>9. CASE UNCHANGED vars
    <2>1. UNCHANGED asmVars /\ UNCHANGED <<image, vm, pc, stack, status>>
      BY <1>9 DEF vars, vmVars
    <2>2. Source'
      BY <2>1, SourceStep DEF Whole
    <2>3. UNCHANGED <<phase, funcs_, out, Places, Closed>>
          /\ \A id : Instructions(id)' = Instructions(id)
      BY <2>1, SameSource
    <2>4. FileRoundTrips' /\ MachineLoaded'
      BY <2>1, <2>3, SameFile DEF Whole, MachineLoaded, Loaded, NoImage
    <2>5. Frames' /\ FramesInFunction'
      BY <2>1, <2>3 DEF Whole, Frames, FramesInFunction
    <2>6. QED
      BY <2>2, <2>4, <2>5 DEF Whole
  <1>10. QED
    BY <1>1, <1>2, <1>3, <1>4, <1>5, <1>6, <1>7, <1>8, <1>9 DEF Next, Exec

-----------------------------------------------------------------------------
(***************************************************************************)
(* The theorems.                                                           *)
(***************************************************************************)
\* In a closed program the instructions of function id are the code that the
\* loaded table gives to it.
LEMMA InstructionsOfFunction ==
  ASSUME Whole, Loaded, Closed, NEW id \in 0 .. Len(funcs_) - 1
  PROVE  Instructions(id) \subseteq CodeOf(id)
  <1>1. phase = "written" /\ vm.funcs = ById(out.Functions) /\ vm.code = out.Code
    BY DEF Whole, MachineLoaded
  <1>2. Len(funcs_) \in Nat /\ DOMAIN funcs_ = 1 .. Len(funcs_)
    BY FuncTypes DEF Whole, Source
  <1>3. \A x \in DOMAIN vm.funcs : /\ x \in 0 .. Len(funcs_) - 1
                                   /\ vm.funcs[x].func_start = funcs_[x + 1].offset
    <2>1. \A x \in DOMAIN vm.funcs : /\ x \in 0 .. Len(funcs_) - 1
                                     /\ vm.funcs[x] = FileFunction(funcs_[x + 1])
      BY <1>1, FuncsById DEF Whole, Source
    <2>2. \A f : FileFunction(f).func_start = f.offset
      BY DEF FileFunction
    <2>3. QED
      BY <2>1, <2>2
  <1> PICK g \in DOMAIN funcs_ : g = id + 1
    BY <1>2
  <1>4. id \in DOMAIN vm.funcs
    <2>1. funcs_[g].name \in DOMAIN func_name_to_id_
      BY DEF Whole, Source, Ind, IInv, FuncNames
    <2> PICK m : m = func_name_to_id_[funcs_[g].name]
      OBVIOUS
    <2>2. m \in 0 .. Len(funcs_) - 1 /\ funcs_[m + 1].name = funcs_[g].name
      BY <2>1 DEF Whole, Source, Ind, IInv, FuncNames, IsFirst, AsmTypeOK
    <2>3. m + 1 \in DOMAIN funcs_
      BY <2>2, <1>2
    <2>4. m + 1 = g
      BY <2>2, <2>3 DEF Closed
    <2>5. m = id
      BY <2>2, <2>4, <1>2
    <2>6. QED
      BY <2>1, <2>5, <1>1, FuncsById DEF Whole, Source
  <1>5. SUFFICES ASSUME NEW i \in DOMAIN funcs_[g].instrs
                 PROVE  funcs_[g].instrs[i].at \in CodeOf(id)
    BY DEF Instructions
  <1> DEFINE b == funcs_[g].instrs[i]
  <1>6. b \in Instr /\ b.at \in DOMAIN vm.code.at
    BY <1>1, WholeCode DEF Whole, Source
  <1>7. b.at \in Nat /\ After(b) > b.at
    BY <1>6, OpSize DEF Instr, After
  <1>8. vm.funcs[id].func_start = funcs_[g].offset /\ funcs_[g].offset <= b.at
    BY <1>3, <1>4 DEF Whole, Source, Ordered
  <1>9. ASSUME NEW s \in Starts, s <= b.at PROVE s <= funcs_[g].offset
    <2>1. PICK x \in DOMAIN vm.funcs : s = vm.funcs[x].func_start
      BY DEF Starts
    <2>2. x \in 0 .. Len(funcs_) - 1 /\ s = funcs_[x + 1].offset
      BY <2>1, <1>3
    <2> PICK h \in DOMAIN funcs_ : h = x + 1
      BY <2>2, <1>2
    <2>3. funcs_[h].offset \in Nat
      BY DEF Whole, Source, Ind, IInv, AsmTypeOK
    <2>4. CASE h < g
      <3>1. g \in h + 1 .. Len(funcs_)
        BY <2>4, <1>2
      <3>2. QED
        BY <3>1, <2>2 DEF Whole, Source, Ordered
    <2>5. CASE h = g
      BY <2>2, <2>3, <2>5
    <2>6. CASE h > g
      <3>1. h \in g + 1 .. Len(funcs_)
        BY <2>6, <1>2
      <3>2. After(b) <= funcs_[h].offset
        BY <3>1 DEF Whole, Source, Ordered
      <3>3. After(b) \in Nat
        BY <1>6, OpSize DEF Instr, After
      <3>4. QED
        BY <3>2, <3>3, <2>2, <2>3, <1>7, <1>9
    <2>7. QED
      BY <2>4, <2>5, <2>6, <1>2
  <1>10. QED
    BY <1>6, <1>8, <1>9 DEF CodeOf

LEMMA WholeAlways == Spec => []Whole
  BY WholeInit, WholeStep, PTL DEF Spec

\* The source that the machine is given is assembled as AsmSpec says: loading
\* and executing do not touch the assembler's state (shrimp.cpp, ShrimpVM).
\* With it the theorems of Assembler_proofs hold of the whole.
THEOREM AssemblesFirst == Spec => AsmSpec
  <1>1. Init => AsmInit
    BY DEF Init
  <1>2. [Next]_vars => [AsmNext]_asmVars
    BY DEF Next, Assemble, Serialize, Load, Exec, ExecNext, ExecJump, ExecCall, ExecRet,
           RunOff, vars
  <1>3. QED
    BY <1>1, <1>2, PTL DEF Spec, AsmSpec

\* The machine reads from the file what the assembler put into it, all tables
\* and the code: the offsets and sizes of fillHeaders are those of serialize
\* (Assembler::assemble, File::serialize, the constructor File(file_name)).
THEOREM FileAlwaysRoundTrips == Spec => []FileRoundTrips
  <1>1. Whole => FileRoundTrips
    BY DEF Whole
  <1>2. QED
    BY <1>1, WholeAlways, PTL

\* The inductive invariant of Toolchain holds of every program
\* (Assembler::assemble, ShrimpVM, interpreter).
THEOREM ToolchainInvariance == Spec => []ToolchainInv
  <1>1. Whole => ToolchainInv
    BY DEF Whole, Source, Ind, ToolchainInv
  <1>2. QED
    BY <1>1, WholeAlways, PTL

\* The machine's state has its types, and the stack its bound.
THEOREM ToolchainTypeCorrect == Spec => []ToolchainTypeOK
  <1>1. Whole => ToolchainTypeOK
    BY DEF Whole, Source, Ind, IInv, MachineLoaded, Frames, ToolchainTypeOK
  <1>2. QED
    BY <1>1, WholeAlways, PTL

\* pc is at an instruction of the source or at the end of the code, whatever
\* the jumps, calls and returns before (the handlers of the interpreter, with
\* the offsets that resloveJumps and parseFuncDecl computed).
THEOREM PcAlwaysOnInstruction == Spec => []PcOnInstruction
  <1>1. Whole => PcOnInstruction
    BY DEF Whole, MachineLoaded, Loaded, Frames, Places, PcOnInstruction
  <1>2. QED
    BY <1>1, WholeAlways, PTL

\* In a program whose functions have names of their own and end in a RET or a
\* JUMP, control is in the function of the top frame, and each frame returns
\* into the function below it (the handlers of CALL, RET and JUMP).
THEOREM ControlStaysInFunction == Spec => []ControlInFunction
  <1>1. Whole => ControlInFunction
    <2> SUFFICES ASSUME Whole, status = "run", Closed
                 PROVE  /\ pc \in CodeOf(stack[Len(stack)].func)
                        /\ \A i \in 2 .. Len(stack) : stack[i].ret \in CodeOf(stack[i - 1].func)
      BY DEF ControlInFunction
    <2>1. /\ \A i \in DOMAIN stack : stack[i].func \in 0 .. Len(funcs_) - 1
          /\ pc \in Instructions(stack[Len(stack)].func)
          /\ \A i \in 2 .. Len(stack) : stack[i].ret \in Instructions(stack[i - 1].func)
      BY DEF Whole, FramesInFunction
    <2>2. Len(stack) \in Nat \ {0} /\ DOMAIN stack = 1 .. Len(stack)
      <3>1. stack \in Seq([func : Nat, ret : Int]) /\ stack # <<>>
        BY DEF Whole, Frames
      <3>2. QED
        BY <3>1
    <2>3. \A id \in 0 .. Len(funcs_) - 1 : Instructions(id) \subseteq CodeOf(id)
      BY InstructionsOfFunction DEF Loaded
    <2>4. pc \in CodeOf(stack[Len(stack)].func)
      BY <2>1, <2>2, <2>3
    <2>5. ASSUME NEW i \in 2 .. Len(stack) PROVE stack[i].ret \in CodeOf(stack[i - 1].func)
      <3>1. i - 1 \in DOMAIN stack
        BY <2>2
      <3>2. stack[i - 1].func \in 0 .. Len(funcs_) - 1
        BY <3>1, <2>1
      <3>3. QED
        BY <3>2, <2>1, <2>3
    <2>6. QED
      BY <2>4, <2>5
  <1>2. QED
    BY <1>1, WholeAlways, PTL

\* The name of a parameter is encoded as the register its argument arrives
\* in: parseReg counts down from 256 as the handlers of CALL do.
THEOREM ParametersArrive == Spec => []ParamsArrive
  <1>1. ParamsArrive /\ Ind /\ [AsmNext]_asmVars => ParamsArrive'
    BY ParamsStep
  <1>2. AsmSpec => []ParamsArrive
    BY <1>1, ParamsInit, IndAlways, PTL DEF AsmSpec
  <1>3. QED
    BY <1>2, AssemblesFirst, PTL

\* The class of the file under an id, and its fields, in the words of the source.
LEMMA ClassesById ==
  ASSUME Ind, TablesWritten, phase = "written", NEW id \in 0 .. Len(classes_) - 1
  PROVE  /\ id + 1 \in DOMAIN out.Classes
         /\ out.Classes[id + 1].name = classes_[id + 1].name
         /\ DOMAIN out.Classes[id + 1].fields = DOMAIN classes_[id + 1].fields
         /\ \A k \in DOMAIN classes_[id + 1].fields :
              out.Classes[id + 1].fields[k].name = classes_[id + 1].fields[k].name
  <1>1. id + 1 \in DOMAIN classes_
    <2>1. classes_ \in Seq(ClassRec)
      BY DEF Ind, Shape
    <2>2. QED
      BY <2>1
  <1>2. id + 1 \in DOMAIN out.Classes /\ out.Classes[id + 1] = FileClass(classes_[id + 1])
    BY <1>1 DEF TablesWritten
  <1>3. QED
    BY <1>2 DEF FileClass

\* If the source has no more strings than there are ids, every id in the code
\* leads in the tables of the machine to what the source named: calls, string
\* loads, object creations and field accesses (the parse*Id functions of the
\* assembler, writeStrings, writeFunctions and writeClasses, ShrimpVM).
THEOREM SymbolsAlwaysResolve ==
  ASSUME FewStrings
  PROVE  Spec => []SymbolsResolve
  <1>1. ASSUME Whole, Loaded, NEW o \in DOMAIN vm.code.at
        PROVE  LET b == vm.code.at[o] IN
               /\ IsCall(b.op) => /\ b.arg \in DOMAIN vm.funcs
                                  /\ vm.funcs[b.arg].name = b.name
               /\ b.op = "LDA_STR" => /\ b.arg \in DOMAIN vm.strings
                                      /\ vm.strings[b.arg].str = b.name
               /\ b.op \in {"OBJ_NEW", "LDFIELD"} =>
                    /\ b.arg + 1 \in DOMAIN vm.classes
                    /\ vm.classes[b.arg + 1].name = b.name
               /\ b.op = "LDFIELD" =>
                    /\ b.field + 1 \in DOMAIN vm.classes[b.arg + 1].fields
                    /\ vm.classes[b.arg + 1].fields[b.field + 1].name = b.member
    <2>1. /\ phase = "written" /\ vm.code = out.Code /\ vm.funcs = ById(out.Functions)
          /\ vm.strings = ById(out.Strings) /\ vm.classes = out.Classes
      BY <1>1 DEF Whole, MachineLoaded
    <2>2. PICK b : b = vm.code.at[o]
      OBVIOUS
    <2>3. PICK g \in DOMAIN funcs_ : \E i \in DOMAIN funcs_[g].instrs : b = funcs_[g].instrs[i]
      BY <1>1, <2>1, <2>2 DEF Whole, Source, CodeFromSource
    <2>4. PICK i \in DOMAIN funcs_[g].instrs : b = funcs_[g].instrs[i]
      BY <2>3
    <2>5. IsCall(b.op) => b.arg \in DOMAIN vm.funcs /\ vm.funcs[b.arg].name = b.name
      <3>1. SUFFICES ASSUME IsCall(b.op)
                     PROVE  b.arg \in DOMAIN vm.funcs /\ vm.funcs[b.arg].name = b.name
        OBVIOUS
      <3>2. /\ b.arg \in DOMAIN vm.funcs /\ vm.funcs[b.arg] = FileFunction(funcs_[b.arg + 1])
            /\ funcs_[b.arg + 1].name = b.name
        BY <3>1, <1>1, <2>1, <2>4, CallTarget DEF Whole, Source
      <3>3. QED
        BY <3>2 DEF FileFunction
    <2>6. b.op = "LDA_STR" => b.arg \in DOMAIN vm.strings /\ vm.strings[b.arg].str = b.name
      <3>1. SUFFICES ASSUME b.op = "LDA_STR"
                     PROVE  b.arg \in DOMAIN vm.strings /\ vm.strings[b.arg].str = b.name
        OBVIOUS
      <3>2. b.name \in DOMAIN strings_ /\ b.arg = strings_[b.name]
        BY <3>1, <1>1, <2>4 DEF Whole, Source, SymbolsEncoded
      <3>3. QED
        BY <3>2, <1>1, <2>1, StringsById DEF Whole, Source
    <2>7. b.op \in {"OBJ_NEW", "LDFIELD"} =>
            /\ b.arg + 1 \in DOMAIN vm.classes
            /\ vm.classes[b.arg + 1].name = b.name
            /\ b.op = "LDFIELD" =>
                 /\ b.field + 1 \in DOMAIN vm.classes[b.arg + 1].fields
                 /\ vm.classes[b.arg + 1].fields[b.field + 1].name = b.member
      <3>1. SUFFICES ASSUME b.op \in {"OBJ_NEW", "LDFIELD"}
                     PROVE  /\ b.arg + 1 \in DOMAIN vm.classes
                            /\ vm.classes[b.arg + 1].name = b.name
                            /\ b.op = "LDFIELD" =>
                                 /\ b.field + 1 \in DOMAIN vm.classes[b.arg + 1].fields
                                 /\ vm.classes[b.arg + 1].fields[b.field + 1].name = b.member
        OBVIOUS
      <3>2. /\ b.arg \in 0 .. Len(classes_) - 1 /\ classes_[b.arg + 1].name = b.name
            /\ b.op = "LDFIELD" =>
                 /\ b.field + 1 \in DOMAIN classes_[b.arg + 1].fields
                 /\ classes_[b.arg + 1].fields[b.field + 1].name = b.member
        BY <3>1, <1>1, <2>4 DEF Whole, Source, SymbolsEncoded
      <3>3. /\ b.arg + 1 \in DOMAIN out.Classes
            /\ out.Classes[b.arg + 1].name = classes_[b.arg + 1].name
            /\ DOMAIN out.Classes[b.arg + 1].fields = DOMAIN classes_[b.arg + 1].fields
            /\ \A k \in DOMAIN classes_[b.arg + 1].fields :
                 out.Classes[b.arg + 1].fields[k].name = classes_[b.arg + 1].fields[k].name
        BY <3>2, <1>1, <2>1, ClassesById DEF Whole, Source
      <3>4. QED
        BY <3>2, <3>3, <2>1
    <2>8. QED
      BY <2>2, <2>5, <2>6, <2>7
  <1>2. Whole => SymbolsResolve
    BY <1>1 DEF SymbolsResolve
  <1>3. QED
    BY <1>2, WholeAlways, PTL

=============================================================================
