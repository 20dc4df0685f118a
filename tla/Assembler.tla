----------------------------- MODULE Assembler -----------------------------
(***************************************************************************)
(* The assembler: the first pass over the source, which gives offsets and  *)
(* identifiers to functions, labels, classes and strings as it meets them; *)
(* the resolution of the jumps; and the writing of code and tables into a  *)
(* shrimpfile::File.                                                       *)
(*                                                                         *)
(* The source text is left open: the lexer may deliver any declaration,    *)
(* label or statement of the constants, in any order, so a behaviour is a  *)
(* source file and its assembly.  Spelling errors, which make the lexer or *)
(* the parser throw whatever the state is, are left out.                   *)
(***************************************************************************)
EXTENDS Integers, Sequences, FiniteSets

CONSTANTS
  FuncDecl,     \* function headings: [name, args]
  ClassDecl,    \* classes: [name, fields], fields a sequence of [name, type]
  Label,        \* names of labels
  Statement,    \* instructions: [op, name, member], see Operands
  Literal,      \* strings that stand alone in a body
  BuiltinType,  \* the field types "i32" and "f"
  RegId,        \* number of each register name r0, r1, ...
  MaxFuncs,     \* bound: functions in a source
  MaxClasses,   \* bound: classes in a source
  MaxInstrs,    \* bound: instructions in a function
  MaxCode       \* bound: no instruction starts at or after this offset

\* Bytes of an instruction.  LDA stands for all that only name registers,
\* NOP for all without operands, JUMP_GG for all conditional jumps.
ByteSize == [ NOP       |-> 1, RET       |-> 1, LDA  |-> 2, LDA_STR |-> 4,
              CALL_0ARG |-> 4, CALL_1ARG |-> 8, JUMP |-> 8, JUMP_GG |-> 8,
              OBJ_NEW   |-> 8, LDFIELD   |-> 8 ]

Op         == DOMAIN ByteSize
IsJump(op) == op \in {"JUMP", "JUMP_GG"}
IsCall(op) == op \in {"CALL_0ARG", "CALL_1ARG"}

MaxArgs   == 4       \* MAX_FUNC_ARGS_NUMBER
NumRegs   == 256     \* values of R8Id
NumStrIds == 65536   \* values of StrId

ASSUME AssemblerAssumption ==
  /\ \A d \in FuncDecl : d.args \in Seq({ d.args[i] : i \in DOMAIN d.args })
  /\ \A c \in ClassDecl : c.fields \in Seq({ c.fields[i] : i \in DOMAIN c.fields })
  /\ \A s \in Statement : s.op \in Op
  /\ \A r \in DOMAIN RegId : RegId[r] \in 0 .. NumRegs - 1

VARIABLES
  phase,              \* "top", "body" or "class": what the first pass is in;
                      \* then "resolve", "write", "written", or "error"
  curr_offset_, funcs_, classes_,
  func_name_to_id_, strings_, class_name_to_id_,
  cursor,             \* what writeCode writes next: <<function, instruction>>
  out                 \* the File: Code, Strings, Functions, Classes

names   == <<func_name_to_id_, strings_, class_name_to_id_>>
asmVars == <<phase, curr_offset_, funcs_, classes_, names, cursor, out>>

-----------------------------------------------------------------------------
\* Mutant of Insert: insert_or_assign.
InsertOrAssign(map, key, val) ==
  [k \in DOMAIN map \cup {key} |-> IF k = key THEN val ELSE map[k]]

\* unordered_map::insert: a key that is there keeps its value.
Insert(map, key, val) ==
  [k \in DOMAIN map \cup {key} |-> IF k \in DOMAIN map THEN map[k] ELSE val]

NoNames == [x \in {} |-> 0]

\* FuncInfo.  marks is a history variable: for each label the index of the
\* instruction it stands before.
NewFunc(d) == [ offset |-> curr_offset_, name   |-> d.name, args  |-> d.args,
                instrs |-> <<>>,         labels |-> NoNames, marks |-> NoNames ]

current == funcs_[Len(funcs_)]    \* *curr_func_

\* Mutant of parseReg: parameters counted down from 255.
parseRegPostDecrement(args, r) ==
  LET params == { i \in DOMAIN args : args[i] = r }
  IN  IF params = {}
      THEN { RegId[x] : x \in {r} \cap DOMAIN RegId }
      ELSE { NumRegs - 1 - i : i \in { j \in params : \A k \in params : j <= k } }

\* The register an operand names: a parameter, counted down from 256, or one
\* by number.  The set is empty when the operand is neither.
parseReg(args, r) ==
  LET params == { i \in DOMAIN args : args[i] = r }
  IN  IF params = {}
      THEN { RegId[x] : x \in {r} \cap DOMAIN RegId }
      ELSE { NumRegs - i : i \in { j \in params : \A k \in params : j <= k } }

\* The fields of class id (parseClassFieldId): positions from 0.
parseClassFieldId(id, name) ==
  LET fields == classes_[id + 1].fields
      found  == { i \in DOMAIN fields : fields[i].name = name }
  IN  { i - 1 : i \in { j \in found : \A k \in found : j <= k } }

Lookup(map, name) == { map[n] : n \in {name} \cap DOMAIN map }

StringId(str) == Insert(strings_, str, Cardinality(DOMAIN strings_) % NumStrIds)[str]

\* What the operands of statement s are encoded as, <<id, field>>; a jump is
\* encoded as 0 until it is resolved.  Empty: a parse error.
Operands(s) ==
  CASE s.op = "LDA"     -> parseReg(current.args, s.name) \X {0}
    [] IsCall(s.op)     -> Lookup(func_name_to_id_, s.name) \X {0}
    [] s.op = "LDA_STR" -> {StringId(s.name)} \X {0}
    [] s.op = "OBJ_NEW" -> Lookup(class_name_to_id_, s.name) \X {0}
    [] s.op = "LDFIELD" -> UNION { {id} \X parseClassFieldId(id, s.member) :
                                     id \in Lookup(class_name_to_id_, s.name) }
    [] OTHER            -> {<<0, 0>>}

-----------------------------------------------------------------------------
NoFile == [ Code      |-> [size |-> 0, at |-> NoNames],
            Strings   |-> <<>>,
            Functions |-> <<>>,
            Classes   |-> <<>> ]

AsmInit ==
  /\ phase = "top"
  /\ curr_offset_ = 0
  /\ funcs_ = <<>>
  /\ classes_ = <<>>
  /\ func_name_to_id_ = NoNames
  /\ strings_ = NoNames
  /\ class_name_to_id_ = NoNames
  /\ cursor = <<1, 1>>
  /\ out = NoFile

AtDeclaration == phase \in {"top", "body", "class"}

\* An exception leaves assemble(): nothing looks at the tables again, so what
\* the failing function had already changed in them is not kept.
parseError ==
  /\ phase' = "error"
  /\ UNCHANGED <<curr_offset_, funcs_, classes_, names, cursor, out>>

\* Mutants: ids counted from one, or the size of the name table.
FuncIdFromOne == Len(funcs_) + 1
ClassIdByName == Cardinality(DOMAIN class_name_to_id_)

\* The id of the next function, class: the size of the vector, which has an
\* entry for every declaration.
NextFuncId  == Len(funcs_)
NextClassId == Len(classes_)

\* A heading makes its function callable, in its own body too; a name that
\* was declared before keeps the id of the first declaration.
parseFuncDecl(d) ==
  /\ AtDeclaration
  /\ Len(funcs_) < MaxFuncs
  /\ Len(d.args) <= MaxArgs
  /\ func_name_to_id_' = Insert(func_name_to_id_, d.name, NextFuncId)
  /\ funcs_' = Append(funcs_, NewFunc(d))
  /\ phase' = "body"
  /\ UNCHANGED <<curr_offset_, classes_, strings_, class_name_to_id_, cursor, out>>

TooManyArgs(d) ==
  /\ AtDeclaration
  /\ Len(d.args) > MaxArgs
  /\ parseError

\* isRefType, typeNameToSize: a field type is built in or a class declared
\* before; the class being declared is not there yet.
KnownType(t) == t \in BuiltinType \cup DOMAIN class_name_to_id_
isRefType(t) == t \notin BuiltinType

FieldInfo(c, i) == [ name   |-> c.fields[i].name, size   |-> 8,
                     offset |-> i - 1,            is_ref |-> isRefType(c.fields[i].type) ]

parseClass(c) ==
  /\ AtDeclaration
  /\ Len(classes_) < MaxClasses
  /\ \A i \in DOMAIN c.fields : KnownType(c.fields[i].type)
  /\ class_name_to_id_' = Insert(class_name_to_id_, c.name, NextClassId)
  /\ classes_' = Append(classes_, [ name   |-> c.name,
                                    size   |-> 8 * Len(c.fields),
                                    fields |-> [i \in DOMAIN c.fields |-> FieldInfo(c, i)] ])
  /\ phase' = "class"
  /\ UNCHANGED <<curr_offset_, funcs_, func_name_to_id_, strings_, cursor, out>>

UnknownType(c) ==
  /\ AtDeclaration
  /\ \E i \in DOMAIN c.fields : ~KnownType(c.fields[i].type)
  /\ parseError

addLexedLabel(l) ==
  /\ phase = "body"
  /\ l \notin DOMAIN current.labels
  /\ funcs_' = [funcs_ EXCEPT ![Len(funcs_)] =
                  [current EXCEPT !.labels = Insert(@, l, curr_offset_),
                                  !.marks  = Insert(@, l, Len(current.instrs) + 1)]]
  /\ UNCHANGED <<phase, curr_offset_, classes_, names, cursor, out>>

LabelRedeclared(l) ==
  /\ phase = "body"
  /\ l \in DOMAIN current.labels
  /\ parseError

\* The instruction and, for a jump, its JumpInfo: name is the label, at the
\* offset of the instruction.  (Others keep name and at as history.)
parseInstr(s) ==
  /\ phase = "body"
  /\ curr_offset_ < MaxCode
  /\ Len(current.instrs) < MaxInstrs
  /\ \E o \in Operands(s) :
       funcs_' = [funcs_ EXCEPT ![Len(funcs_)].instrs =
                    Append(@, [ op |-> s.op, name |-> s.name, member |-> s.member,
                                at |-> curr_offset_, arg |-> o[1], field |-> o[2] ])]
  /\ strings_' = IF s.op = "LDA_STR"
                 THEN Insert(strings_, s.name, StringId(s.name))
                 ELSE strings_
  /\ curr_offset_' = curr_offset_ + ByteSize[s.op]
  /\ UNCHANGED <<phase, classes_, func_name_to_id_, class_name_to_id_, cursor, out>>

UnknownOperand(s) ==
  /\ phase = "body"
  /\ Operands(s) = {}
  /\ parseError

\* A string that stands alone: parseString reads the string after it, and
\* only that one gets an id.
parseString(str) ==
  /\ phase = "body"
  /\ strings_' = Insert(strings_, str, StringId(str))
  /\ UNCHANGED <<phase, curr_offset_, funcs_, classes_, func_name_to_id_,
                 class_name_to_id_, cursor, out>>

\* The end of the text, or a character the lexer does not know, which
\* parseFuncBody and firstPass take for the end.  After a class the last
\* lexeme is still current, and it is not the keyword firstPass asks for.
EndOfInput ==
  /\ phase \in {"top", "body"}
  /\ phase' = "resolve"
  /\ UNCHANGED <<curr_offset_, funcs_, classes_, names, cursor, out>>

EndAfterClass == phase = "class" /\ parseError

-----------------------------------------------------------------------------
Jumps(f) == { i \in DOMAIN f.instrs : IsJump(f.instrs[i].op) }

Resolvable == \A g \in DOMAIN funcs_ : \A i \in Jumps(funcs_[g]) :
                funcs_[g].instrs[i].name \in DOMAIN funcs_[g].labels

\* Mutants of Resolved: the offset counts from the end of the jump, or is
\* that of the label alone.
ResolvedFromNext(f) ==
  [f EXCEPT !.instrs =
     [i \in DOMAIN f.instrs |->
        LET b == f.instrs[i]
        IN  IF IsJump(b.op)
            THEN [b EXCEPT !.arg = f.labels[b.name] - b.at - ByteSize[b.op]] ELSE b]]
ResolvedAbsolute(f) ==
  [f EXCEPT !.instrs =
     [i \in DOMAIN f.instrs |->
        LET b == f.instrs[i]
        IN  IF IsJump(b.op) THEN [b EXCEPT !.arg = f.labels[b.name]] ELSE b]]

Resolved(f) ==
  [f EXCEPT !.instrs =
     [i \in DOMAIN f.instrs |->
        LET b == f.instrs[i]
        IN  IF IsJump(b.op) THEN [b EXCEPT !.arg = f.labels[b.name] - b.at] ELSE b]]

resloveJumps ==
  /\ phase = "resolve"
  /\ Resolvable
  /\ funcs_' = [g \in DOMAIN funcs_ |-> Resolved(funcs_[g])]
  /\ phase' = "write"
  /\ UNCHANGED <<curr_offset_, classes_, names, cursor, out>>

UnresolvedLabel ==
  /\ phase = "resolve"
  /\ ~Resolvable
  /\ parseError

\* File::writeBytes: b goes to the end of Code.
writeBytes(code, b) == [ size |-> code.size + ByteSize[b.op],
                         at   |-> Insert(code.at, code.size, b) ]

\* The loops of writeCode over functions and their instructions.
writeCode ==
  /\ phase = "write"
  /\ cursor[1] \in DOMAIN funcs_
  /\ LET instrs == funcs_[cursor[1]].instrs
     IN  IF cursor[2] \in DOMAIN instrs
         THEN /\ out' = [out EXCEPT !.Code = writeBytes(@, instrs[cursor[2]])]
              /\ cursor' = <<cursor[1], cursor[2] + 1>>
         ELSE /\ cursor' = <<cursor[1] + 1, 1>>
              /\ UNCHANGED out
  /\ UNCHANGED <<phase, curr_offset_, funcs_, classes_, names>>

FileFunction(f) ==
  [ id   |-> func_name_to_id_[f.name], func_start  |-> f.offset,
    name |-> f.name,                   num_of_args |-> Len(f.args),
    num_of_vregs |-> NumRegs ]

FileClass(c) ==
  [ id     |-> class_name_to_id_[c.name], size |-> c.size, name |-> c.name,
    fields |-> [i \in DOMAIN c.fields |->
                  [ id     |-> i - 1,
                    is_ref |-> IF c.fields[i].is_ref THEN 1 ELSE 0,
                    size   |-> c.fields[i].size,
                    offset |-> c.fields[i].offset,
                    name   |-> c.fields[i].name ]] ]

\* The iteration order of an unordered_map: any.
Orders(S) == { q \in [1 .. Cardinality(S) -> S] :
                 \A i, j \in 1 .. Cardinality(S) : i # j => q[i] # q[j] }

\* writeStrings, writeFunctions and writeClasses, after writeCode.
writeTables ==
  /\ phase = "write"
  /\ cursor[1] \notin DOMAIN funcs_
  /\ \E order \in Orders(DOMAIN strings_) :
       out' = [out EXCEPT
                 !.Strings   = [i \in DOMAIN order |->
                                  [id |-> strings_[order[i]], str |-> order[i]]],
                 !.Functions = [g \in DOMAIN funcs_ |-> FileFunction(funcs_[g])],
                 !.Classes   = [c \in DOMAIN classes_ |-> FileClass(classes_[c])]]
  /\ phase' = "written"
  /\ UNCHANGED <<curr_offset_, funcs_, classes_, names, cursor>>

AsmNext ==
  \/ \E d \in FuncDecl : parseFuncDecl(d) \/ TooManyArgs(d)
  \/ \E c \in ClassDecl : parseClass(c) \/ UnknownType(c)
  \/ \E l \in Label : addLexedLabel(l) \/ LabelRedeclared(l)
  \/ \E s \in Statement : parseInstr(s) \/ UnknownOperand(s)
  \/ \E str \in Literal : parseString(str)
  \/ EndOfInput \/ EndAfterClass
  \/ resloveJumps \/ UnresolvedLabel
  \/ writeCode \/ writeTables

AsmSpec == AsmInit /\ [][AsmNext]_asmVars

-----------------------------------------------------------------------------
(***************************************************************************)
(* Properties.                                                             *)
(***************************************************************************)
Instr == [ op     : Op,
           name   : { s.name : s \in Statement },
           member : { s.member : s \in Statement },
           at     : Nat, arg : Int, field : Nat ]

\* The first offset after instruction b.
After(b) == b.at + ByteSize[b.op]

\* Where the code of function g ends and that of the next one starts.
EndOf(g) == IF g = Len(funcs_) THEN curr_offset_ ELSE funcs_[g + 1].offset

\* Where instruction i of function g is: past the last one, the end.
Position(g, i) == IF i \in DOMAIN funcs_[g].instrs THEN funcs_[g].instrs[i].at
                                                   ELSE EndOf(g)

\* Code has the instructions of the source; the name tables map to ids of
\* the tables they index.
AsmTypeOK ==
  /\ phase \in {"top", "body", "class", "resolve", "write", "written", "error"}
  /\ curr_offset_ \in Nat
  /\ \A g \in DOMAIN funcs_ :
       /\ funcs_[g].offset \in Nat
       /\ funcs_[g].instrs \in Seq(Instr)
       /\ DOMAIN funcs_[g].labels = DOMAIN funcs_[g].marks
  /\ \A n \in DOMAIN func_name_to_id_ : func_name_to_id_[n] \in 0 .. Len(funcs_) - 1
  /\ \A n \in DOMAIN class_name_to_id_ : class_name_to_id_[n] \in 0 .. Len(classes_) - 1
  /\ IsFiniteSet(DOMAIN strings_)
  /\ \A n \in DOMAIN strings_ : strings_[n] \in 0 .. NumStrIds - 1
  /\ cursor \in (Nat \ {0}) \X (Nat \ {0})

\* Every jump of the program, taken, reaches the instruction its label stands
\* before in the source: JumpInfo, addLexedLabel and resloveJumps agree on
\* where it is, and writeCode puts the two where the first pass counted them.
JumpsLand ==
  phase = "written" =>
    \A g \in DOMAIN funcs_ : \A i \in Jumps(funcs_[g]) :
      LET b == funcs_[g].instrs[i]
          k == funcs_[g].marks[b.name]
          t == b.at + b.arg
      IN  /\ b.at \in DOMAIN out.Code.at
          /\ out.Code.at[b.at] = b
          /\ IF k \in DOMAIN funcs_[g].instrs
             THEN t \in DOMAIN out.Code.at /\ out.Code.at[t] = funcs_[g].instrs[k]
             ELSE t = EndOf(g)

\* Instruction i of function g calls the first function of its name.
CallDefined(g, i) ==
  LET b == funcs_[g].instrs[i]
  IN  /\ b.arg \in 0 .. g - 1
      /\ funcs_[b.arg + 1].name = b.name
      /\ \A h \in 1 .. b.arg : funcs_[h].name # b.name

\* A call is encoded as the id of the first function of its name, a function
\* declared no later than the caller (parseFuncDecl, parseCallFuncId).
CallsDefined ==
  \A g \in DOMAIN funcs_ : \A i \in DOMAIN funcs_[g].instrs :
    IsCall(funcs_[g].instrs[i].op) => CallDefined(g, i)

-----------------------------------------------------------------------------
(***************************************************************************)
(* The inductive invariant.                                                *)
(***************************************************************************)
\* Instructions follow each other without gap from the function's offset to
\* its end, and a label is the position of the instruction it stands before.
FuncLayout(g) ==
  LET f == funcs_[g] IN
  /\ Position(g, 1) = f.offset
  /\ \A i \in DOMAIN f.instrs : Position(g, i + 1) = After(f.instrs[i])
  /\ \A l \in DOMAIN f.labels : /\ f.marks[l] \in 1 .. Len(f.instrs) + 1
                                /\ f.labels[l] = Position(g, f.marks[l])

Layout ==
  /\ IF funcs_ = <<>> THEN curr_offset_ = 0 ELSE funcs_[1].offset = 0
  /\ \A g \in DOMAIN funcs_ : FuncLayout(g)

JumpsResolved ==
  phase \in {"write", "written"} =>
    \A g \in DOMAIN funcs_ : \A i \in Jumps(funcs_[g]) :
      LET b == funcs_[g].instrs[i]
      IN  b.name \in DOMAIN funcs_[g].labels /\ b.at + b.arg = funcs_[g].labels[b.name]

\* Instruction i of function g has been written.
IsWritten(g, i) == g < cursor[1] \/ (g = cursor[1] /\ i < cursor[2])

\* writeCode puts every instruction where the first pass counted it.
CodeWritten ==
  IF phase \in {"write", "written"}
  THEN /\ cursor[1] \in 1 .. Len(funcs_) + 1
       /\ out.Code.size = IF cursor[1] \in DOMAIN funcs_
                          THEN Position(cursor[1], cursor[2]) ELSE curr_offset_
       /\ cursor[1] \in DOMAIN funcs_ =>
            cursor[2] \in 1 .. Len(funcs_[cursor[1]].instrs) + 1
       /\ phase = "written" => cursor[1] \notin DOMAIN funcs_
       /\ \A o \in DOMAIN out.Code.at : o < out.Code.size
       /\ \A g \in DOMAIN funcs_ : \A i \in DOMAIN funcs_[g].instrs :
            IsWritten(g, i) =>
              LET b == funcs_[g].instrs[i]
              IN  b.at \in DOMAIN out.Code.at /\ out.Code.at[b.at] = b
  ELSE cursor = <<1, 1>> /\ out = NoFile

\* The name table has the first function of each name, and all names.
IsFirst(n, id) == /\ funcs_[id + 1].name = n
                  /\ \A h \in 1 .. id : funcs_[h].name # n

FuncNames ==
  /\ \A n \in DOMAIN func_name_to_id_ : IsFirst(n, func_name_to_id_[n])
  /\ \A g \in DOMAIN funcs_ : funcs_[g].name \in DOMAIN func_name_to_id_

InBody == phase = "body" => funcs_ # <<>>

IInv == AsmTypeOK /\ InBody /\ Layout /\ JumpsResolved /\ CodeWritten
        /\ FuncNames /\ CallsDefined

=============================================================================
