---------------------------- MODULE LangCompiler ----------------------------
(***************************************************************************)
(* Code generation (lang2shrimp.cpp).  Every name, of a variable or of the *)
(* compiler's own, has one register in a function, and names are also how  *)
(* the parts of an expression find one another's results: a number is in   *)
(* the register of its literal, a parenthesis in the register of the       *)
(* leftmost leaf inside, and an operand whose name is an operator is in    *)
(* the accumulator.                                                        *)
(*                                                                         *)
(* The state threaded through is a record:                                 *)
(*   code, off    instructions by offset; curr_offset_                     *)
(*   regs         the register map of the current function                 *)
(*   ids, strs    funcName_to_id_, strings_                                *)
(*   funcs        funcs_: [name, start, nargs, regs, marks]                *)
(* marks is a history variable: where the statements of the function, and  *)
(* the parts of them at which control can leave or enter, begin.           *)
(***************************************************************************)
EXTENDS LangCode, FiniteSets, SequencesExt

OpName  == {"*", "/", "+", "-"}
CmpName == {"<", ">", "=="}

\* F(st); TLC evaluates st first, where it would put off an argument.
After(st, F(_)) == CHOOSE r \in { F(s) : s \in {st} } : TRUE

\* Mutant of NextReg: one register too few before they are used again.
NextRegOfLess(regs) == Cardinality(DOMAIN regs) % (NumRegs - 1)

\* The register of a name that is new: the number of names there are, cut to
\* the size of an R8Id.
NextReg(regs) == Cardinality(DOMAIN regs) % NumRegs

\* insert: a name that has a register keeps it.
InsertReg(st, name, type) ==
  IF name \in DOMAIN st.regs THEN st
  ELSE [st EXCEPT !.regs = @ @@
          (name :> [reg |-> NextReg(st.regs), type |-> type])]

\* operator[]: a name that has none gets register 0.
Touch(st, name) ==
  IF name \in DOMAIN st.regs THEN st
  ELSE [st EXCEPT !.regs = @ @@ (name :> [reg |-> 0, type |-> "INT"])]

\* Append an instruction with the registers of names, all of which have one.
AddInstr(st, op, names, imm) ==
  [st EXCEPT !.code = @ @@ (st.off :> [op |-> op, imm |-> imm,
                                        r  |-> [i \in DOMAIN names |-> st.regs[names[i]].reg]]),
             !.off  = @ + ByteSize(op)]

Emit(st, op, names, imm) == AddInstr(FoldLeft(Touch, st, names), op, names, imm)

Mark(st) == [st EXCEPT !.marks = Append(@, st.off)]

TypeOf(st, name) == Touch(st, name).regs[name].type

\* The instruction for the type of an operand or array; strings have none.
EmitTyped(st, type, int, float, names, imm) ==
  IF type = "STRING" THEN FoldLeft(Touch, st, names)
  ELSE Emit(st, IF type = "INT" THEN int ELSE float, names, imm)

StaIfKnown(st, name) ==
  IF name = "<ret>" \/ name \in DOMAIN st.regs THEN Emit(st, "STA", <<name>>, 0) ELSE st

-----------------------------------------------------------------------------
RECURSIVE compileExpr(_, _, _), Leaf(_), Renamed(_), compileStatements(_, _)

\* The leftmost leaf of a parenthesis.
Leaf(node) == IF node.kind = "EXPR" THEN Leaf(node.kids[1]) ELSE node

\* The name under which an operand's result is looked up afterwards
\* (compileArithm and compileLogic store it with setName).
OperandName(kid, logic) ==
  LET leaf == Leaf(kid.kids[1])
  IN  CASE kid.kind = "NUMBER" -> kid.tmp
        [] kid.kind = "ARRAY" /\ logic -> "<tmp_reg_arr>"
        [] /\ kid.kind = "EXPR" /\ Len(kid.kids) = 1
           /\ logic \/ kid.name \notin OpName ->
             CASE leaf.kind = "NUMBER"     -> leaf.tmp
               [] leaf.kind = "IDENTIFIER" -> leaf.name
               [] OTHER                    -> kid.name
        [] OTHER -> kid.name

\* An expression that has been compiled: the arrays it compares have lost
\* their names (the other names set in compiling are the ones set again).
Renamed(expr) ==
  [expr EXCEPT !.kids = [i \in DOMAIN @ |->
     LET kid == Renamed(expr.kids[i])
     IN  IF expr.name \in CmpName /\ kid.kind = "ARRAY"
         THEN [kid EXCEPT !.name = "<tmp_reg_arr>"] ELSE kid]]

\* The code of one operand, to go by the name.  Arithmetic leaves an inner
\* operation in the accumulator; comparisons have no code for one.
compileOperand(kid, name, logic, st) ==
  LET named == [kid EXCEPT !.name = name]
      leaf  == Leaf(kid)
  IN  CASE ~logic /\ kid.name \in OpName -> compileExpr(kid, "", st)
        [] kid.kind = "IDENTIFIER" /\ ~logic -> compileExpr(kid, name, st)
        [] kid.kind = "NUMBER" -> compileExpr(named, name, InsertReg(st, name, kid.type))
        [] kid.kind = "EXPR" /\ (logic \/ kid.name \notin OpName) ->
             CASE Len(kid.kids) = 1 /\ leaf.kind = "NUMBER" ->
                    compileExpr(named, name, InsertReg(st, name, leaf.type))
               [] Len(kid.kids) = 1 /\ leaf.kind = "IDENTIFIER" -> compileExpr(named, name, st)
               [] OTHER -> st
        [] kid.kind = "ARRAY" /\ logic ->
             compileExpr(kid, name, InsertReg(st, name, kid.type))
        [] OTHER -> st

compileOperands(expr, logic, st) ==
  FoldLeft(LAMBDA acc, kid : After(acc, LAMBDA s : compileOperand(kid, OperandName(kid, logic), logic, s)),
           st, expr.kids)

compileArithmOperation(op, source, st) ==
  LET int   == [x \in OpName |-> CASE x = "*" -> "MUL_I32" [] x = "/" -> "DIV_I32"
                                   [] x = "+" -> "ADD_I32" [] x = "-" -> "SUB_I32"]
      float == [x \in OpName |-> CASE x = "*" -> "MUL_F" [] x = "/" -> "DIV_F"
                                   [] x = "+" -> "ADD_F" [] x = "-" -> "SUB_F"]
  IN  EmitTyped(st, TypeOf(st, source), int[op], float[op], <<source>>, 0)

\* A right operand in the accumulator changes places with the left one.
LoadOperands(left, right, st) ==
  IF right \in OpName
  THEN LET swap == InsertReg(st, "<tmp_swap>", "INT")
       IN  Emit(Emit(Emit(swap, "STA", <<"<tmp_swap>">>, 0), "LDA", <<left>>, 0),
                "MOV", <<"<tmp_swap>", left>>, 0)
  ELSE IF left \in OpName THEN st
  ELSE Emit(st, "LDA", <<left>>, 0)

compileArithm(expr, name, st) ==
  LET left  == OperandName(expr.kids[1], FALSE)
      right == OperandName(expr.kids[2], FALSE)
      args  == LoadOperands(left, right, compileOperands(expr, FALSE, st))
  IN  StaIfKnown(compileArithmOperation(expr.name, right, args), name)

compileLogic(expr, name, st) ==
  LET left  == OperandName(expr.kids[1], TRUE)
      right == OperandName(expr.kids[2], TRUE)
      lda   == Emit(compileOperands(expr, TRUE, st), "LDA", <<left>>, 0)
      op    == CASE expr.name = ">" -> "CMP_GG_I32" [] expr.name = "<" -> "CMP_LL_I32"
                 [] expr.name = "==" -> "CMP_EQ_I32"
  IN  StaIfKnown(Emit(lda, op, <<right>>, 0), name)

compileArrInit(arr, size, st) ==
  EmitTyped(st, arr.type, "ARR_NEW_I32", "ARR_NEW_F", <<arr.name, size>>, 0)

compileArrStore(arr, idx, val, st) ==
  EmitTyped(Emit(st, "LDA", <<val>>, 0), arr.type, "ARR_STA_I32", "ARR_STA_F", <<arr.name, idx>>, 0)

compileArrLoad(arr, idx, to, st) ==
  Emit(EmitTyped(st, arr.type, "ARR_LDA_I32", "ARR_LDA_F", <<arr.name, idx>>, 0), "STA", <<to>>, 0)

-----------------------------------------------------------------------------
CallOp == <<"CALL_0ARG", "CALL_1ARG", "CALL_2ARG", "CALL_3ARG", "CALL_4ARG">>

\* A function not met yet gets id 0, and keeps it (operator[], then insert).
FuncId(st, f) == IF f \in DOMAIN st.ids THEN st ELSE [st EXCEPT !.ids = @ @@ (f :> 0)]

\* Mutant of compileCall: the result stays in the accumulator.
compileCallDropResult(call, name, st) ==
  LET f == FuncId(st, call.name)
  IN  Mark(Emit(f, CallOp[Len(call.args) + 1], call.args, f.ids[call.name]))

\* The call of a function of the program.
compileCall(call, name, st) ==
  LET f == FuncId(st, call.name)
  IN  Emit(Mark(Emit(f, CallOp[Len(call.args) + 1], call.args, f.ids[call.name])), "STA", <<name>>, 0)

compileIntrinsic(call, name, st) ==
  LET Typed(x, int, float, str) ==
        CASE TypeOf(st, x) = "INT" -> int [] TypeOf(st, x) = "FLOAT" -> float [] OTHER -> str
      Code(s, c, args) == Emit(s, "INTRINSIC", args, c)
      Sta(s) == Emit(s, "STA", <<name>>, 0)
  IN  CASE call.intrinsic = "PRINT"  -> 
             Code(st, Typed(call.args[1], "PRINT_I32", "PRINT_F", "PRINT_STR"), <<call.args[1]>>)
        [] call.intrinsic = "SCAN"   ->
             Sta(EmitTyped(st, TypeOf(st, name), "INTRINSIC", "INTRINSIC", <<>>,
                           Typed(name, "SCAN_I32", "SCAN_F", "")))
        [] call.intrinsic = "SQRT"   -> Sta(Code(st, "SQRT", <<call.args[1]>>))
        [] call.intrinsic = "CONCAT" -> Sta(Code(st, "CONCAT", SubSeq(call.args, 1, 2)))
        [] call.intrinsic = "SUBSTR" -> Sta(Code(Emit(st, "LDA", <<call.args[1]>>, 0), "SUBSTR",
                                                 SubSeq(call.args, 2, 3)))

InsertStr(st, str) ==
  IF str \in DOMAIN st.strs THEN st
  ELSE [st EXCEPT !.strs = @ @@ (str :> Cardinality(DOMAIN st.strs))]

\* What a node itself is compiled to, after what is inside it.
compileNode(expr, name, in) ==
  LET str == InsertStr(in, expr.val)
      idx == compileExpr(Renamed(expr.kids[1]), "<idx_for_load_arr>",
                         InsertReg(in, "<idx_for_load_arr>", "INT"))
  IN  CASE expr.kind = "NUMBER" ->
             EmitTyped(in, expr.type, "MOV_IMM_I32", "MOV_IMM_F", <<name>>, expr.val)
        [] expr.kind = "STRING" ->
             Emit(Emit(str, "LDA_STR", <<>>, str.strs[expr.val]), "STA", <<name>>, 0)
        [] expr.kind = "IDENTIFIER" -> Emit(in, "MOV", <<expr.name, name>>, 0)
        [] expr.kind = "ARRAY" -> compileArrLoad(expr, "<idx_for_load_arr>", name, idx)
        [] expr.kind = "FUNCTION_CALL" ->
             IF expr.intrinsic = "IDENTIFIER" THEN compileCall(expr, name, in)
             ELSE compileIntrinsic(expr, name, in)
        [] OTHER -> in

\* The operation or the children first, each with the same target; the index
\* of an array read is thus compiled twice, the first time into the target.
compileExpr(expr, name, st) ==
  compileNode(expr, name,
    CASE expr.name \in OpName  -> compileArithm(expr, name, st)
      [] expr.name \in CmpName -> compileLogic(expr, name, st)
      [] OTHER -> FoldLeft(LAMBDA acc, kid : compileExpr(kid, name, acc), st, expr.kids))

-----------------------------------------------------------------------------
\* Assignments and declarations; a declaration of an array has no value, and
\* creates nothing unless its size is a literal.
compileVarDecl(node, st) ==
  LET val  == node.kids[1]
      expr == node.kids[2]
      size == val.kids[1]
      var  == InsertReg(st, val.name, val.type)
      Into(name, e, type, s) == compileExpr(e, name, InsertReg(s, name, type))
  IN  CASE val.kind = "IDENTIFIER" -> IF expr.kind = "EXPR" THEN Into(val.name, expr, val.type, st) ELSE var
        [] val.kind = "ARRAY" /\ Len(node.kids) = 1 ->
             IF size.kind = "NUMBER" THEN compileArrInit(val, size.tmp, Into(size.tmp, size, size.type, var))
             ELSE st
        [] val.kind = "ARRAY" /\ Len(node.kids) > 1 ->
             compileArrStore(val, "<idx_for_store_arr>", "<assign_val_arr>",
               Into("<assign_val_arr>", expr, val.type, Into("<idx_for_store_arr>", size, "INT", st)))

\* The value of a condition, compared with zero by a jump to be filled in.
compileCondition(cond, reg, st) ==
  LET c == compileExpr(cond, reg, InsertReg(st, reg, "INT"))
  IN  Emit(Emit(c, "LDA", <<reg>>, 0), "MOV_IMM_I32", <<reg>>, 0)

\* Mutant of LoopExit: the jump back is taken for one of four bytes.
LoopExitShort(from, back) == back - from + ByteSize("MOV")

\* How far it is out of a loop: past the jump back.
LoopExit(from, back) == back - from + ByteSize("JUMP")

\* The jump that leaves the loop, at offset exit, is filled in.
LoopBack(test, exit, step) ==
  [Emit(step, "JUMP", <<>>, test - step.off) EXCEPT !.code[exit].imm = LoopExit(exit, step.off)]

LoopBody(node, test, cond) ==
  LET body == compileStatements(node.kids[4], Emit(cond, "JUMP_EQ", <<"<for_init_stmt>">>, 0))
  IN  LoopBack(test, cond.off, Mark(compileVarDecl(node.kids[3], Mark(body))))

LoopTest(node, init) ==
  LoopBody(node, init.off, compileCondition(node.kids[2], "<for_init_stmt>", init))

compileForStmt(node, st) == LoopTest(node, Mark(compileVarDecl(node.kids[1], st)))

IfBody(node, cond) ==
  LET body == compileStatements(node.kids[2], Emit(cond, "JUMP_EQ", <<"<if_stmt>">>, 0))
  IN  [body EXCEPT !.code[cond.off].imm = body.off - cond.off]

compileIfStmt(node, st) == IfBody(node, compileCondition(node.kids[1], "<if_stmt>", st))

\* The value goes to the register of the variable it begins with, if any.
compileRetStmt(node, st) ==
  LET expr == node.kids[1]
      name == IF expr.kids[1].kind = "IDENTIFIER" /\ expr.name \notin CmpName
              THEN expr.kids[1].name ELSE "<ret>"
      val  == compileExpr(expr, name, InsertReg(st, name, "INT"))
  IN  Emit(Emit(val, "LDA", <<name>>, 0), "RET", <<>>, 0)

compileStatement(node, st) ==
  CASE node.kind = "ASSIGN_EXPR"      -> compileVarDecl(node, st)
    [] node.kind = "RETURN_STATEMENT" -> compileRetStmt(node, st)
    [] node.kind = "IF_STATEMENT"     -> compileIfStmt(node, st)
    [] node.kind = "FOR_STATEMENT"    -> compileForStmt(node, st)
    [] node.kind = "FUNCTION_CALL"    -> compileExpr(node, "", st)

compileStatements(node, st) ==
  FoldLeft(LAMBDA acc, stmt : After(Mark(acc), LAMBDA s : compileStatement(stmt, s)), st, node.kids)

\* A function begins at offset start, and is compiled.
AddFunc(node, start, body) ==
  [body EXCEPT !.funcs = Append(@, [name |-> node.name, start |-> start, regs |-> body.regs,
                                    nargs |-> Len(node.args), marks |-> body.marks])]

\* Every parameter is given the register of the first argument.
compileFunc(node, st) ==
  LET size  == Len(st.funcs) + 1
      named == [st EXCEPT !.ids = IF node.name \in DOMAIN @ THEN @ ELSE @ @@ (node.name :> size),
                          !.regs = FoldLeft(LAMBDA m, a : IF a.name \in DOMAIN m THEN m
                                              ELSE m @@ (a.name :> [reg |-> ArgReg(1), type |-> a.type]),
                                            Empty, node.args),
                          !.marks = <<>>]
  IN  AddFunc(node, st.off, compileStatements(node, named))

NothingCompiled ==
  [code |-> Empty, off |-> 0, regs |-> Empty, ids |-> Empty, strs |-> Empty, marks |-> <<>>,
   funcs |-> <<>>]

\* What is written of a compilation: the code, and the table of functions
\* with the ids the names have in the end.
Written(c) ==
  [code  |-> c.code,
   funcs |-> [i \in DOMAIN c.funcs |-> c.funcs[i] @@ [id |-> c.ids[c.funcs[i].name]]]]

\* Compiler::ast2file.
Compiled(funcNodes) ==
  Written(FoldLeft(LAMBDA acc, f : compileFunc(f, acc), NothingCompiled, funcNodes))

=============================================================================
