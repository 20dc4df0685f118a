----------------------------- MODULE LangParser -----------------------------
(***************************************************************************)
(* The parser of the toy language (parser.cpp), a recursive descent with   *)
(* two positions in the tokens: the current one and the one to return to.  *)
(* A rule that fails returns to the latter, which the rules it has called  *)
(* may have moved on.                                                      *)
(*                                                                         *)
(* The state handed from rule to rule is a record:                         *)
(*   toks, at, saved   tokens_, token_iter_, reserved_token_iter_          *)
(*   types, tmps       ident_to_type, num_of_tmp_regs_                     *)
(*   node, status      the AstRet: a node to add children to, a STATUS     *)
(*   args              what funcParamCall or funcParamDecl returns         *)
(* A token is [t, v]: its type (for signs the sign itself) and value;      *)
(* numbers have the type of their literal in addition.                     *)
(***************************************************************************)
EXTENDS LangCode, SequencesExt

MaxArgs == 4

Node(kind, name) == [kind |-> kind, name |-> name, kids |-> <<>>]

AddChild(node, kid) == [node EXCEPT !.kids = Append(@, kid)]

Tok(s)        == s.toks[s.at]
Success(s)    == [s EXCEPT !.status = "SUCCESS"]
Fail(s)       == [s EXCEPT !.status = "FAIL", !.at = s.saved]
Advance(s)    == [s EXCEPT !.at = @ + 1]
Save(s)       == [s EXCEPT !.saved = s.at]
Under(s, n)   == [s EXCEPT !.node = n]
Add(s, kid)   == [s EXCEPT !.node = AddChild(@, kid)]

\* Parser::term and the failure every caller gives it.
term(t, s) == IF Tok(s).t = t THEN Success(Advance(s)) ELSE Fail(s)

RECURSIVE Rule(_, _)

\* Rules one after the other, until one does not succeed.
Chain(rules, s) ==
  FoldLeft(LAMBDA acc, r : IF acc.status = "SUCCESS" THEN Rule(r, acc) ELSE acc,
           Success(s), rules)

\* A statement: a node of its own, added to the block when all has succeeded.
Statement(kind, rules, s) ==
  LET c == Chain(rules, Under(s, Node(kind, "")))
  IN  IF c.status = "SUCCESS" THEN Save(Add(Under(c, s.node), c.node))
      ELSE Fail(Under(c, s.node))

\* Statements of a block end before its bracket.
InBlock(kind, rules, s) ==
  IF Tok(s).t = "}" THEN [s EXCEPT !.status = "END"] ELSE Statement(kind, rules, s)

\* The statements between the brackets of an if or for.
Body(kind, s) ==
  LET b == Rule("stmtsDecl", Save(Under(s, Node(kind, ""))))
  IN  IF b.status = "FAIL" THEN Fail(Under(b, s.node))
      ELSE Success(Add(Under(b, s.node), b.node))

-----------------------------------------------------------------------------
\* expressionDash, simpleDash, factorDash: at most one operator, which names
\* the node that has the left operand already.
Dash(ops, operand, s) ==
  IF Tok(s).t \notin ops THEN Success([s EXCEPT !.at = s.saved])
  ELSE Rule(operand, Save(Advance([s EXCEPT !.node.name = Tok(s).v])))

\* The right operand of simpleDash and factorDash.
Operand(rule, s) ==
  LET c == Rule(rule, Under(s, Node("EXPR", "")))
  IN  IF c.status = "SUCCESS" THEN Save(Add(Under(c, s.node), c.node))
      ELSE Under(c, s.node)

\* simple and summand: an operand and what follows it.
Binary(operand, dash, s) ==
  LET l == Rule(operand, s)
  IN  IF l.status = "SUCCESS" THEN Success(Save(Rule(dash, l))) ELSE Fail(l)

expression(s) ==
  LET l == Rule("simple", Under(Save(s), Node("EXPR", "")))
  IN  IF l.status = "SUCCESS"
      THEN LET e == Save(Rule("expressionDash", l))
           IN  Success(Add(Under(e, s.node), e.node))
      ELSE Fail(Under(l, s.node))

factor(s) ==
  LET p == Rule("primary", s)
      b == Chain(<<"(", "expression", ")">>, p)
  IN  IF p.status = "SUCCESS" THEN Save(p)
      ELSE IF b.status = "SUCCESS" THEN Save(b)
      ELSE Fail(b)

\* Number and String; tmp is the name of the register the literal goes to,
\* with a number that is an R8Id.
Literal(kind, prefix, s, val, type) ==
  Success(Save(Add(Advance([s EXCEPT !.tmps = (@ + 1) % NumRegs]),
    [kind |-> kind, name |-> "", kids |-> <<>>, val |-> val, type |-> type,
     tmp |-> prefix \o ToString(s.tmps)])))

\* A sign before anything but a number is read and dropped.
primary(s) ==
  LET f   == Rule("functionCall", s)
      neg == Tok(f).t = "-"
      p   == IF neg THEN Advance(f) ELSE f
      v   == Rule("value", p)
  IN  CASE f.status = "SUCCESS" -> Save(f)
        [] f.status # "SUCCESS" /\ Tok(p).t = "NUMBER" ->
             Literal("NUMBER", "<tmp>", p, IF neg THEN -Tok(p).v ELSE Tok(p).v, Tok(p).type)
        [] f.status # "SUCCESS" /\ Tok(p).t = "STRING" ->
             Literal("STRING", "<str>", p, Tok(p).v, "STRING")
        [] OTHER -> IF v.status = "SUCCESS" THEN Save(v) ELSE Fail(v)

\* The type a name was first given, in any function, stays.  An index that
\* does not parse still gives an array.
value(init, type, s) ==
  LET x     == Tok(s).v
      t     == [s EXCEPT !.types = IF x \in DOMAIN @ THEN @
                                   ELSE @ @@ (x :> IF init THEN type ELSE "INT")]
      n     == Advance(t)
      Of(k) == [kind |-> k, name |-> x, kids |-> <<>>, type |-> t.types[x]]
      i     == Rule(IF init THEN "primary" ELSE "expression", Under(Advance(n), Of("ARRAY")))
      b     == term("]", IF i.status = "SUCCESS" THEN i ELSE Fail(i))
  IN  IF Tok(s).t # "IDENTIFIER" THEN Fail(s)
      ELSE IF Tok(n).t = "[" THEN Success(Add(Under(b, s.node), b.node))
      ELSE Success(Add(n, Of("IDENTIFIER")))

castToVarType(v) == CASE v = "float" -> "FLOAT" [] v = "string" -> "STRING" [] OTHER -> "INT"

\* The type and name of varDecl.
declared(s) ==
  IF Tok(s).t = "TYPE" THEN value(TRUE, castToVarType(Tok(s).v), Advance(s)) ELSE Fail(s)

-----------------------------------------------------------------------------
RECURSIVE funcParamCall(_), funcParamDecl(_)

\* Up to four names, a comma after each but the last.
funcParamCall(s) ==
  LET n == Advance([s EXCEPT !.args = Append(@, Tok(s).v)])
  IN  IF Len(s.args) = MaxArgs \/ Tok(s).t # "IDENTIFIER" THEN Save(s)
      ELSE IF Tok(n).t = "," THEN funcParamCall(Advance(n))
      ELSE Save(n)

funcParamDecl(s) ==
  LET x == Advance(s)
      n == Advance([x EXCEPT !.args = Append(@, [name |-> Tok(x).v, type |-> castToVarType(Tok(s).v)])])
  IN  IF Len(s.args) = MaxArgs \/ Tok(s).t # "TYPE" THEN Save(s)
      ELSE IF Tok(x).t # "IDENTIFIER" THEN Save(x)
      ELSE IF Tok(n).t = "," THEN funcParamDecl(Advance(n))
      ELSE Save(n)

Intrinsic == {"SCAN", "PRINT", "SQRT", "CONCAT", "SUBSTR"}   \* parseIntrinsicType

functionCall(s) ==
  LET o == term("(", Advance(s))
      a == funcParamCall([o EXCEPT !.args = <<>>])
      c == term(")", a)
  IN  CASE Tok(s).t = "}" -> [s EXCEPT !.status = "END"]
        [] Tok(s).t \notin Intrinsic \cup {"IDENTIFIER", "}"} -> [s EXCEPT !.status = "FAIL"]
        [] OTHER -> IF o.status = "FAIL" THEN o
                    ELSE IF c.status = "FAIL" THEN c
                    ELSE Save(Add(c, [kind |-> "FUNCTION_CALL", name |-> Tok(s).v, kids |-> <<>>,
                                      args |-> a.args, intrinsic |-> Tok(s).t]))

\* The kinds of statement in the order they are tried; each starts where the
\* one before it has left the positions.
stmtsDecl(s) ==
  LET one == FoldLeft(LAMBDA acc, r : IF acc.status = "SUCCESS" THEN acc ELSE Rule(r, acc),
                      [s EXCEPT !.status = "FAIL"],
                      <<"assignmentExpr", "arrDecl", "varDecl", "retStmt", "ifStmt", "forStmt",
                        "callStmt">>)
  IN  IF one.status = "SUCCESS" THEN Rule("stmtsDecl", Save(one))
      ELSE [one EXCEPT !.at = one.saved]

\* varDecl without success leaves its place to assignmentExpr.
forInit(s) ==
  LET d == Rule("varDecl", s)
  IN  IF d.status = "SUCCESS" THEN d ELSE Rule("assignmentExpr", d)

Rule(rule, s) ==
  CASE rule = "expression"     -> expression(s)
    [] rule = "expressionDash" -> Dash({"<", ">", "=="}, "expression", s)
    [] rule = "simple"         -> Binary("summand", "simpleDash", s)
    [] rule = "simpleDash"     -> Dash({"+", "-"}, "rightSimple", s)
    [] rule = "rightSimple"    -> Operand("simple", s)
    [] rule = "summand"        -> Binary("factor", "factorDash", s)
    [] rule = "factorDash"     -> Dash({"*", "/"}, "rightFactor", s)
    [] rule = "rightFactor"    -> Operand("factor", s)
    [] rule = "factor"         -> factor(s)
    [] rule = "primary"        -> primary(s)
    [] rule = "value"          -> value(FALSE, "FLOAT", s)
    [] rule = "declared"       -> declared(s)
    [] rule = "functionCall"   -> functionCall(s)
    [] rule = "stmtsDecl"      -> stmtsDecl(s)
    [] rule = "assignmentExpr" -> InBlock("ASSIGN_EXPR", <<"value", "=", "expression", ";">>, s)
    [] rule = "arrDecl"        -> InBlock("ASSIGN_EXPR", <<"declared", ";">>, s)
    [] rule = "varDecl"        -> InBlock("ASSIGN_EXPR", <<"declared", "=", "expression", ";">>, s)
    [] rule = "retStmt"        -> InBlock("RETURN_STATEMENT", <<"RETURN", "expression", ";">>, s)
    [] rule = "ifStmt"         -> InBlock("IF_STATEMENT",
                                    <<"IF", "(", "expression", ")", "{", "ifBody", "}">>, s)
    [] rule = "forStmt"        -> Statement("FOR_STATEMENT",
                                    <<"FOR", "(", "forInit", "expression", ";", "assignmentExpr", ")",
                                      "{", "forBody", "}">>, s)
    [] rule = "callStmt"       -> LET f == functionCall(s)
                                  IN  IF f.status = "SUCCESS" THEN term(";", f) ELSE f
    [] rule = "forInit"        -> forInit(s)
    [] rule = "ifBody"         -> Body("IF_BODY", s)
    [] rule = "forBody"        -> Body("FOR_BODY", s)
    [] OTHER                   -> term(rule, s)

-----------------------------------------------------------------------------
\* funcDecl, s being where the function begins: what follows its statements,
\* its parameters, its name.
FuncEnd(s, body) ==
  LET c == term("}", body)
  IN  IF body.status = "FAIL" \/ c.status = "FAIL" THEN Fail(Under(body, s.node))
      ELSE Save(Add(Under(c, s.node), body.node))

FuncBody(s, params) ==
  IF params.status = "FAIL" THEN params
  ELSE FuncEnd(s, Rule("stmtsDecl", Save(Under(params,
         [kind |-> "FUNCTION_DECL", name |-> s.toks[s.at + 1].v, kids |-> <<>>,
          args |-> params.args]))))

FuncParams(s, name) ==
  IF name.status = "FAIL" THEN name
  ELSE FuncBody(s, Chain(<<")", "{">>, funcParamDecl([name EXCEPT !.args = <<>>])))

\* A function whose text does not parse is left out, with all that follow.
funcDecl(s) ==
  IF Tok(s).t = "END" THEN [s EXCEPT !.status = "END"]
  ELSE FuncParams(s, Chain(<<"FUNCTION", "IDENTIFIER", "(">>, s))

RECURSIVE programDecl(_)

programDecl(s) ==
  LET f == funcDecl(s)
  IN  IF f.status = "SUCCESS" THEN programDecl(f) ELSE f

\* The children of the root.  tmps starts from whatever the memory held.
Functions(toks, tmps) ==
  programDecl([toks |-> toks, at |-> 1, saved |-> 1, types |-> [x \in {} |-> "INT"], tmps |-> tmps,
               args |-> <<>>, node |-> Node("PROGRAM", "program"), status |-> "SUCCESS"]).node.kids

=============================================================================
