------------------------------ MODULE LangText ------------------------------
(***************************************************************************)
(* The tokens a source program is written with, and the programs the       *)
(* compiler is right about.                                                *)
(***************************************************************************)
EXTENDS LangCode, FiniteSets, SequencesExt

Sign(t)      == [t |-> t, v |-> t]
Word_(t, v)  == [t |-> t, v |-> v]
Ident(x)     == Word_("IDENTIFIER", x)
Number(k)    == [t |-> "NUMBER", v |-> k, type |-> "INT"]
Signs(ts)    == [i \in DOMAIN ts |-> Sign(ts[i])]
IntType      == Word_("TYPE", "int")

RECURSIVE ExprTokens(_), StmtTokens(_)

\* Operations inside an operation are put in parentheses.
ExprTokens(e) ==
  LET Inner(x) == IF x.is = "bin" THEN <<Sign("(")>> \o ExprTokens(x) \o <<Sign(")")>>
                  ELSE ExprTokens(x)
  IN  CASE e.is = "num" -> IF e.n < 0 THEN <<Sign("-"), Number(-e.n)>> ELSE <<Number(e.n)>>
        [] e.is = "var" -> <<Ident(e.v)>>
        [] e.is = "at"  -> <<Ident(e.a), Sign("[")>> \o ExprTokens(e.i) \o <<Sign("]")>>
        [] e.is = "bin" -> Inner(e.l) \o <<Sign(e.op)>> \o Inner(e.r)

\* Names with commas between.
Names(xs, Tokens(_)) ==
  FlattenSeq([i \in DOMAIN xs |-> (IF i = 1 THEN <<>> ELSE <<Sign(",")>>) \o Tokens(xs[i])])

CallTokens(s) == <<Ident(s.f), Sign("(")>> \o Names(s.args, LAMBDA x : <<Ident(x)>>) \o <<Sign(")")>>

Block(body) ==
  <<Sign("{")>> \o FlattenSeq([i \in DOMAIN body |-> StmtTokens(body[i])]) \o <<Sign("}")>>

\* [type] x =, the type if the statement declares x.
Target(s) == (IF s.decl THEN <<IntType>> ELSE <<>>) \o <<Ident(s.to), Sign("=")>>

StmtTokens(s) ==
  LET end == <<Sign(";")>>
  IN  CASE s.is = "set"   -> Target(s) \o ExprTokens(s.e) \o end
        [] s.is = "scan"  -> Target(s) \o <<Word_("SCAN", "intrinsic.scan")>> \o Signs(<<"(", ")">>) \o end
        [] s.is = "call"  -> (IF s.to = "" THEN <<>> ELSE Target(s)) \o CallTokens(s) \o end
        [] s.is = "new"   -> <<IntType, Ident(s.to), Sign("["), Number(s.size), Sign("]")>> \o end
        [] s.is = "put"   -> <<Ident(s.a), Sign("[")>> \o ExprTokens(s.i) \o Signs(<<"]", "=">>)
                               \o ExprTokens(s.e) \o end
        [] s.is = "print" -> <<Word_("PRINT", "intrinsic.print"), Sign("("), Ident(s.v), Sign(")")>> \o end
        [] s.is = "ret"   -> <<Word_("RETURN", "return")>> \o ExprTokens(s.e) \o end
        [] s.is = "if"    -> <<Word_("IF", "if"), Sign("(")>> \o ExprTokens(s.c) \o <<Sign(")")>>
                               \o Block(s.body)
        [] s.is = "for"   -> <<Word_("FOR", "for"), Sign("(")>> \o StmtTokens(s.init) \o ExprTokens(s.c)
                               \o end \o StmtTokens(s.step) \o <<Sign(")")>> \o Block(s.body)

FnTokens(f) ==
  <<Word_("FUNCTION", "function"), Ident(f.name), Sign("(")>>
    \o Names(f.params, LAMBDA x : <<IntType, Ident(x)>>) \o <<Sign(")")>> \o Block(f.body)

Tokens(prog) == FlattenSeq([i \in DOMAIN prog |-> FnTokens(prog[i])]) \o <<Word_("END", "")>>

-----------------------------------------------------------------------------
(***************************************************************************)
(* Supported(prog): the forms for which the compiler is right.  What each  *)
(* conjunct excludes is compiled to wrong code, in silence; only a loop    *)
(* that begins with an assignment is an error, of the parser.              *)
(***************************************************************************)
RECURSIVE Arith(_), LeftLeaf(_), Inside(_), Literals(_), Parts(_)

Atom(e) == e.is \in {"num", "var"}

LeftLeaf(e) == IF e.is = "bin" THEN LeftLeaf(e.l) ELSE e

Inside(e) == {e} \cup CASE e.is = "at"  -> Inside(e.i)
                        [] e.is = "bin" -> Inside(e.l) \cup Inside(e.r)
                        [] OTHER        -> {}

Vars(e) == { x.v : x \in { y \in Inside(e) : y.is = "var" } }
             \cup { x.a : x \in { y \in Inside(e) : y.is = "at" } }

\* Literals are counted, each having a name to itself.
Literals(e) == CASE e.is = "num" -> 1 [] e.is = "var" -> 0 [] e.is = "at" -> Literals(e.i)
                 [] e.is = "bin" -> Literals(e.l) + Literals(e.r)

\* A parenthesis on the right is computed in the register of its leftmost
\* leaf, which has to be a number; and it goes through the accumulator, which
\* must not hold a parenthesis on the left.
RightOperand(e) == Atom(e) \/ (e.is = "bin" /\ Arith(e) /\ LeftLeaf(e).is = "num")

Arith(e) ==
  \/ Atom(e)
  \/ /\ e.is = "bin" /\ e.op \in {"+", "-", "*", "/"}
     /\ \/ Atom(e.l) /\ RightOperand(e.r)
        \/ e.l.is = "bin" /\ Arith(e.l) /\ Atom(e.r)

ArrayRead(e) == e.is = "at" /\ Arith(e.i)

\* No operation may stand on the left of a comparison, nor an array read on
\* its right.
Comparison(e) ==
  /\ e.is = "bin" /\ e.op \in {"<", ">", "=="}
  /\ Atom(e.l) \/ ArrayRead(e.l)
  /\ RightOperand(e.r)

RightSide(e) == Arith(e) \/ ArrayRead(e) \/ Comparison(e)

\* The variable an array element is assigned to is overwritten by the index
\* before the index is computed a second time.
SupportedSet(s) == RightSide(s.e) /\ ((ArrayRead(s.e) /\ ~Atom(s.e.i)) => s.to \notin Vars(s.e.i))

\* A call that is a statement stores its result in register 0, that of the
\* first variable of a function without parameters.  A loop that begins with
\* an assignment is not parsed: having tried a declaration, the parser is
\* back at the word for.
SupportedStmt(s, params) ==
  CASE s.is = "set"  -> SupportedSet(s)
    [] s.is = "put"  -> Arith(s.i) /\ RightSide(s.e)
    [] s.is = "ret"  -> RightSide(s.e)
    [] s.is = "call" -> s.to # "" \/ params # <<>>
    [] s.is = "if"   -> RightSide(s.c)
    [] s.is = "for"  -> RightSide(s.c) /\ s.init.decl
    [] OTHER         -> TRUE

\* The statements of a body in the order they are compiled in, that is of
\* text, but for the step of a loop, which comes after its body.
Parts(body) ==
  FlattenSeq([i \in DOMAIN body |->
    LET s == body[i]
    IN  CASE s.is = "if"  -> <<s>> \o Parts(s.body)
          [] s.is = "for" -> <<s.init, s>> \o Parts(s.body) \o <<s.step>>
          [] OTHER        -> <<s>>])

\* The expressions of a statement.
Exprs(s) ==
  CASE s.is \in {"set", "ret"} -> <<s.e>>
    [] s.is = "put"            -> <<s.i, s.e>>
    [] s.is \in {"if", "for"}  -> <<s.c>>
    [] OTHER                   -> <<>>

Reads(s) ==
  UNION { Vars(e) : e \in Range(Exprs(s)) }
    \cup (CASE s.is = "put"   -> {s.a}
            [] s.is = "print" -> {s.v}
            [] s.is = "call"  -> Range(s.args)
            [] OTHER          -> {})

Writes(s) == IF s.is \in {"set", "scan", "new", "call"} THEN {s.to} ELSE {}

LiteralsIn(s) == FoldLeft(LAMBDA n, e : n + Literals(e), IF s.is = "new" THEN 1 ELSE 0, Exprs(s))

\* The compiler's own names for the parts of a statement.
OwnNames(s) ==
  (CASE s.is = "ret" -> {"<ret>"} [] s.is = "if" -> {"<if_stmt>"} [] s.is = "for" -> {"<for_init_stmt>"}
     [] s.is = "put" -> {"<idx_for_store_arr>", "<assign_val_arr>"} [] OTHER -> {})
    \cup (IF \E e \in Range(Exprs(s)) : \E x \in Inside(e) : x.is = "at"
          THEN {"<idx_for_load_arr>", "<tmp_reg_arr>"} ELSE {})

\* How many names the function has at most.  Each has a register to itself as
\* long as there are registers for all; the last is that of the parameter.
NamesNeeded(f) ==
  LET parts == Parts(f.body)
      names == UNION { Reads(s) \cup Writes(s) \cup OwnNames(s) : s \in Range(parts) }
  IN  Cardinality(Range(f.params) \cup names)
        + FoldLeft(LAMBDA n, s : n + LiteralsIn(s), 0, parts)

\* A variable read before any statement that writes it has register 0.
Declared(f) ==
  LET parts == Parts(f.body)
  IN  \A i \in DOMAIN parts :
        Reads(parts[i]) \subseteq Range(f.params)
                                    \cup UNION { Writes(parts[j]) : j \in 1 .. i - 1 }

\* The functions called before they are declared, which share one id.
Forward(prog) ==
  UNION { { Parts(prog[i].body)[j].f :
              j \in { k \in DOMAIN Parts(prog[i].body) : Parts(prog[i].body)[k].is = "call" } }
            \ { prog[h].name : h \in 1 .. i } : i \in DOMAIN prog }

Supported(prog) ==
  /\ Cardinality(Forward(prog)) <= 1
  /\ \A i \in DOMAIN prog :
       /\ Len(prog[i].params) <= 1           \* all have one register
       /\ NamesNeeded(prog[i]) + Len(prog[i].params) <= NumRegs
       /\ Declared(prog[i])
       /\ \A s \in Range(Parts(prog[i].body)) :
            /\ SupportedStmt(s, prog[i].params)
            /\ s.is = "call" => \E f \in Range(prog) : f.name = s.f /\ Len(f.params) = Len(s.args)
       /\ prog[i].body[Len(prog[i].body)].is = "ret"

=============================================================================
