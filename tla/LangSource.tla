----------------------------- MODULE LangSource -----------------------------
(***************************************************************************)
(* What a program of the toy language means: variables that hold integers  *)
(* of fixed width or references to arrays, functions with local variables. *)
(* No registers, no accumulator, no offsets.                               *)
(*                                                                         *)
(* A program is a sequence of functions [name, params, body], a body a     *)
(* sequence of statements, a statement or expression a record whose field  *)
(* is says what it is; see Flat and Eval.                                  *)
(***************************************************************************)
EXTENDS LangValue

CONSTANTS
  Var,        \* names of variables
  Programs,   \* the programs considered
  Inputs      \* integers that intrinsic.scan may read

VARIABLES
  src,      \* the program
  frames,   \* activations: [fn, at, env], the last one running
  result,   \* value of the last return
  arrays,   \* the arrays created, sequences of values
  out,      \* what intrinsic.print has written
  status    \* "run", "done", or "undef" after an operation without result

vars == <<src, frames, result, arrays, out, status>>

-----------------------------------------------------------------------------
RECURSIVE Eval(_, _, _), Flat(_, _), FlatStatement(_, _)

ArithOp(op) == op \in {"+", "-", "*", "/"}

\* Where in the array a the elements with indices in xs are.  What is no
\* array, a sum of one and an integer say, has none.
Positions(a, xs, mem) ==
  { p \in { x.int + 1 : x \in xs } : a.array \in DOMAIN mem /\ p \in DOMAIN mem[a.array] }

\* The values of an expression: one, or none if it is undefined.
Eval(e, env, mem) ==
  CASE e.is = "num" -> {Integer(e.n)}
    [] e.is = "var" -> {env[e.v]}
    [] e.is = "at"  -> { mem[env[e.a].array][p] : p \in Positions(env[e.a], Eval(e.i, env, mem), mem) }
    [] e.is = "bin" -> { Integer(z) : z \in UNION { Apply(e.op, x.int, y.int) :
                                        x \in Eval(e.l, env, mem), y \in Eval(e.r, env, mem) } }

\* The points of control of statements the first of which has number n.
FlatStatement(s, n) ==
  CASE s.is = "call" -> <<s, [is |-> "take", to |-> s.to]>>
    [] s.is = "if"   -> LET body == Flat(s.body, n + 1)
                        IN  <<[is |-> "test", c |-> s.c, else |-> n + 1 + Len(body)]>> \o body
    [] s.is = "for"  -> LET init == FlatStatement(s.init, n)
                            test == n + Len(init)
                            body == Flat(s.body, test + 1)
                            step == FlatStatement(s.step, test + 1 + Len(body))
                            last == test + 1 + Len(body) + Len(step)
                        IN  init \o <<[is |-> "test", c |-> s.c, else |-> last + 1]>>
                              \o body \o step \o <<[is |-> "goto", to |-> test]>>
    [] OTHER         -> <<s>>

Flat(body, n) ==
  IF body = <<>> THEN <<>>
  ELSE LET first == FlatStatement(Head(body), n)
       IN  first \o Flat(Tail(body), n + Len(first))

Points(fn) == Flat(fn.body, 1)

-----------------------------------------------------------------------------
Unset == [v \in Var |-> Integer(0)]

FnIndex(prog, name) == CHOOSE i \in DOMAIN prog : prog[i].name = name

Started(prog, name, env) == [fn |-> FnIndex(prog, name), at |-> 1, env |-> env]

Init ==
  /\ src \in Programs
  /\ frames = <<Started(src, "main", Unset)>>
  /\ result = Integer(0)
  /\ arrays = <<>>
  /\ out = <<>>
  /\ status = "run"

Depth == Len(frames)
Top   == frames[Depth]
P     == Points(src[Top.fn])[Top.at]     \* what comes next

At(is) == status = "run" /\ P.is = is

ValuesOf(e) == Eval(e, Top.env, arrays)
GoTo(i)    == frames' = [frames EXCEPT ![Depth].at = i]
Store(v, x) == frames' = [frames EXCEPT ![Depth].at = @ + 1, ![Depth].env[v] = x]

Set ==
  /\ At("set")
  /\ \E x \in ValuesOf(P.e) : Store(P.to, x)
  /\ UNCHANGED <<src, result, arrays, out, status>>

Scan ==
  /\ At("scan")
  /\ \E x \in Inputs : Store(P.to, Integer(x))
  /\ UNCHANGED <<src, result, arrays, out, status>>

\* A new array; its elements are zero.  How many there can be is a bound.
New ==
  /\ At("new") /\ Len(arrays) < Len(Address)
  /\ arrays' = Append(arrays, [i \in 1 .. P.size |-> Integer(0)])
  /\ Store(P.to, Reference(Len(arrays')))
  /\ UNCHANGED <<src, result, out, status>>

\* The element that put writes.
Places == Positions(Top.env[P.a], ValuesOf(P.i), arrays)

Put ==
  /\ At("put")
  /\ \E p \in Places, x \in ValuesOf(P.e) :
       arrays' = [arrays EXCEPT ![Top.env[P.a].array][p] = x]
  /\ GoTo(Top.at + 1)
  /\ UNCHANGED <<src, result, out, status>>

PrintVar ==
  /\ At("print")
  /\ out' = Append(out, Top.env[P.v].int)
  /\ GoTo(Top.at + 1)
  /\ UNCHANGED <<src, result, arrays, status>>

Test ==
  /\ At("test")
  /\ \E x \in ValuesOf(P.c) : GoTo(IF x.int = 0 THEN P.else ELSE Top.at + 1)
  /\ UNCHANGED <<src, result, arrays, out, status>>

Goto ==
  /\ At("goto")
  /\ GoTo(P.to)
  /\ UNCHANGED <<src, result, arrays, out, status>>

\* Call by value; what the callee does not receive is zero.
Call ==
  /\ At("call")
  /\ LET callee == src[FnIndex(src, P.f)]
         env    == [v \in Var |-> IF v \in { callee.params[i] : i \in DOMAIN callee.params }
                                  THEN Top.env[P.args[CHOOSE i \in DOMAIN callee.params :
                                                        callee.params[i] = v]]
                                  ELSE Integer(0)]
     IN  frames' = Append(frames, Started(src, P.f, env))
  /\ UNCHANGED <<src, result, arrays, out, status>>

\* Back in the caller: the result is assigned, if it is asked for.
Take ==
  /\ At("take")
  /\ IF P.to \in Var THEN Store(P.to, result) ELSE GoTo(Top.at + 1)
  /\ UNCHANGED <<src, result, arrays, out, status>>

Ret ==
  /\ At("ret")
  /\ \E x \in ValuesOf(P.e) : result' = x
  /\ IF Depth = 1
     THEN status' = "done" /\ UNCHANGED frames
     ELSE /\ frames' = [SubSeq(frames, 1, Depth - 1) EXCEPT ![Depth - 1].at = @ + 1]
          /\ UNCHANGED status
  /\ UNCHANGED <<src, arrays, out>>

\* An index out of bounds, an access to what is no array, or a division
\* without result.
Undefined ==
  /\ status = "run"
  /\ \/ P.is \in {"set", "ret"} /\ ValuesOf(P.e) = {}
     \/ P.is = "test" /\ ValuesOf(P.c) = {}
     \/ P.is = "put" /\ (ValuesOf(P.e) = {} \/ Places = {})
  /\ status' = "undef"
  /\ UNCHANGED <<src, frames, result, arrays, out>>

Next == Set \/ Scan \/ New \/ Put \/ PrintVar \/ Test \/ Goto \/ Call \/ Take \/ Ret \/ Undefined

Spec == Init /\ [][Next]_vars

=============================================================================
