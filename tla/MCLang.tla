------------------------------- MODULE MCLang -------------------------------
(***************************************************************************)
(* Lang with programs of two kinds: one for every expression of a small    *)
(* grammar, with inputs for its variables, and programs that combine       *)
(* loops, conditions, arrays and calls.  Only supported ones are kept.     *)
(***************************************************************************)
EXTENDS Lang

MCVar == {"a", "b", "c", "i", "p"}

Num(k)          == [is |-> "num", n |-> k]
V(x)            == [is |-> "var", v |-> x]
Bin(op, l, r)   == [is |-> "bin", op |-> op, l |-> l, r |-> r]
Elem(a, i)      == [is |-> "at", a |-> a, i |-> i]
Assign(x, e)    == [is |-> "set", to |-> x, e |-> e, decl |-> FALSE]
Let(x, e)       == [is |-> "set", to |-> x, e |-> e, decl |-> TRUE]
Read(x)         == [is |-> "scan", to |-> x, decl |-> TRUE]
Write(x)        == [is |-> "print", v |-> x]
NewArray(x, k)  == [is |-> "new", to |-> x, size |-> k]
SetElem(a, i, e) == [is |-> "put", a |-> a, i |-> i, e |-> e]
LetCall(x, f, args) == [is |-> "call", to |-> x, f |-> f, args |-> args, decl |-> TRUE]
CallOnly(f, args)   == [is |-> "call", to |-> "", f |-> f, args |-> args, decl |-> FALSE]
If(c, body)     == [is |-> "if", c |-> c, body |-> body]
For(init, c, step, body) == [is |-> "for", init |-> init, c |-> c, step |-> step, body |-> body]
Return(e)       == [is |-> "ret", e |-> e]
Fn(name, params, body) == [name |-> name, params |-> params, body |-> body]

-----------------------------------------------------------------------------
Atoms  == {V("a"), V("b"), Num(2), Num(-1)}
Simple == { Bin(op, l, r) : op \in {"+", "-", "*", "/"}, l \in Atoms, r \in Atoms }
Inner  == { Bin(op, l, r) : op \in {"-", "*"}, l \in {V("a"), Num(2)}, r \in {V("b"), Num(-1)} }
Nested == { Bin(op, l, r) : op \in {"+", "-", "/"}, l \in Inner, r \in Atoms }
            \cup { Bin(op, l, r) : op \in {"+", "-", "/"}, l \in Atoms, r \in Inner }
Thrice == { e \in Nested : e.op = "-" }
Deep   == { Bin("-", l, V("a")) : l \in Thrice } \cup { Bin("-", V("b"), r) : r \in Thrice }
Tests  == { Bin(op, l, r) : op \in {"<", ">", "=="}, l \in Atoms, r \in Atoms \cup Inner }

ExprProgram(e) ==
  << Fn("main", <<>>, <<Read("a"), Read("b"), Let("c", e), Write("a"), Return(e)>>) >>

ExprPrograms == { ExprProgram(e) : e \in Simple \cup Nested \cup Deep \cup Tests }

-----------------------------------------------------------------------------
Square == Fn("square", <<"a">>, <<Return(Bin("*", V("a"), V("a")))>>)

\* A sum in a loop; conditions in the loop and after it.
Loop ==
  << Fn("main", <<>>,
       << Let("a", Num(0)),
          For(Let("i", Num(0)), Bin("<", V("i"), Num(3)), Assign("i", Bin("+", V("i"), Num(1))),
            << If(Bin(">", V("i"), Num(0)), <<Assign("a", Bin("+", V("a"), V("i")))>>),
               Write("a") >>),
          If(Bin("==", V("a"), Num(3)), <<If(V("a"), <<Return(Num(0))>>), Return(Num(2))>>),
          Return(Num(1)) >>) >>

\* Loops in loops, the inner bound depends on the outer variable; a loop
\* that is not entered.
Nest ==
  << Fn("main", <<>>,
       << Let("a", Num(0)),
          For(Let("i", Num(0)), Bin("<", V("i"), Num(3)), Assign("i", Bin("+", V("i"), Num(1))),
            << For(Let("b", V("i")), Bin(">", V("b"), Num(0)), Assign("b", Bin("-", V("b"), Num(1))),
                 <<Assign("a", Bin("+", V("a"), Num(1)))>>) >>),
          For(Let("i", Num(0)), Bin("<", V("a"), V("i")), Assign("i", Num(0)), <<>>),
          Return(V("a")) >>) >>

\* Elements computed from elements, then a call with forward reference.
Fact ==
  << Fn("main", <<>>,
       << NewArray("p", 4),
          SetElem("p", Num(0), Num(1)),
          For(Let("i", Num(1)), Bin("<", V("i"), Num(4)), Assign("i", Bin("+", V("i"), Num(1))),
            << Let("b", Elem("p", Bin("-", V("i"), Num(1)))),
               SetElem("p", V("i"), Bin("*", V("b"), V("i"))) >>),
          Read("a"),
          Let("b", Elem("p", V("a"))),
          If(Bin("==", Elem("p", Bin("-", V("a"), Num(1))), V("b")), <<Return(Elem("p", Num(3)))>>),
          LetCall("c", "square", <<"b">>),
          Return(Bin("-", V("c"), V("b"))) >>),
     Square >>

\* Two arrays, an index out of bounds, an element copied.
TwoArrays ==
  << Fn("main", <<>>,
       << NewArray("p", 2), NewArray("b", 1), Read("a"),
          SetElem("p", V("a"), V("a")),
          SetElem("b", Num(0), Elem("p", Bin("*", V("a"), Num(1)))),
          Let("a", Elem("b", V("a"))),
          Return(Elem("p", Num(1))) >>) >>

\* Calls of calls: results in use after other calls, a result dropped, a
\* function called before and after its declaration, the same names in
\* caller and callee.
Calls ==
  << Fn("main", <<>>,
       << Read("a"), LetCall("b", "twice", <<"a">>), LetCall("c", "square", <<"b">>),
          Let("i", Bin("-", V("c"), V("b"))), Write("b"), Return(V("i")) >>),
     Square,
     Fn("next", <<"b">>, << CallOnly("square", <<"b">>), Let("a", Num(1)), CallOnly("square", <<"a">>),
                            Assign("b", Bin("+", V("b"), V("a"))), Write("a"), Return(V("b")) >>),
     Fn("twice", <<"a">>, << LetCall("b", "next", <<"a">>), LetCall("b", "next", <<"b">>),
                             LetCall("c", "square", <<"b">>), Return(Bin(">", V("b"), V("c"))) >>) >>

\* Recursion: each activation has its own variables.
Recursion ==
  << Fn("sum", <<"a">>,
       << If(Bin("<", V("a"), Num(1)), <<Return(Num(0))>>),
          Let("b", Bin("-", V("a"), Num(1))), LetCall("c", "sum", <<"b">>),
          Return(Bin("+", V("a"), V("c"))) >>),
     Fn("main", <<>>, << Read("i"), LetCall("a", "sum", <<"i">>), Write("i"), Return(V("a")) >>) >>

\* An array under two names, passed to a function and returned by it, and an
\* array in an element of it; the sum of an array and zero is no array.
Aliases ==
  << Fn("fill", <<"p">>, << NewArray("b", 1), SetElem("p", Num(1), V("b")), Return(V("p")) >>),
     Fn("main", <<>>,
       << Read("a"), NewArray("p", 2), LetCall("b", "fill", <<"p">>), SetElem("b", Num(0), V("a")),
          Let("c", Elem("b", Num(1))), SetElem("c", Num(0), Bin("==", V("c"), V("p"))),
          If(Bin("<", V("a"), Num(0)), <<Assign("c", Bin("+", V("c"), Num(0)))>>),
          Let("i", Elem("c", Num(0))), Write("i"), Return(Elem("p", Num(0))) >>) >>

\* A name for every register in two functions, one with a parameter, whose
\* first variable is used last, if n and k are four and six less than there
\* are registers; with more, the program is not supported.
Crowded(n, k) ==
  LET Subtract(m) == [j \in 1 .. m |-> Assign("a", Bin("-", V("a"), Num(j)))]
  IN  << Fn("many", <<"b">>, <<Let("a", V("b"))>> \o Subtract(k)
                              \o <<Return(Bin("+", Num(1), Bin("*", Num(2), V("b"))))>>),
         Fn("main", <<>>, <<Read("c"), LetCall("a", "many", <<"c">>)>> \o Subtract(n)
                            \o <<Write("a"), Return(Bin("-", Num(0), V("c")))>>) >>

MCPrograms ==
  { p \in ExprPrograms \cup {Loop, Nest, Fact, TwoArrays, Calls, Recursion, Aliases}
           \cup { Crowded(NumRegs - n, NumRegs - k) : n \in {3, 4}, k \in {5, 6} } : Supported(p) }

MCInputs   == {-8, -1, 0, 3}
MCTmpStart == {0, NumRegs - 2}

\* The low halves are equal, and those of the number one.
MCAddress == << [hi |-> 1, lo |-> 1], [hi |-> 2, lo |-> 1] >>

=============================================================================
