---------------------------- MODULE MCToolchain ----------------------------
(***************************************************************************)
(* Toolchain with small vocabularies: one for control (functions, labels,  *)
(* jumps, calls) and one for data (classes, strings, parameters).          *)
(***************************************************************************)
EXTENDS Toolchain

CONSTANTS main, foo, l1, l2, A, B, x, y, s0, s1, i32, p, q, r0, none

Func(n, args)   == [name |-> n, args |-> args]
Class(n, fs)    == [name |-> n, fields |-> fs]
Field(n, t)     == [name |-> n, type |-> t]
Stmt(op, n)     == [op |-> op, name |-> n, member |-> none]

ControlFuncs      == { Func(main, <<>>), Func(foo, <<>>) }
ControlLabels     == { l1 }
ControlStatements == { Stmt("RET", none), Stmt("JUMP", l1), Stmt("JUMP_GG", l1),
                       Stmt("CALL_0ARG", foo) }

DataFuncs      == { Func(main, <<p, q>>), Func(main, <<q, p, q>>), Func(main, <<p, p, q, p, q>>) }
DataClasses    == { Class(A, <<Field(x, i32)>>),
                    Class(B, <<Field(y, i32), Field(x, A)>>),
                    Class(A, <<Field(x, B)>>) }
DataStatements == { Stmt("CALL_1ARG", main), Stmt("NOP", none), Stmt("OBJ_NEW", A),
                    Stmt("LDA_STR", s0), Stmt("LDA_STR", s1),
                    Stmt("LDA", q), Stmt("LDA", r0),
                    [op |-> "LDFIELD", name |-> B, member |-> x] }

MCRegId   == [r \in {r0} |-> 0]
MCTextLen == [t \in {main, foo, A, B, x, y, s0, s1} |->
                CASE t = s0 -> 0 [] t \in {A, B, x, y} -> 3 [] OTHER -> 5]

=============================================================================
