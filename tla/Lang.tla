-------------------------------- MODULE Lang --------------------------------
(***************************************************************************)
(* A program of the toy language on its way from tokens to results: the    *)
(* parser, the code generator, and the virtual machine (LangMachine).      *)
(* LangSource says what the program means; SourceSpec, that this is what   *)
(* happens.                                                                *)
(***************************************************************************)
EXTENDS LangMachine, LangText, LangParser, LangCompiler

CONSTANTS
  Programs,   \* programs considered, as in LangSource
  TmpStart    \* values num_of_tmp_regs_, which nothing initialises, may have

VARIABLE src  \* the program

vars == <<src, machine>>

Init == src \in Programs /\ MachineInit

\* What Compiler::run makes of a program.
Built == [prog \in Programs, tmps \in TmpStart |-> Compiled(Functions(Tokens(prog), tmps))]

Compile ==
  /\ status = "source"
  /\ \E tmps \in TmpStart : build' = Built[src, tmps]
  /\ status' = "compiled"
  /\ UNCHANGED <<src, pc, acc, stack, arrays, out, result>>

Run == (Load \/ Exec) /\ UNCHANGED src

Next == Compile \/ Run

\* One thread that nothing stops.
Spec == Init /\ [][Next]_vars /\ WF_vars(Next)

-----------------------------------------------------------------------------
(***************************************************************************)
(* Properties.                                                             *)
(***************************************************************************)
Entered == status \notin {"source", "compiled"}

\* Before main is entered, the meaning of the program is at its first statement.
AtEntry ==
  [fn |-> CHOOSE i \in DOMAIN src : src[i].name = "main", at |-> 1, env |-> [v \in Var |-> Integer(0)]]

AtStatement(frame) == [fn |-> frame.fn, at |-> frame.seen.at, env |-> frame.seen.env]

Source == INSTANCE LangSource WITH
  status <- IF Entered THEN status ELSE "run",
  frames <- IF Entered THEN [i \in DOMAIN stack |-> AtStatement(stack[i])] ELSE <<AtEntry>>,
  arrays <- Elements(arrays)

\* The machine does what the source says, statement by statement: the values
\* of all variables at every statement of every activation, the elements of
\* arrays, what is printed and returned, and where execution is undefined.
SourceSpec == Source!Spec

\* A program without endless loop ends (the programs considered have none).
Halts == <>(status \in {"done", "undef"})

=============================================================================
