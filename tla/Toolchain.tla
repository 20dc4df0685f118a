----------------------------- MODULE Toolchain -----------------------------
(***************************************************************************)
(* From source to execution: the assembler writes a file, the virtual      *)
(* machine reads it, builds its tables and follows the code.  Of execution *)
(* only the control is modelled (pc and the frames); what instructions do  *)
(* to registers and the heap is ShrimpVM's subject.                        *)
(***************************************************************************)
EXTENDS Assembler, ShrimpFile

CONSTANTS
  Main,       \* the name "main"
  MaxDepth    \* bound: frames on the stack

\* The strings a source can have, and with them the names in its file.
SourceStrings == Literal \cup { s.name : s \in { t \in Statement : t.op = "LDA_STR" } }
FieldNames    == UNION { { c.fields[i].name : i \in DOMAIN c.fields } : c \in ClassDecl }
FileNames     == { d.name : d \in FuncDecl } \cup { c.name : c \in ClassDecl }
                 \cup FieldNames \cup SourceStrings

ASSUME ToolchainAssumption ==
  /\ MaxDepth \in Nat \ {0}
  /\ \A t \in FileNames : TextLen[t] \in Nat /\ (TextLen[t] = 0 => t = EmptyText)

VARIABLES
  image,      \* the file on disk
  vm,         \* ShrimpVM's strings_, funcs_, classes_ and code_
  pc,         \* offset of pc_ in code_
  stack,      \* frames: [func, ret], ret is -1 in the frame of main
  status      \* of the VM: "none", "run", "halted", "abort" or "end"

vmVars == <<vm, pc, stack, status>>
vars   == <<asmVars, image, vmVars>>

NoImage == [o \in {} |-> 0]
NoVM    == [strings |-> NoNames, funcs |-> NoNames, classes |-> <<>>, code |-> NoCode]

Init ==
  /\ AsmInit
  /\ image = NoImage
  /\ vm = NoVM
  /\ pc = 0
  /\ stack = <<>>
  /\ status = "none"

Assemble == AsmNext /\ UNCHANGED <<image, vmVars>>

\* The end of Assembler::assemble.
Serialize ==
  /\ phase = "written"
  /\ image = NoImage
  /\ image' = serialize(out)
  /\ UNCHANGED <<asmVars, vmVars>>

\* emplace: of the entries with one id the first is kept.
ById(seq) ==
  [ id \in { seq[i].id : i \in DOMAIN seq } |->
      seq[CHOOSE i \in DOMAIN seq :
            seq[i].id = id /\ \A j \in 1 .. i - 1 : seq[j].id # id] ]

EntryIds(funcs) == { id \in DOMAIN funcs : funcs[id].name = Main }

\* Mutant of EntryPc: the machine starts at the first instruction of the code.
EntryAtStart(func) == 0

EntryPc(func) == func.func_start

\* Main of shrimp.cpp and the constructor of ShrimpVM: read the file, build
\* the tables, enter main.  classes_ is in the order of the file.
Load ==
  /\ status = "none"
  /\ image # NoImage
  /\ LET file  == ReadFile(image)
         funcs == ById(file.Functions)
     IN  /\ vm' = [ strings |-> ById(file.Strings), funcs |-> funcs,
                    classes |-> file.Classes,       code  |-> file.Code ]
         /\ IF EntryIds(funcs) = {}
            THEN status' = "abort" /\ UNCHANGED <<pc, stack>>
            ELSE \E id \in EntryIds(funcs) :
                   /\ status' = "run"
                   /\ pc' = EntryPc(funcs[id])
                   /\ stack' = <<[func |-> id, ret |-> -1]>>
  /\ UNCHANGED <<asmVars, image>>

-----------------------------------------------------------------------------
Fetched == vm.code.at[pc]

CanFetch == status = "run" /\ pc \in DOMAIN vm.code.at

\* Any handler that ends in pc += getByteSize(), a jump not taken included.
ExecNext ==
  /\ CanFetch
  /\ Fetched.op \notin {"JUMP", "CALL_0ARG", "CALL_1ARG", "RET"}
  /\ pc' = pc + ByteSize[Fetched.op]
  /\ UNCHANGED <<vm, stack, status, asmVars, image>>

ExecJump ==
  /\ CanFetch
  /\ IsJump(Fetched.op)
  /\ pc' = pc + Fetched.arg
  /\ UNCHANGED <<vm, stack, status, asmVars, image>>

ExecCall ==
  /\ CanFetch
  /\ IsCall(Fetched.op)
  /\ Len(stack) < MaxDepth
  /\ stack' = Append(stack, [func |-> Fetched.arg, ret |-> pc + ByteSize[Fetched.op]])
  /\ pc' = vm.funcs[Fetched.arg].func_start
  /\ UNCHANGED <<vm, status, asmVars, image>>

ExecRet ==
  /\ CanFetch
  /\ Fetched.op = "RET"
  /\ IF stack[Len(stack)].ret = -1
     THEN status' = "halted" /\ UNCHANGED <<pc, stack>>
     ELSE /\ pc' = stack[Len(stack)].ret
          /\ stack' = SubSeq(stack, 1, Len(stack) - 1)
          /\ UNCHANGED status
  /\ UNCHANGED <<vm, asmVars, image>>

\* The code ends and pc_ is past it: the handlers read beyond the vector.
RunOff ==
  /\ status = "run"
  /\ pc = vm.code.size
  /\ status' = "end"
  /\ UNCHANGED <<vm, pc, stack, asmVars, image>>

Exec == ExecNext \/ ExecJump \/ ExecCall \/ ExecRet \/ RunOff

Next == Assemble \/ Serialize \/ Load \/ Exec

Spec == Init /\ [][Next]_vars

-----------------------------------------------------------------------------
(***************************************************************************)
(* Properties.                                                             *)
(***************************************************************************)
ToolchainTypeOK ==
  /\ AsmTypeOK
  /\ status \in {"none", "run", "halted", "abort", "end"}
  /\ pc \in Nat
  /\ Len(stack) <= MaxDepth

Loaded == status # "none"

\* What the VM reads is what the assembler wrote: the offsets and sizes that
\* fillHeaders computes are the ones serialize produces, in all tables.
FileRoundTrips == image # NoImage => ReadFile(image) = out

\* pc is always at an instruction, or past the last one.
PcOnInstruction ==
  status = "run" => pc \in DOMAIN vm.code.at \cup {vm.code.size}

\* The code of function id as the loaded table has it: up to the start of
\* the next function.
Starts == { vm.funcs[id].func_start : id \in DOMAIN vm.funcs }

CodeOf(id) ==
  { o \in DOMAIN vm.code.at :
      /\ vm.funcs[id].func_start <= o
      /\ \A s \in Starts : s <= o => s <= vm.funcs[id].func_start }

\* No name is declared twice, every function ends in a RET or a JUMP, and no
\* label stands after the last instruction of its function.
Closed ==
  \A g \in DOMAIN funcs_ :
    LET f == funcs_[g] IN
    /\ \A h \in DOMAIN funcs_ : funcs_[h].name = f.name => h = g
    /\ f.instrs # <<>>
    /\ f.instrs[Len(f.instrs)].op \in {"RET", "JUMP"}
    /\ \A l \in DOMAIN f.marks : f.marks[l] \in DOMAIN f.instrs

\* In a closed program control stays in the function the top frame names,
\* and every frame below returns into the function it names.
ControlInFunction ==
  (status = "run" /\ Closed) =>
    /\ pc \in CodeOf(stack[Len(stack)].func)
    /\ \A i \in 2 .. Len(stack) : stack[i].ret \in CodeOf(stack[i - 1].func)

\* Symbols survive: the id in a call, a string load or an object creation
\* leads in the VM's tables to the entity the source named, and a field
\* number to the field of that name.
SymbolsResolve ==
  Loaded =>
    \A o \in DOMAIN vm.code.at :
      LET b == vm.code.at[o] IN
      /\ IsCall(b.op) => /\ b.arg \in DOMAIN vm.funcs
                         /\ vm.funcs[b.arg].name = b.name
      /\ b.op = "LDA_STR" => /\ b.arg \in DOMAIN vm.strings
                             /\ vm.strings[b.arg].str = b.name
      /\ b.op \in {"OBJ_NEW", "LDFIELD"} =>
           /\ b.arg + 1 \in DOMAIN vm.classes
           /\ vm.classes[b.arg + 1].name = b.name
      /\ b.op = "LDFIELD" =>
           /\ b.field + 1 \in DOMAIN vm.classes[b.arg + 1].fields
           /\ vm.classes[b.arg + 1].fields[b.field + 1].name = b.member

\* The handlers of CALL put argument i of the call in this register.
CallArgReg(i) == 256 - i

\* A parameter's name stands for the register its argument is passed in.
ParamsArrive ==
  \A g \in DOMAIN funcs_ : \A i \in DOMAIN funcs_[g].instrs :
    LET b == funcs_[g].instrs[i]
        args == funcs_[g].args
    IN  b.op = "LDA" => \A k \in DOMAIN args :
          (args[k] = b.name /\ \A j \in 1 .. k - 1 : args[j] # b.name)
            => b.arg = CallArgReg(k)

-----------------------------------------------------------------------------
(***************************************************************************)
(* The inductive invariant of the file and the machine; that of the        *)
(* assembler, IInv, goes with it.                                          *)
(***************************************************************************)
\* The code of a function lies between its offset and that of the next.
Ordered ==
  \A g \in DOMAIN funcs_ :
    LET f == funcs_[g] IN
    /\ f.offset <= curr_offset_
    /\ \A h \in g + 1 .. Len(funcs_) : f.offset <= funcs_[h].offset
    /\ \A i \in DOMAIN f.instrs :
         /\ f.offset <= f.instrs[i].at
         /\ After(f.instrs[i]) <= curr_offset_
         /\ \A h \in g + 1 .. Len(funcs_) : After(f.instrs[i]) <= funcs_[h].offset

\* Where control can be: at an instruction written, or at the end.
Places == DOMAIN out.Code.at \cup {out.Code.size}

\* Nothing is written but the source, and each function starts at a place.
CodeFromSource ==
  phase \in {"write", "written"} =>
    /\ \A o \in DOMAIN out.Code.at :
         \E g \in DOMAIN funcs_ : \E i \in DOMAIN funcs_[g].instrs :
           out.Code.at[o] = funcs_[g].instrs[i] /\ funcs_[g].instrs[i].at = o
    /\ \A g \in DOMAIN funcs_ : g <= cursor[1] => funcs_[g].offset \in Places

TablesWritten ==
  phase = "written" =>
    /\ out.Functions = [g \in DOMAIN funcs_ |-> FileFunction(funcs_[g])]
    /\ out.Classes = [c \in DOMAIN classes_ |-> FileClass(classes_[c])]
    /\ \E order \in Orders(DOMAIN strings_) :
         out.Strings = [i \in DOMAIN order |-> [id |-> strings_[order[i]], str |-> order[i]]]

\* The machine has the tables of the file, and the file is complete.
MachineLoaded ==
  /\ status \in {"none", "run", "halted", "abort", "end"}
  /\ image # NoImage => phase = "written"
  /\ Loaded => /\ image # NoImage
               /\ vm = [ strings |-> ById(out.Strings), funcs |-> ById(out.Functions),
                         classes |-> out.Classes,       code  |-> out.Code ]

Frames ==
  /\ stack \in Seq([func : Nat, ret : Int])
  /\ Len(stack) <= MaxDepth
  /\ pc \in Nat
  /\ status = "run" => pc \in Places /\ stack # <<>>
  /\ status = "none" => stack = <<>>
  /\ \A i \in DOMAIN stack : IF i = 1 THEN stack[i].ret = -1 ELSE stack[i].ret \in Places

\* The offsets of the instructions of function id.
Instructions(id) ==
  { funcs_[id + 1].instrs[i].at : i \in DOMAIN funcs_[id + 1].instrs }

FramesInFunction ==
  (status = "run" /\ Closed) =>
    /\ \A i \in DOMAIN stack : stack[i].func \in 0 .. Len(funcs_) - 1
    /\ pc \in Instructions(stack[Len(stack)].func)
    /\ \A i \in 2 .. Len(stack) : stack[i].ret \in Instructions(stack[i - 1].func)

\* A class name stands for a class of that name.
ClassNames ==
  \A n \in DOMAIN class_name_to_id_ : classes_[class_name_to_id_[n] + 1].name = n

\* Operands are encoded as the ids of what they name.
SymbolsEncoded ==
  \A g \in DOMAIN funcs_ : \A i \in DOMAIN funcs_[g].instrs :
    LET b == funcs_[g].instrs[i] IN
    /\ b.op = "LDA_STR" => b.name \in DOMAIN strings_ /\ b.arg = strings_[b.name]
    /\ b.op \in {"OBJ_NEW", "LDFIELD"} =>
         b.arg \in 0 .. Len(classes_) - 1 /\ classes_[b.arg + 1].name = b.name
    /\ b.op = "LDFIELD" =>
         /\ b.field + 1 \in DOMAIN classes_[b.arg + 1].fields
         /\ classes_[b.arg + 1].fields[b.field + 1].name = b.member

\* Only the strings of the source have ids.
StringsFromSource == DOMAIN strings_ \subseteq SourceStrings

\* When they are no more than the ids, no two strings get the same one.
FewStrings == IsFiniteSet(SourceStrings) /\ Cardinality(SourceStrings) <= NumStrIds

StringIds ==
  /\ \A n \in DOMAIN strings_ : strings_[n] < Cardinality(DOMAIN strings_)
  /\ \A m, n \in DOMAIN strings_ : strings_[m] = strings_[n] => m = n

ToolchainInv == IInv /\ Ordered /\ CodeFromSource /\ TablesWritten
                /\ ClassNames /\ SymbolsEncoded
                /\ StringsFromSource /\ (FewStrings => StringIds)
                /\ MachineLoaded /\ Frames /\ FramesInFunction

=============================================================================
