------------------------------ MODULE ShrimpGC ------------------------------
(***************************************************************************)
(* The mark-and-sweep collector of gc.hpp, one action per step of its      *)
(* loops.  GC::run is: collect the roots; mark with MARKED everything the  *)
(* roots reach; sweep, erasing and deallocating every allocation that is   *)
(* not MARKED; mark again from the same roots, this time with UNMARKED, to *)
(* leave the survivors as the next run expects them.                       *)
(*                                                                         *)
(* The registers, heap and arrays are only read here.  The mark word of an *)
(* object (one bit of gc status) is the variable mark, kept apart from the *)
(* rest of the object because nothing but the collector touches it: no     *)
(* allocation initialises it.                                              *)
(*                                                                         *)
(* Abstracted: the order of roots_ and of the allocations list (todo and   *)
(* unswept are sets, any member may be next), and log output.              *)
(***************************************************************************)
EXTENDS ShrimpHeap

CONSTANT Reg    \* registers of a frame, 0 .. 255 in the code

VARIABLES
  acc,          \* ShrimpVM::acc_
  stack,        \* ShrimpVM::stack_: registers of each frame, bottom first
  heap,         \* [Block -> Object], without the mark word
  mark,         \* [Block -> BOOLEAN], TRUE for GCState::MARKED
  allocations,  \* LimitedMemRes::allocations_, address -> bytes
  allocated,    \* LimitedMemRes::allocated_
  arrays,       \* ShrimpVM::arrays_, the klass of each descriptor (0: nullptr)
  phase,        \* where GC::run is; "idle": no run, "done": run returned
  roots,        \* GC::roots_
  todo,         \* roots the running mark() has still to look at
  path,         \* activations of markArray and markClass, outermost first
  unswept       \* allocations the sweep has still to look at

gcVars == <<acc, stack, heap, mark, allocations, allocated, arrays,
            phase, roots, todo, path, unswept>>

\* Register: a value and its refMark_.
Register == [val : Word, ref : BOOLEAN]
Frame    == [Reg -> Register]
Ref(w)   == [val |-> w, ref |-> TRUE]
Plain(w) == [val |-> w, ref |-> FALSE]

\* What collectRoots looks at: all registers of all frames, and acc.
Registers == { stack[i][r] : i \in DOMAIN stack, r \in Reg } \cup {acc}

\* Mutants of Refs: the accumulator, or the frames of the callers, are
\* forgotten.
RefsOfFrames ==
  { x.val : x \in { y \in { stack[i][r] : i \in DOMAIN stack, r \in Reg } : y.ref } }
RefsOnTop ==
  { x.val : x \in { y \in { stack[Len(stack)][r] : r \in Reg } \cup {acc} : y.ref } }

\* The words in registers whose refMark is set.
Refs == { x.val : x \in { y \in Registers : y.ref } }

Phases  == {"idle", "collect", "mark", "sweep", "unmark", "done", "crash"}
Marking == phase \in {"mark", "unmark"}

\* The state argument of the running mark(): MARKED, then UNMARKED.
Target == phase = "mark"

\* An activation: the object and the slot its loop looks at next.
Activation == [obj : Block, slot : Nat]
Enter(b) == [obj |-> b, slot |-> 1]

Live == DOMAIN allocations

\* The objects the program can reach.
Reachable == Reach(Edges(heap, arrays), Refs)

-----------------------------------------------------------------------------
\* Mutant of CollectRoots: a root is forgotten.
CollectRootsButOne ==
  /\ phase = "collect"
  /\ roots' = Refs
  /\ \E r \in Refs : todo' = Refs \ {r}
  /\ phase' = "mark"
  /\ UNCHANGED <<acc, stack, heap, mark, allocations, allocated, arrays, path, unswept>>

\* collectRoots: every register of every frame and the accumulator.
CollectRoots ==
  /\ phase = "collect"
  /\ roots' = Refs
  /\ todo' = Refs
  /\ phase' = "mark"
  /\ UNCHANGED <<acc, stack, heap, mark, allocations, allocated, arrays, path, unswept>>

\* The root taken next by the loop of mark(); only between two activations.
NextRoot(r) ==
  /\ Marking
  /\ path = <<>>
  /\ r \in todo
  /\ todo' = todo \ {r}

\* A null root, and one that already has the target state, are skipped.
SkipRoot(r) ==
  /\ NextRoot(r)
  /\ r = Null \/ (r \in Block /\ mark[r] = Target)
  /\ UNCHANGED <<acc, stack, heap, mark, allocations, allocated, arrays,
                 phase, roots, path, unswept>>

Unvisited(r) == r \in Block /\ mark[r] # Target

\* A string holds no references.
MarkString(r) ==
  /\ NextRoot(r)
  /\ Unvisited(r)
  /\ IsString(heap[r])
  /\ mark' = [mark EXCEPT ![r] = Target]
  /\ UNCHANGED <<acc, stack, heap, allocations, allocated, arrays,
                 phase, roots, path, unswept>>

\* Mutant of MarkArray: the elements are not walked.
MarkArrayOnly(r) ==
  /\ NextRoot(r)
  /\ Unvisited(r)
  /\ IsArray(heap[r])
  /\ mark' = [mark EXCEPT ![r] = Target]
  /\ UNCHANGED <<acc, stack, heap, allocations, allocated, arrays,
                 phase, roots, path, unswept>>

\* markArray sets the state first and then, if the elements are references,
\* walks them.
MarkArray(r) ==
  /\ NextRoot(r)
  /\ Unvisited(r)
  /\ IsArray(heap[r])
  /\ mark' = [mark EXCEPT ![r] = Target]
  /\ path' = IF arrays[heap[r].cw.id] # 0 THEN <<Enter(r)>> ELSE <<>>
  /\ UNCHANGED <<acc, stack, heap, allocations, allocated, arrays,
                 phase, roots, unswept>>

\* A descriptor pointer into a buffer arrays_ has released: the type read
\* through it may still be ARRAY (MarkArray), or be neither ARRAY nor
\* DEFAULT, and then no branch of mark() is taken.
MissStaleArray(r) ==
  /\ NextRoot(r)
  /\ Unvisited(r)
  /\ IsArray(heap[r])
  /\ ~Current(heap[r].cw, arrays)
  /\ UNCHANGED <<acc, stack, heap, mark, allocations, allocated, arrays,
                 phase, roots, path, unswept>>

\* Mutant of MarkClass: the fields are not walked.
MarkClassOnly(r) ==
  /\ NextRoot(r)
  /\ Unvisited(r)
  /\ IsObject(heap[r])
  /\ mark' = [mark EXCEPT ![r] = Target]
  /\ UNCHANGED <<acc, stack, heap, allocations, allocated, arrays,
                 phase, roots, path, unswept>>

\* markClass walks the fields first and sets the state when it returns.
MarkClass(r) ==
  /\ NextRoot(r)
  /\ Unvisited(r)
  /\ IsObject(heap[r])
  /\ path' = <<Enter(r)>>
  /\ UNCHANGED <<acc, stack, heap, mark, allocations, allocated, arrays,
                 phase, roots, unswept>>

\* A root that is no heap address, or memory no object was ever put in.
WildRoot(r) ==
  /\ NextRoot(r)
  /\ r # Null
  /\ r \in Block => heap[r].cw = NoClassWord
  /\ phase' = "crash"
  /\ UNCHANGED <<acc, stack, heap, mark, allocations, allocated, arrays,
                 roots, path, unswept>>

-----------------------------------------------------------------------------
\* The innermost activation, its object and the slot it looks at.
Top == path[Len(path)]

\* Mutant of TopRefs: is_ref is not looked at.
TopFields ==
  LET o == heap[Top.obj]
  IN  IF IsObject(o) THEN DOMAIN FieldClass[o.cw.id] ELSE RefSlots(o, arrays)

TopRefs == RefSlots(heap[Top.obj], arrays)
Child == heap[Top.obj].data[Top.slot]

AtSlot == Marking /\ path # <<>> /\ Top.slot \in Slot

Advanced == [path EXCEPT ![Len(path)].slot = @ + 1]

\* A slot that is no reference, is null, or whose object has the target
\* state already (markClass returns at its first test).
SkipSlot ==
  /\ AtSlot
  /\ \/ Top.slot \notin TopRefs
     \/ Child = Null
     \/ Child \in Block /\ mark[Child] = Target
  /\ path' = Advanced
  /\ UNCHANGED <<acc, stack, heap, mark, allocations, allocated, arrays,
                 phase, roots, todo, unswept>>

\* markClass is called for a child only if that is a class object not yet
\* in the target state.
MustDescend == AtSlot /\ Top.slot \in TopRefs /\ Unvisited(Child)

\* The recursive call of markClass.
Descend ==
  /\ MustDescend
  /\ IsObject(heap[Child])
  /\ \A i \in DOMAIN path : path[i].obj # Child
  /\ path' = Append(Advanced, Enter(Child))
  /\ UNCHANGED <<acc, stack, heap, mark, allocations, allocated, arrays,
                 phase, roots, todo, unswept>>

\* markClass reads the child's class word as a RuntimeClass whatever the
\* child is, and recurses without end into an object being walked already.
WildSlot ==
  /\ AtSlot
  /\ Top.slot \in TopRefs
  /\ Child # Null
  /\ Child \in Block =>
       /\ mark[Child] # Target
       /\ ~IsObject(heap[Child]) \/ \E i \in DOMAIN path : path[i].obj = Child
  /\ phase' = "crash"
  /\ UNCHANGED <<acc, stack, heap, mark, allocations, allocated, arrays,
                 roots, todo, path, unswept>>

\* Mutant of Return: markClass does not set the state.
ReturnUnmarked ==
  /\ Marking
  /\ path # <<>>
  /\ Top.slot \notin Slot
  /\ path' = SubSeq(path, 1, Len(path) - 1)
  /\ UNCHANGED <<acc, stack, heap, mark, allocations, allocated, arrays,
                 phase, roots, todo, unswept>>

\* The end of the loop over the slots: markClass sets the state, markArray
\* has done so before.
Return ==
  /\ Marking
  /\ path # <<>>
  /\ Top.slot \notin Slot
  /\ mark' = IF IsObject(heap[Top.obj]) THEN [mark EXCEPT ![Top.obj] = Target]
                                        ELSE mark
  /\ path' = SubSeq(path, 1, Len(path) - 1)
  /\ UNCHANGED <<acc, stack, heap, allocations, allocated, arrays,
                 phase, roots, todo, unswept>>

-----------------------------------------------------------------------------
\* The first mark() has returned, sweep() begins.
StartSweep ==
  /\ phase = "mark"
  /\ path = <<>>
  /\ todo = {}
  /\ phase' = "sweep"
  /\ unswept' = Live
  /\ UNCHANGED <<acc, stack, heap, mark, allocations, allocated, arrays, roots, todo, path>>

\* Mutant of Keep: the iterator is not advanced.
KeepInPlace(b) ==
  /\ phase = "sweep"
  /\ b \in unswept
  /\ mark[b]
  /\ UNCHANGED gcVars

\* sweep() passes over a marked allocation ...
Keep(b) ==
  /\ phase = "sweep"
  /\ b \in unswept
  /\ mark[b]
  /\ unswept' = unswept \ {b}
  /\ UNCHANGED <<acc, stack, heap, mark, allocations, allocated, arrays,
                 phase, roots, todo, path>>

\* Mutants of Free: the iterator is advanced once more after erase; it is not
\* set to what erase returns; deallocate is not called.
FreeSkippingNext(b) ==
  /\ phase = "sweep"
  /\ b \in unswept
  /\ ~mark[b]
  /\ \E x \in unswept : unswept' = unswept \ {b, x}
  /\ allocations' = [x \in Live \ {b} |-> allocations[x]]
  /\ allocated' = allocated - allocations[b]
  /\ UNCHANGED <<acc, stack, heap, mark, arrays, phase, roots, todo, path>>

FreeInPlace(b) ==
  /\ phase = "sweep"
  /\ b \in unswept
  /\ ~mark[b]
  /\ allocations' = [x \in Live \ {b} |-> allocations[x]]
  /\ allocated' = allocated - allocations[b]
  /\ UNCHANGED <<acc, stack, heap, mark, arrays, phase, roots, todo, path, unswept>>

FreeUncounted(b) ==
  /\ phase = "sweep"
  /\ b \in unswept
  /\ ~mark[b]
  /\ unswept' = unswept \ {b}
  /\ allocations' = [x \in Live \ {b} |-> allocations[x]]
  /\ UNCHANGED <<acc, stack, heap, mark, allocated, arrays, phase, roots, todo, path>>

\* ... and erases and deallocates one that is not.
Free(b) ==
  /\ phase = "sweep"
  /\ b \in unswept
  /\ ~mark[b]
  /\ unswept' = unswept \ {b}
  /\ allocations' = [x \in Live \ {b} |-> allocations[x]]
  /\ allocated' = allocated - allocations[b]
  /\ UNCHANGED <<acc, stack, heap, mark, arrays, phase, roots, todo, path>>

\* Mutant of StartUnmark: there is no second mark().
NoUnmark ==
  /\ phase = "sweep"
  /\ unswept = {}
  /\ phase' = "unmark"
  /\ todo' = {}
  /\ UNCHANGED <<acc, stack, heap, mark, allocations, allocated, arrays,
                 roots, path, unswept>>

\* sweep() has returned; the second mark() starts from the same roots.
StartUnmark ==
  /\ phase = "sweep"
  /\ unswept = {}
  /\ phase' = "unmark"
  /\ todo' = roots
  /\ UNCHANGED <<acc, stack, heap, mark, allocations, allocated, arrays,
                 roots, path, unswept>>

\* run() returns and the GC object, with its roots, is destroyed.
Finish ==
  /\ phase = "unmark"
  /\ path = <<>>
  /\ todo = {}
  /\ phase' = "done"
  /\ roots' = {}
  /\ UNCHANGED <<acc, stack, heap, mark, allocations, allocated, arrays,
                 todo, path, unswept>>

-----------------------------------------------------------------------------
(***************************************************************************)
(* The collector by itself: run() is called with no object marked, on any  *)
(* heap (DegradedInit, below the properties), or on one whose objects are  *)
(* typed, with every array's descriptor pointer current (GCInit).          *)
(***************************************************************************)
Called ==
  /\ acc \in Register /\ stack \in Seq(Frame)
  /\ arrays \in Seq(0 .. NumClasses)
  /\ heap \in [Block -> Object]
  /\ Live \subseteq Block /\ allocations \in [Live -> Nat]
  /\ allocated \in Int
  /\ mark = [b \in Block |-> FALSE]
  /\ phase = "collect"
  /\ roots = {} /\ todo = {} /\ path = <<>> /\ unswept = {}

GCInit ==
  /\ Called
  /\ HeapTyped(heap, arrays, Live)
  /\ DescriptorsCurrent(heap, arrays, Live)
  /\ Refs \subseteq Live \cup {Null}

MarkRoot(r) == \/ SkipRoot(r) \/ MarkString(r) \/ MarkArray(r)
               \/ MissStaleArray(r) \/ MarkClass(r) \/ WildRoot(r)

MarkSlot == SkipSlot \/ Descend \/ WildSlot \/ Return

GCNext ==
  \/ CollectRoots
  \/ \E r \in Word : MarkRoot(r)
  \/ MarkSlot
  \/ StartSweep
  \/ \E b \in Block : Keep(b) \/ Free(b)
  \/ StartUnmark
  \/ Finish

GCSpec == GCInit /\ [][GCNext]_gcVars

-----------------------------------------------------------------------------
(***************************************************************************)
(* Properties.                                                             *)
(***************************************************************************)

\* Every variable holds a value of its type.
GCTypeOK ==
  /\ acc \in Register /\ stack \in Seq(Frame)
  /\ arrays \in Seq(0 .. NumClasses)
  /\ heap \in [Block -> Object]
  /\ mark \in [Block -> BOOLEAN]
  /\ Live \subseteq Block /\ allocations \in [Live -> Nat]
  /\ allocated \in Int
  /\ phase \in Phases
  /\ roots \subseteq Refs
  /\ todo \subseteq roots
  /\ path \in Seq(Activation)
  /\ unswept \subseteq Live

\* No object the program can reach is ever deallocated: whatever the shape
\* of the heap, mark() misses none of it before sweep() runs.
Sound == Reachable \subseteq Live

\* When run() returns nothing unreachable is left: one run reclaims all
\* garbage, so that the allocation that triggered it finds what there is.
Exact == phase = "done" => Live \subseteq Reachable

\* When run() returns no object is left MARKED.  An object that stayed
\* MARKED would be taken for visited by the next run, which would then not
\* look at what it refers to.
MarksClear == phase = "done" => \A b \in Block : ~mark[b]

\* markClass and markArray never read a word that is no typed reference, and
\* never recurse into an object that is being walked (the recursion would
\* not end: the state is set only when it returns).
NoCrash == phase # "crash"

\* What the collector does to a managed heap is to reclaim, one by one,
\* objects the program cannot reach: it changes no reference, in objects or
\* in registers.
MH == INSTANCE ManagedHeap WITH Node <- Block, objs <- Live,
                                edge <- Edges(heap, arrays), roots <- Refs
OnlyReclaims == MH!CollectorSpec

\* The references that do not go through an array whose descriptor pointer
\* is stale.
IsStale(b) == IsArray(heap[b]) /\ ~Current(heap[b].cw, arrays)
SafeEdges == [b \in Block |-> IF IsStale(b) THEN {}
                              ELSE { c \in Children(heap[b], arrays) : ~IsStale(c) }]
SafeRefs  == { r \in Refs : r \in Block => ~IsStale(r) }

SafelyReachable == Reach(SafeEdges, SafeRefs)

\* Even when descriptor pointers are stale, what the program reaches without
\* passing through such an array stays allocated: the damage is limited to
\* those arrays and the objects only they lead to.
SafePathsLive == SafelyReachable \subseteq Live

\* run() is called on a heap that earlier runs may have damaged already:
\* words of reference slots may be anything, descriptor pointers stale.
DegradedInit == Called /\ SafePathsLive
DegradedSpec == DegradedInit /\ [][GCNext]_gcVars

\* What run() still has to do: stages, roots and allocations to look at,
\* objects that are neither visited nor being walked, activations, slots.
Stage    == [collect |-> 4, mark |-> 3, sweep |-> 2, unmark |-> 1,
             idle |-> 0, done |-> 0, crash |-> 0][phase]
Unwalked == { b \in Block : mark[b] # Target /\ \A i \in DOMAIN path : path[i].obj # b }
Work     == <<Stage, Cardinality(todo), Cardinality(unswept), Cardinality(Unwalked), Len(path),
              IF path = <<>> THEN 0 ELSE NumSlots + 1 - Top.slot>>

\* The first component that changes gets smaller.
LessWork ==
  \E i \in DOMAIN Work : /\ Work'[i] \in 0 .. Work[i] - 1
                         /\ \A j \in 1 .. i - 1 : Work'[j] = Work[j]

\* Every step of run() leaves less to do: on any heap, one with stale
\* descriptor pointers and words that are no references included, no object
\* is walked twice, no loop goes on for ever, and run() comes to an end or to
\* a crash.  (Recursion into an object being walked, which has no end, counts
\* as the crash it leads to: on a typed heap NoCrash excludes it.)
Progress == [][LessWork]_gcVars

-----------------------------------------------------------------------------
(***************************************************************************)
(* The inductive invariant behind Sound, Exact, MarksClear and NoCrash.    *)
(***************************************************************************)

\* What the collector relies on and does not change: the reachable objects
\* are typed and their descriptor pointers current.
HeapFacts ==
  /\ HeapTyped(heap, arrays, Reachable)
  /\ DescriptorsCurrent(heap, arrays, Reachable)
  /\ Refs \subseteq Reachable \cup {Null}

Visited(w) == w = Null \/ (w \in Block /\ mark[w] = Target)

\* The activations are those of reachable objects, an array only at the
\* bottom, and each class is below the class of its caller.
PathFacts ==
  /\ path # <<>> => Marking
  /\ \A i \in DOMAIN path :
       /\ path[i].obj \in Reachable
       /\ path[i].slot \in 1 .. NumSlots + 1
       /\ IsArray(heap[path[i].obj]) => i = 1 /\ mark[path[i].obj] = Target
       /\ ~IsArray(heap[path[i].obj]) =>
            /\ IsObject(heap[path[i].obj])
            /\ heap[path[i].obj].cw.id <= NumClasses + 2 - i
  /\ \A i, j \in DOMAIN path :
       i < j => /\ IsObject(heap[path[j].obj])
                /\ IsObject(heap[path[i].obj]) =>
                     heap[path[j].obj].cw.id < heap[path[i].obj].cw.id

\* In an activation, the slots passed are visited, but for the one whose
\* object the next activation walks.
SlotsPassed ==
  \A i \in DOMAIN path : \A s \in RefSlots(heap[path[i].obj], arrays) :
    s < path[i].slot =>
      \/ Visited(heap[path[i].obj].data[s])
      \/ /\ i < Len(path)
         /\ s = path[i].slot - 1
         /\ path[i + 1].obj = heap[path[i].obj].data[s]

\* A visited object refers to visited objects only, but for the array that
\* is being walked.
VisitedClosed ==
  Marking =>
    \A b \in Reachable :
      mark[b] = Target =>
        \/ \A c \in Children(heap[b], arrays) : mark[c] = Target
        \/ path # <<>> /\ path[1].obj = b /\ IsArray(heap[b])

\* The roots passed are visited, but for the one being walked.
RootsPassed ==
  Marking =>
    /\ roots = Refs
    /\ \A r \in roots \ todo : Visited(r) \/ (path # <<>> /\ path[1].obj = r)

\* What is marked and what is allocated at each phase of run().
PhaseFacts ==
  /\ phase \in {"collect", "done"} => \A b \in Block : ~mark[b]
  /\ phase \in {"mark", "unmark"}  => \A b \in Block : mark[b] => b \in Reachable
  /\ phase = "sweep" => /\ \A b \in Block : mark[b] <=> b \in Reachable
                        /\ Live \ unswept \subseteq Reachable
                        /\ roots = Refs
  /\ phase \in {"unmark", "done"} => Live \subseteq Reachable
  /\ phase \notin {"idle", "crash"}

IInv == /\ GCTypeOK /\ Sound
        /\ HeapFacts /\ PathFacts /\ SlotsPassed
        /\ VisitedClosed /\ RootsPassed /\ PhaseFacts

-----------------------------------------------------------------------------
(***************************************************************************)
(* The inductive invariant behind Progress.                                *)
(***************************************************************************)
\* Nothing is walked outside mark(), and what is walked without having been
\* marked first is a class object, which Return will mark.
WalkOrder ==
  /\ phase \notin {"mark", "unmark", "crash"} => path = <<>>
  /\ Marking => \A i \in DOMAIN path :
       IsObject(heap[path[i].obj]) \/ mark[path[i].obj] = Target

-----------------------------------------------------------------------------
(***************************************************************************)
(* The inductive invariant behind SafePathsLive.  Nothing is known of the  *)
(* heap, so it says only what the first mark() achieves by itself.         *)
(***************************************************************************)

\* Class objects are walked, and an array, marked, by the first activation.
WalkFacts ==
  \A i \in DOMAIN path :
    /\ path[i].slot >= 1
    /\ IsArray(heap[path[i].obj]) => i = 1 /\ mark[path[i].obj]
    /\ ~IsArray(heap[path[i].obj]) => IsObject(heap[path[i].obj])

\* A marked object refers to marked objects only, but for the array that is
\* being walked.
MarkedClosed ==
  \A b \in Block : mark[b] =>
    \/ \A c \in Children(heap[b], arrays) : mark[c]
    \/ path # <<>> /\ path[1].obj = b /\ IsArray(heap[b])

\* The roots passed that are no stale arrays are visited, but for the one
\* being walked.
SafeRootsPassed ==
  /\ roots = Refs
  /\ \A r \in SafeRefs \ todo : Visited(r) \/ (path # <<>> /\ path[1].obj = r)

\* The first mark(), as far as it has come.
WalkInv == WalkFacts /\ SlotsPassed /\ MarkedClosed /\ SafeRootsPassed

\* mark() may crash on what it finds, but when it comes to an end all that is
\* safely reachable is marked, and sweep() keeps it.
DegradedInv ==
  /\ GCTypeOK /\ SafePathsLive
  /\ phase = "collect" => path = <<>> /\ \A b \in Block : ~mark[b]
  /\ phase = "mark" => WalkInv
  /\ phase = "sweep" => \A b \in SafelyReachable : mark[b]

=============================================================================
