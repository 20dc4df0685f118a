-------------------------- MODULE ShrimpGC_proofs --------------------------
(***************************************************************************)
(* Proofs about the collector, for any number of addresses, classes and    *)
(* slots: IInv of ShrimpGC is an inductive invariant, and with it run()    *)
(* frees no reachable object, frees every other one, leaves no mark        *)
(* behind, and never follows a word that is no typed reference.            *)
(***************************************************************************)
EXTENDS ShrimpGC, SequenceTheorems, FiniteSetTheorems, TLAPS

-----------------------------------------------------------------------------
\* The facts about Reach.

\* A start node is reachable: the collector's roots are in its live set.
LEMMA ReachStart ==
  ASSUME NEW edge, NEW S, NEW n \in S \cap DOMAIN edge
  PROVE  n \in Reach(edge, S)
  BY DEF Reach

\* Successors of a reachable node are reachable.
LEMMA ReachClosed ==
  ASSUME NEW edge, NEW S, Closed(edge, DOMAIN edge)
  PROVE  Closed(edge, Reach(edge, S))
  <1>1. SUFFICES ASSUME NEW x \in Reach(edge, S), NEW y \in edge[x]
                 PROVE  y \in Reach(edge, S)
    BY DEF Closed
  <1>2. y \in DOMAIN edge
    BY DEF Reach, Closed
  <1>3. ASSUME NEW C \in SUBSET DOMAIN edge,
               S \cap DOMAIN edge \subseteq C, Closed(edge, C)
        PROVE  y \in C
    BY <1>3 DEF Reach, Closed
  <1>4. QED
    BY <1>2, <1>3 DEF Reach

\* Reach is the least such set: whatever is closed and holds the start nodes
\* holds every reachable node.
LEMMA ReachLeast ==
  ASSUME NEW edge, NEW S, NEW C \in SUBSET DOMAIN edge,
         S \cap DOMAIN edge \subseteq C, Closed(edge, C)
  PROVE  Reach(edge, S) \subseteq C
  BY DEF Reach

\* Starting from fewer nodes reaches no more.
LEMMA ReachMonotone ==
  ASSUME NEW edge, NEW S, NEW T, T \cap DOMAIN edge \subseteq S
  PROVE  Reach(edge, T) \subseteq Reach(edge, S)
  BY DEF Reach

-----------------------------------------------------------------------------
\* The state the collector reads and does not write.
Static == <<acc, stack, heap, arrays>>

LEMMA EdgesClosed == /\ DOMAIN Edges(heap, arrays) = Block
                     /\ Closed(Edges(heap, arrays), Block)
  BY DEF Edges, Children, Closed

\* Reachable in terms of Children: it holds the roots, is closed, and is the
\* least such set.
LEMMA ReachableFacts ==
  /\ Reachable \subseteq Block
  /\ Refs \cap Block \subseteq Reachable
  /\ \A b \in Reachable : Children(heap[b], arrays) \subseteq Reachable
  /\ \A C \in SUBSET Block :
       /\ Refs \cap Block \subseteq C
       /\ \A b \in C : Children(heap[b], arrays) \subseteq C
       => Reachable \subseteq C
  <1> DEFINE E == Edges(heap, arrays)
  <1>1. \A b \in Block : E[b] = Children(heap[b], arrays)
    BY DEF Edges
  <1>2. Reachable \subseteq Block
    BY EdgesClosed DEF Reachable, Reach
  <1>3. Refs \cap Block \subseteq Reachable
    BY EdgesClosed, ReachStart DEF Reachable
  <1>4. Closed(E, Reachable)
    BY EdgesClosed, ReachClosed DEF Reachable
  <1>5. ASSUME NEW C \in SUBSET Block,
               Refs \cap Block \subseteq C,
               \A b \in C : Children(heap[b], arrays) \subseteq C
        PROVE  Reachable \subseteq C
    <2>1. Closed(E, C)
      BY <1>1, <1>5 DEF Closed
    <2>2. QED
      BY <2>1, <1>5, EdgesClosed, ReachLeast DEF Reachable
  <1>6. QED
    BY <1>1, <1>2, <1>3, <1>4, <1>5 DEF Closed

\* The class word of a typed class object names a class.
LEMMA ObjectClass ==
  ASSUME NEW o, NEW arrs, ClassWordTyped(o, arrs), IsObject(o)
  PROVE  o.cw.id \in Class
  <1>1. o.cw.type = "DEFAULT"
    BY DEF IsObject
  <1>2. o.cw # StringClassWord
    BY <1>1 DEF StringClassWord
  <1>3. PICK c \in Class : o.cw = DefaultClassWord(c)
    BY <1>1, <1>2 DEF ClassWordTyped, IsArray
  <1>4. QED
    BY <1>3 DEF DefaultClassWord

\* What a reference slot of a reachable object can hold.
LEMMA SlotFacts ==
  ASSUME HeapFacts, GCTypeOK, NEW b \in Reachable,
         NEW s \in RefSlots(heap[b], arrays)
  PROVE  /\ s \in Slot
         /\ IsObject(heap[b]) => heap[b].cw.id \in Class
         /\ \/ heap[b].data[s] = Null
            \/ /\ heap[b].data[s] \in Reachable
               /\ heap[b].data[s] \in Children(heap[b], arrays)
               /\ IsObject(heap[heap[b].data[s]])
               /\ heap[heap[b].data[s]].cw.id \in Class
               /\ IsObject(heap[b]) =>
                    heap[heap[b].data[s]].cw.id < heap[b].cw.id
  <1> DEFINE w == heap[b].data[s]
             c == IF IsObject(heap[b]) THEN FieldClass[heap[b].cw.id][s]
                                       ELSE arrays[heap[b].cw.id]
  <1>1. s \in Slot
    BY DEF RefSlots
  <1>2. b \in Block /\ ClassWordTyped(heap[b], arrays)
    BY ReachableFacts DEF HeapFacts, HeapTyped
  <1>3. IsObject(heap[b]) => heap[b].cw.id \in Class
    BY <1>2, ObjectClass
  <1>4. w = Null \/ (w \in Reachable /\ heap[w].cw = DefaultClassWord(c))
    BY DEF HeapFacts, HeapTyped, SlotTyped
  <1>5. ASSUME w # Null
        PROVE  /\ w \in Reachable
               /\ w \in Children(heap[b], arrays)
               /\ IsObject(heap[w])
               /\ heap[w].cw.id \in Class
               /\ IsObject(heap[b]) => heap[w].cw.id < heap[b].cw.id
    <2>1. w \in Reachable /\ heap[w].cw = DefaultClassWord(c)
      BY <1>4, <1>5
    <2>2. w \in Children(heap[b], arrays)
      BY <2>1, ReachableFacts DEF Children
    <2>3. IsObject(heap[w]) /\ heap[w].cw.id = c
      BY <2>1 DEF IsObject, DefaultClassWord
    <2>4. ClassWordTyped(heap[w], arrays)
      BY <2>1 DEF HeapFacts, HeapTyped
    <2>5. heap[w].cw.id \in Class
      BY <2>3, <2>4, ObjectClass
    <2>6. IsObject(heap[b]) => heap[w].cw.id < heap[b].cw.id
      <3>1. SUFFICES ASSUME IsObject(heap[b]) PROVE c < heap[b].cw.id
        BY <2>3
      <3>2. s \in DOMAIN FieldClass[heap[b].cw.id]
        BY <3>1 DEF RefSlots, IsObject, IsArray
      <3>3. QED
        BY <3>1, <3>2, <1>3, HeapAssumption
    <2>7. QED
      BY <2>1, <2>2, <2>3, <2>5, <2>6
  <1>6. QED
    BY <1>1, <1>3, <1>5

\* The registers are not touched, so the references in them stay.
LEMMA SameRefs ==
  ASSUME UNCHANGED <<acc, stack>>
  PROVE  Refs' = Refs
  BY DEF Refs, Registers

\* The facts about the static state survive every step that leaves it alone.
LEMMA StaticFacts ==
  ASSUME UNCHANGED Static
  PROVE  /\ Refs' = Refs
         /\ Reachable' = Reachable
         /\ HeapFacts' = HeapFacts
         /\ \A b : Children(heap[b], arrays)' = Children(heap[b], arrays)
         /\ \A b : RefSlots(heap[b], arrays)' = RefSlots(heap[b], arrays)
  BY SameRefs DEF Static, Reachable, HeapFacts

-----------------------------------------------------------------------------
LEMMA InitInv == GCInit => IInv
  <1> SUFFICES ASSUME GCInit PROVE IInv
    OBVIOUS
  <1>1. GCTypeOK
    BY DEF GCInit, Called, GCTypeOK, Phases, Live
  <1>2. Reachable \subseteq Live
    <2>1. \A b \in Live : Children(heap[b], arrays) \subseteq Live
      BY HeapAssumption DEF GCInit, Called, HeapTyped, SlotTyped, Children
    <2>2. Refs \cap Block \subseteq Live
      BY HeapAssumption DEF GCInit, Called
    <2>3. QED
      BY <2>1, <2>2, ReachableFacts, <1>1 DEF GCTypeOK
  <1>3. HeapFacts
    <2>1. HeapTyped(heap, arrays, Reachable)
      <3>1. SUFFICES ASSUME NEW b \in Reachable, NEW s \in RefSlots(heap[b], arrays)
                     PROVE  SlotTyped(heap, arrays, Reachable, heap[b], s)
        BY <1>2 DEF GCInit, Called, HeapTyped
      <3>2. SlotTyped(heap, arrays, Live, heap[b], s)
        BY <1>2 DEF GCInit, Called, HeapTyped
      <3>3. heap[b].data[s] \in Live => heap[b].data[s] \in Reachable
        BY ReachableFacts DEF Children, GCInit, Called
      <3>4. QED
        BY <3>2, <3>3 DEF SlotTyped
    <2>2. DescriptorsCurrent(heap, arrays, Reachable)
      BY <1>2 DEF GCInit, Called, DescriptorsCurrent
    <2>3. Refs \subseteq Reachable \cup {Null}
      BY ReachableFacts DEF GCInit, Called
    <2>4. QED
      BY <2>1, <2>2, <2>3 DEF HeapFacts
  <1>4. QED
    BY <1>1, <1>2, <1>3
    DEF GCInit, Called, IInv, Sound, PathFacts, SlotsPassed, VisitedClosed, RootsPassed,
        PhaseFacts, Marking

-----------------------------------------------------------------------------
\* The path after the innermost activation has moved to its next slot.
LEMMA AdvancedFacts ==
  ASSUME path \in Seq(Activation), path # <<>>
  PROVE  /\ Len(path) \in Nat \ {0}
         /\ DOMAIN path = 1 .. Len(path)
         /\ Top = path[Len(path)]
         /\ Top \in Activation
         /\ Advanced \in Seq(Activation)
         /\ Len(Advanced) = Len(path)
         /\ \A i \in 1 .. Len(path) : Advanced[i].obj = path[i].obj
         /\ \A i \in 1 .. Len(path) : i # Len(path) => Advanced[i] = path[i]
         /\ Advanced[Len(path)].slot = Top.slot + 1
  <1>1. /\ Len(path) \in Nat \ {0}
        /\ DOMAIN path = 1 .. Len(path)
        /\ path \in [1 .. Len(path) -> Activation]
    BY EmptySeq, LenProperties
  <1>2. Top = path[Len(path)] /\ Top \in Activation
    BY <1>1 DEF Top
  <1> DEFINE next == [Top EXCEPT !.slot = @ + 1]
  <1>3. next.obj = Top.obj /\ next.slot = Top.slot + 1 /\ next \in Activation
    BY <1>2 DEF Activation
  <1>4. Advanced = [path EXCEPT ![Len(path)] = next]
    BY <1>1, <1>2 DEF Advanced
  <1> HIDE DEF next
  <1>5. Advanced \in Seq(Activation) /\ Len(Advanced) = Len(path)
    BY <1>1, <1>3, <1>4, ExceptSeq
  <1>6. \A i \in 1 .. Len(path) :
          Advanced[i] = IF i = Len(path) THEN next ELSE path[i]
    BY <1>1, <1>4
  <1>7. QED
    <2>1. Len(path) \in 1 .. Len(path)
      BY <1>1
    <2>2. Advanced[Len(path)] = next
      BY <2>1, <1>6
    <2>3. QED
      BY <2>2, <1>1, <1>2, <1>3, <1>5, <1>6

\* The path after a recursive call.
LEMMA DescendPath ==
  ASSUME path \in Seq(Activation), path # <<>>, NEW c \in Block
  PROVE  LET p == Append(Advanced, Enter(c))
         IN  /\ p \in Seq(Activation)
             /\ p # <<>>
             /\ Len(p) = Len(path) + 1
             /\ DOMAIN p = 1 .. Len(path) + 1
             /\ p[Len(path) + 1] = [obj |-> c, slot |-> 1]
             /\ \A i \in 1 .. Len(path) : p[i] = Advanced[i]
  <1>1. Enter(c) \in Activation /\ Enter(c) = [obj |-> c, slot |-> 1]
    BY DEF Enter, Activation
  <1>2. Advanced \in Seq(Activation) /\ Len(Advanced) = Len(path) /\ Len(path) \in Nat
    BY AdvancedFacts
  <1> HIDE DEF Advanced, Enter
  <1>3. QED
    BY <1>1, <1>2, AppendProperties, LenProperties

\* The path after a return.
LEMMA ReturnPath ==
  ASSUME path \in Seq(Activation), path # <<>>
  PROVE  LET p == SubSeq(path, 1, Len(path) - 1)
         IN  /\ p \in Seq(Activation)
             /\ Len(p) = Len(path) - 1
             /\ DOMAIN p = 1 .. Len(path) - 1
             /\ \A i \in 1 .. Len(path) - 1 : p[i] = path[i]
             /\ p = <<>> <=> Len(path) = 1
  <1> DEFINE p == SubSeq(path, 1, Len(path) - 1)
  <1>1. Len(path) \in Nat \ {0}
    BY AdvancedFacts
  <1>2. /\ p \in Seq(Activation)
        /\ Len(p) = Len(path) - 1
        /\ \A i \in 1 .. Len(path) - 1 : p[i] = path[i]
    <2>1. \A i \in 1 .. Len(path) - 1 : path[i] \in Activation
      BY <1>1, LenProperties
    <2>2. Len(path) - 1 \in Int /\ 1 \in Int
      BY <1>1
    <2>3. /\ p \in Seq(Activation)
          /\ Len(p) = IF 1 <= Len(path) - 1 THEN Len(path) - 1 - 1 + 1 ELSE 0
          /\ \A i \in 1 .. Len(path) - 1 - 1 + 1 : p[i] = path[1 + i - 1]
      BY <2>1, <2>2, SubSeqProperties
    <2> HIDE DEF p
    <2>4. Len(path) - 1 - 1 + 1 = Len(path) - 1 /\ \A i \in 1 .. Len(path) - 1 : 1 + i - 1 = i
      BY <1>1
    <2>5. Len(p) = Len(path) - 1
      <3>1. CASE Len(path) = 1
        BY <3>1, <2>3
      <3>2. CASE Len(path) # 1
        <4>1. 1 <= Len(path) - 1
          BY <1>1, <3>2
        <4>2. QED
          BY <4>1, <2>3, <2>4
      <3>3. QED
        BY <3>1, <3>2
    <2>6. QED
      BY <2>3, <2>4, <2>5
  <1> HIDE DEF p
  <1>3. DOMAIN p = 1 .. Len(path) - 1 /\ (p = <<>> <=> Len(path) = 1)
    BY <1>1, <1>2, EmptySeq, LenProperties
  <1>4. QED
    BY <1>2, <1>3 DEF p

\* When mark() has run out of roots, every reachable object has its target
\* state.
LEMMA AllVisited ==
  ASSUME IInv, Marking, path = <<>>, todo = {}
  PROVE  \A b \in Reachable : mark[b] = Target
  <1> DEFINE C == { b \in Reachable : mark[b] = Target }
  <1>1. Refs \cap Block \subseteq C
    BY HeapAssumption, ReachableFacts DEF IInv, RootsPassed, Visited
  <1>2. \A b \in C : Children(heap[b], arrays) \subseteq C
    BY ReachableFacts DEF IInv, VisitedClosed
  <1>3. C \in SUBSET Block
    BY ReachableFacts
  <1>4. Reachable \subseteq C
    <2> HIDE DEF C
    <2> QED BY <1>1, <1>2, <1>3, ReachableFacts
  <1>5. QED
    BY <1>4

\* After collectRoots nothing has been visited yet.
LEMMA CollectRootsInv ==
  ASSUME IInv, CollectRoots
  PROVE  IInv'
  <1>1. /\ phase = "collect" /\ phase' = "mark" /\ roots' = Refs /\ todo' = Refs
        /\ UNCHANGED <<acc, stack, heap, mark, allocations, allocated, arrays, path, unswept>>
    BY DEF CollectRoots
  <1>2. Reachable' = Reachable /\ HeapFacts'
    BY <1>1, StaticFacts DEF Static, IInv
  <1>3. path = <<>>
    BY <1>1 DEF IInv, PathFacts, Marking
  <1>4. \A b \in Block : mark[b] = FALSE
    BY <1>1 DEF IInv, PhaseFacts, GCTypeOK
  <1>5. Target' = TRUE
    BY <1>1 DEF Target
  <1>6. GCTypeOK'
    BY SameRefs, <1>1 DEF IInv, GCTypeOK, Phases, Live
  <1>7. Sound' /\ PathFacts' /\ SlotsPassed'
    BY <1>1, <1>2, <1>3 DEF IInv, Sound, Live, PathFacts, SlotsPassed
  <1>8. VisitedClosed'
    BY <1>1, <1>2, <1>4, <1>5, ReachableFacts DEF VisitedClosed
  <1>9. RootsPassed'
    BY SameRefs, <1>1 DEF RootsPassed
  <1>10. PhaseFacts'
    BY <1>1, <1>4 DEF IInv, PhaseFacts
  <1>11. QED
    BY <1>2, <1>6, <1>7, <1>8, <1>9, <1>10 DEF IInv

\* The next root is a reachable object, if it is not null.
LEMMA RootFacts ==
  ASSUME IInv, NEW r, NextRoot(r), r # Null
  PROVE  /\ r \in Reachable /\ r \in Block
         /\ ClassWordTyped(heap[r], arrays)
         /\ IsArray(heap[r]) => Current(heap[r].cw, arrays)
  <1>1. r \in Refs
    BY DEF NextRoot, IInv, GCTypeOK
  <1>2. r \in Reachable /\ r \in Block
    BY <1>1, ReachableFacts DEF IInv, HeapFacts
  <1>3. QED
    BY <1>2 DEF IInv, HeapFacts, HeapTyped, DescriptorsCurrent

\* Marking the next root: what changes and what does not.
LEMMA MarkOne ==
  ASSUME IInv, NEW r \in Word, NextRoot(r), Unvisited(r), UNCHANGED phase,
         mark' = [mark EXCEPT ![r] = Target]
  PROVE  /\ r \in Block /\ r \in Reachable
         /\ Marking /\ Marking' /\ Target' = Target
         /\ path = <<>>
         /\ mark' \in [Block -> BOOLEAN]
         /\ mark'[r] = Target
         /\ \A b \in Block : b # r => mark'[b] = mark[b]
         /\ \A b \in Block : mark[b] = Target => mark'[b] = Target
         /\ \A b \in Block : mark'[b] => b \in Reachable
  <1>1. r \in Block /\ r # Null /\ Marking /\ path = <<>>
    BY HeapAssumption DEF NextRoot, Unvisited
  <1>2. r \in Reachable
    BY <1>1, RootFacts
  <1>3. /\ Marking' /\ Target' = Target /\ Target \in BOOLEAN
    BY <1>1 DEF Marking, Target
  <1>4. /\ mark' \in [Block -> BOOLEAN]
        /\ mark'[r] = Target
        /\ \A b \in Block : b # r => mark'[b] = mark[b]
    BY <1>1, <1>3 DEF IInv, GCTypeOK
  <1>5. phase \in {"mark", "unmark"}
    BY <1>1 DEF Marking
  <1>6. \A b \in Block : mark'[b] => b \in Reachable
    BY <1>2, <1>4, <1>5 DEF IInv, PhaseFacts
  <1>7. QED
    BY <1>1, <1>2, <1>3, <1>4, <1>6

\* A root passed over is null or visited.
LEMMA SkipRootInv ==
  ASSUME IInv, NEW r \in Word, SkipRoot(r)
  PROVE  IInv'
  <1> USE DEF Target, Marking, Visited, Live, Enter, Activation
  <1>1. Reachable' = Reachable /\ HeapFacts'
    BY StaticFacts DEF SkipRoot, NextRoot, Static, IInv
  <1>2. GCTypeOK'
    BY SameRefs DEF SkipRoot, NextRoot, IInv, GCTypeOK, Phases
  <1>3. Sound'
    BY <1>1 DEF SkipRoot, NextRoot, IInv, Sound
  <1>4. PathFacts'
    BY <1>1 DEF SkipRoot, NextRoot, IInv, PathFacts, GCTypeOK
  <1>5. SlotsPassed'
    BY <1>1 DEF SkipRoot, NextRoot, IInv, SlotsPassed, GCTypeOK
  <1>6. VisitedClosed'
    BY <1>1 DEF SkipRoot, NextRoot, IInv, VisitedClosed, GCTypeOK
  <1>7. RootsPassed'
    BY SameRefs, <1>1 DEF SkipRoot, NextRoot, IInv, RootsPassed, GCTypeOK
  <1>8. PhaseFacts'
    BY <1>1 DEF SkipRoot, NextRoot, IInv, PhaseFacts, GCTypeOK
  <1>9. QED
    BY <1>1, <1>2, <1>3, <1>4, <1>5, <1>6, <1>7, <1>8 DEF IInv

\* A string has no reference slots, so marking it keeps VisitedClosed.
LEMMA MarkStringInv ==
  ASSUME IInv, NEW r \in Word, MarkString(r)
  PROVE  IInv'
  <1>1. /\ NextRoot(r) /\ Unvisited(r) /\ IsString(heap[r])
        /\ mark' = [mark EXCEPT ![r] = Target] /\ todo' = todo \ {r}
        /\ UNCHANGED <<acc, stack, heap, allocations, allocated, arrays, phase, roots, path, unswept>>
    BY DEF MarkString, NextRoot
  <1>2. Reachable' = Reachable /\ HeapFacts'
    BY <1>1, StaticFacts DEF Static, IInv
  <1>3. /\ r \in Block /\ r \in Reachable
        /\ Marking /\ Marking' /\ Target' = Target
        /\ path = <<>>
        /\ mark' \in [Block -> BOOLEAN]
        /\ mark'[r] = Target
        /\ \A b \in Block : b # r => mark'[b] = mark[b]
        /\ \A b \in Block : mark[b] = Target => mark'[b] = Target
        /\ \A b \in Block : mark'[b] => b \in Reachable
    BY <1>1, MarkOne
  <1>4. Children(heap[r], arrays) = {}
    BY <1>1 DEF Children, RefSlots, IsString, IsObject, IsArray
  <1>5. GCTypeOK'
    BY SameRefs, <1>1, <1>3 DEF IInv, GCTypeOK, Live
  <1>6. Sound' /\ PathFacts' /\ SlotsPassed'
    BY <1>1, <1>2, <1>3 DEF IInv, Sound, Live, PathFacts, SlotsPassed
  <1>7. VisitedClosed'
    <2>1. ASSUME NEW b \in Reachable, mark'[b] = Target, NEW c \in Children(heap[b], arrays)
          PROVE  mark'[c] = Target
      <3>1. b # r /\ b \in Block /\ c \in Block
        BY <2>1, <1>4, ReachableFacts DEF Children
      <3>2. mark[c] = Target
        BY <2>1, <3>1, <1>3 DEF IInv, VisitedClosed
      <3>3. QED
        BY <3>1, <3>2, <1>3
    <2>2. QED
      BY <2>1, <1>1, <1>2, <1>3 DEF VisitedClosed
  <1>8. RootsPassed'
    BY SameRefs, <1>1, <1>3 DEF IInv, RootsPassed, Visited
  <1>9. PhaseFacts'
    BY <1>1, <1>2, <1>3 DEF IInv, PhaseFacts, Marking, Live
  <1>10. QED
    BY <1>2, <1>5, <1>6, <1>7, <1>8, <1>9 DEF IInv

\* An array is marked before its elements: it becomes the bottom activation,
\* if its elements are references.
LEMMA MarkArrayInv ==
  ASSUME IInv, NEW r \in Word, MarkArray(r)
  PROVE  IInv'
  <1>1. /\ NextRoot(r) /\ Unvisited(r) /\ IsArray(heap[r])
        /\ mark' = [mark EXCEPT ![r] = Target] /\ todo' = todo \ {r}
        /\ path' = IF arrays[heap[r].cw.id] # 0 THEN <<Enter(r)>> ELSE <<>>
        /\ UNCHANGED <<acc, stack, heap, allocations, allocated, arrays, phase, roots, unswept>>
    BY DEF MarkArray, NextRoot
  <1>2. Reachable' = Reachable /\ HeapFacts'
    BY <1>1, StaticFacts DEF Static, IInv
  <1>3. /\ r \in Block /\ r \in Reachable
        /\ Marking /\ Marking' /\ Target' = Target
        /\ path = <<>>
        /\ mark' \in [Block -> BOOLEAN]
        /\ mark'[r] = Target
        /\ \A b \in Block : b # r => mark'[b] = mark[b]
        /\ \A b \in Block : mark[b] = Target => mark'[b] = Target
        /\ \A b \in Block : mark'[b] => b \in Reachable
    BY <1>1, MarkOne
  <1>4. \/ path' = <<>> /\ Children(heap[r], arrays) = {}
        \/ path' = <<[obj |-> r, slot |-> 1]>>
    BY <1>1 DEF Children, RefSlots, IsObject, IsArray, Enter
  <1>5. ~IsObject(heap[r])
    BY <1>1 DEF IsObject, IsArray
  <1>6. GCTypeOK'
    <2>1. [obj |-> r, slot |-> 1] \in Activation
      BY <1>3 DEF Activation
    <2>2. CASE path' = <<>>
      BY SameRefs, <2>2, <1>1, <1>3 DEF IInv, GCTypeOK, Live
    <2>4. CASE path' = <<[obj |-> r, slot |-> 1]>>
      <3>1. <<[obj |-> r, slot |-> 1]>> \in Seq(Activation)
        BY <2>1
      <3>2. path' \in Seq(Activation)
        BY <3>1, <2>4
      <3>3. QED
        BY SameRefs, <3>2, <1>1, <1>3 DEF IInv, GCTypeOK, Live
    <2>3. QED
      BY <2>2, <2>4, <1>4
  <1>7. Sound'
    BY <1>1, <1>2 DEF IInv, Sound, Live
  <1>8. PathFacts' /\ SlotsPassed'
    <2>1. CASE path' = <<>>
      BY <2>1 DEF PathFacts, SlotsPassed
    <2>2. CASE path' = <<[obj |-> r, slot |-> 1]>>
      <3>1. /\ DOMAIN path' = {1} /\ path'[1].obj = r /\ path'[1].slot = 1
            /\ 1 \in 1 .. NumSlots + 1
        BY <2>2, HeapAssumption
      <3>2. PathFacts'
        BY <3>1, <1>1, <1>2, <1>3 DEF PathFacts
      <3>3. ASSUME NEW s \in RefSlots(heap[r], arrays) PROVE ~(s < 1)
        BY HeapAssumption DEF RefSlots, Slot
      <3>4. SlotsPassed'
        BY <3>1, <3>3, <1>1 DEF SlotsPassed
      <3>5. QED
        BY <3>2, <3>4
    <2>3. QED
      BY <2>1, <2>2, <1>4
  <1>9. path' # <<>> => path'[1].obj = r
    BY <1>4
  <1>10. VisitedClosed'
    <2>1. ASSUME NEW b \in Reachable, mark'[b] = Target, NEW c \in Children(heap[b], arrays),
                 b # r
          PROVE  mark'[c] = Target
      <3>1. b \in Block /\ c \in Block
        BY ReachableFacts DEF Children
      <3>2. mark[c] = Target
        BY <2>1, <3>1, <1>3 DEF IInv, VisitedClosed
      <3>3. QED
        BY <3>1, <3>2, <1>3
    <2>2. QED
      BY <2>1, <1>1, <1>2, <1>3, <1>4, <1>9 DEF VisitedClosed
  <1>11. RootsPassed'
    <2>1. \A w \in roots \ todo : Visited(w)
      BY <1>3 DEF IInv, RootsPassed
    <2>2. \A w : Visited(w) => (w = Null \/ (w \in Block /\ mark'[w] = Target'))
      BY <1>3 DEF Visited
    <2>3. roots = Refs
      BY <1>3 DEF IInv, RootsPassed
    <2>4. QED
      BY SameRefs, <2>1, <2>2, <2>3, <1>1, <1>3 DEF RootsPassed, Visited
  <1>12. PhaseFacts'
    BY <1>1, <1>2, <1>3 DEF IInv, PhaseFacts, Marking, Live
  <1>13. QED
    BY <1>2, <1>6, <1>7, <1>8, <1>10, <1>11, <1>12 DEF IInv

\* A class object becomes the bottom activation, not yet marked.
LEMMA MarkClassInv ==
  ASSUME IInv, NEW r \in Word, MarkClass(r)
  PROVE  IInv'
  <1>1. /\ NextRoot(r) /\ Unvisited(r) /\ IsObject(heap[r]) /\ todo' = todo \ {r}
        /\ path' = <<[obj |-> r, slot |-> 1]>>
        /\ UNCHANGED <<acc, stack, heap, mark, allocations, allocated, arrays, phase, roots, unswept>>
    BY DEF MarkClass, NextRoot, Enter
  <1>2. Reachable' = Reachable /\ HeapFacts'
    BY <1>1, StaticFacts DEF Static, IInv
  <1>3. r # Null /\ r \in Block /\ path = <<>> /\ Marking /\ Marking'
    BY <1>1, HeapAssumption DEF NextRoot, Unvisited, Marking
  <1>4. r \in Reachable /\ heap[r].cw.id \in Class
    BY <1>1, <1>3, RootFacts, ObjectClass
  <1>5. path' # <<>> /\ DOMAIN path' = {1} /\ path'[1].obj = r /\ path'[1].slot = 1
    BY <1>1
  <1>6. GCTypeOK'
    <2>1. path' \in Seq(Activation)
      BY <1>1, <1>3 DEF Activation
    <2>2. QED
      BY SameRefs, <2>1, <1>1 DEF IInv, GCTypeOK, Live
  <1>7. Sound'
    BY <1>1, <1>2 DEF IInv, Sound, Live
  <1>8. PathFacts'
    <2>1. 1 \in 1 .. NumSlots + 1 /\ heap[r].cw.id <= NumClasses + 2 - 1
      BY <1>4, HeapAssumption DEF Class
    <2>2. ~IsArray(heap[r])
      BY <1>1 DEF IsArray, IsObject
    <2>3. QED
      BY <2>1, <2>2, <1>1, <1>2, <1>3, <1>4, <1>5 DEF PathFacts
  <1>9. SlotsPassed'
    <2>1. ASSUME NEW s \in RefSlots(heap[r], arrays) PROVE ~(s < 1)
      BY HeapAssumption DEF RefSlots, Slot
    <2>2. QED
      BY <2>1, <1>1, <1>5 DEF SlotsPassed
  <1>10. VisitedClosed'
    BY <1>1, <1>2, <1>3 DEF IInv, VisitedClosed, Target
  <1>11. RootsPassed'
    BY SameRefs, <1>1, <1>3, <1>5 DEF IInv, RootsPassed, Visited, Target
  <1>12. PhaseFacts'
    BY SameRefs, <1>1, <1>2 DEF IInv, PhaseFacts, Live
  <1>13. QED
    BY <1>2, <1>6, <1>7, <1>8, <1>9, <1>10, <1>11, <1>12 DEF IInv

\* A slot passed over holds nothing that is not visited.
LEMMA SkipSlotInv ==
  ASSUME IInv, SkipSlot
  PROVE  IInv'
  <1>1. /\ path' = Advanced
        /\ Visited(Child) \/ Top.slot \notin TopRefs
        /\ path # <<>> /\ path \in Seq(Activation)
        /\ Top.slot \in Slot /\ Marking
        /\ UNCHANGED <<acc, stack, heap, mark, allocations, allocated, arrays, phase, roots, todo, unswept>>
    BY DEF SkipSlot, AtSlot, Visited, IInv, GCTypeOK
  <1>2. Reachable' = Reachable /\ HeapFacts'
    BY <1>1, StaticFacts DEF Static, IInv
  <1>3. /\ Len(path) \in Nat \ {0} /\ DOMAIN path = 1 .. Len(path)
        /\ Top = path[Len(path)]
        /\ path' \in Seq(Activation) /\ Len(path') = Len(path)
        /\ \A i \in 1 .. Len(path) : path'[i].obj = path[i].obj
        /\ \A i \in 1 .. Len(path) : i # Len(path) => path'[i] = path[i]
        /\ path'[Len(path)].slot = Top.slot + 1
    BY <1>1, AdvancedFacts
  <1>4. DOMAIN path' = 1 .. Len(path) /\ path' # <<>> /\ 1 \in 1 .. Len(path)
        /\ path'[1].obj = path[1].obj
    <2>0. Len(path) \in Nat \ {0}
      BY <1>3
    <2>1. 1 \in 1 .. Len(path)
      BY <2>0
    <2>2. DOMAIN path' = 1 .. Len(path)
      BY <1>3, LenProperties
    <2>3. QED
      BY <2>1, <2>2, <1>3
  <1>5. Marking' /\ Target' = Target
    BY <1>1 DEF Marking, Target
  <1>6. GCTypeOK'
    BY SameRefs, <1>1, <1>3 DEF IInv, GCTypeOK, Live
  <1>7. Sound'
    BY <1>1, <1>2 DEF IInv, Sound, Live
  <1>8. PathFacts'
    <2>1. ASSUME NEW i \in 1 .. Len(path) PROVE path'[i].slot \in 1 .. NumSlots + 1
      <3>1. CASE i = Len(path)
        BY <3>1, <1>1, <1>3, HeapAssumption DEF Slot
      <3>2. CASE i # Len(path)
        BY <3>2, <1>3 DEF IInv, PathFacts
      <3>3. QED
        BY <3>1, <3>2
    <2>2. ASSUME NEW i \in 1 .. Len(path)
          PROVE  /\ path[i].obj \in Reachable
                 /\ IsArray(heap[path[i].obj]) => i = 1 /\ mark[path[i].obj] = Target
                 /\ ~IsArray(heap[path[i].obj]) =>
                      /\ IsObject(heap[path[i].obj])
                      /\ heap[path[i].obj].cw.id <= NumClasses + 2 - i
      BY <1>3 DEF IInv, PathFacts
    <2>3. ASSUME NEW i \in 1 .. Len(path), NEW j \in 1 .. Len(path), i < j
          PROVE  /\ IsObject(heap[path[j].obj])
                 /\ IsObject(heap[path[i].obj]) =>
                      heap[path[j].obj].cw.id < heap[path[i].obj].cw.id
      BY <2>3, <1>3 DEF IInv, PathFacts
    <2>4. ASSUME NEW i \in 1 .. Len(path)
          PROVE  /\ path'[i].obj \in Reachable
                 /\ path'[i].slot \in 1 .. NumSlots + 1
                 /\ IsArray(heap[path'[i].obj]) => i = 1 /\ mark[path'[i].obj] = Target
                 /\ ~IsArray(heap[path'[i].obj]) =>
                      /\ IsObject(heap[path'[i].obj])
                      /\ heap[path'[i].obj].cw.id <= NumClasses + 2 - i
      BY <2>1, <2>2, <1>3
    <2>5. ASSUME NEW i \in 1 .. Len(path), NEW j \in 1 .. Len(path), i < j
          PROVE  /\ IsObject(heap[path'[j].obj])
                 /\ IsObject(heap[path'[i].obj]) =>
                      heap[path'[j].obj].cw.id < heap[path'[i].obj].cw.id
      BY <2>3, <2>5, <1>3
    <2>6. QED
      BY <2>4, <2>5, <1>1, <1>2, <1>4, <1>5 DEF PathFacts
  <1>9. SlotsPassed'
    <2>2. SUFFICES ASSUME NEW i \in DOMAIN path',
                          NEW s \in RefSlots(heap[path'[i].obj], arrays),
                          s < path'[i].slot
                   PROVE  \/ Visited(heap[path'[i].obj].data[s])
                          \/ /\ i < Len(path')
                             /\ s = path'[i].slot - 1
                             /\ path'[i + 1].obj = heap[path'[i].obj].data[s]
      BY <1>1 DEF SlotsPassed, Visited, Target
    <2>3. Len(path') = Len(path) /\ DOMAIN path' = 1 .. Len(path) /\ i \in DOMAIN path
      BY <1>1, <1>3, <1>4
    <2>4. \A j \in DOMAIN path : path'[j].obj = path[j].obj
      BY <1>3
    <2>5. CASE i # Len(path)
      <3>1. path'[i] = path[i]
        BY <2>3, <2>5, <1>3
      <3>2. path[i + 1].obj = path'[i + 1].obj /\ i < Len(path)
        <4>1. Len(path) \in Nat /\ i \in 1 .. Len(path)
          BY <2>3, <1>3
        <4>2. i + 1 \in 1 .. Len(path) /\ i < Len(path)
          BY <4>1, <2>5
        <4>3. QED
          BY <4>2, <2>3, <2>4
      <3>3. QED
        BY <2>2, <2>3, <3>1, <3>2 DEF IInv, SlotsPassed
    <2>6. CASE i = Len(path)
      <3>1. path'[i].obj = Top.obj /\ path'[i].slot = Top.slot + 1 /\ Top = path[i]
        BY <2>3, <2>6, <1>3
      <3>2. s \in Slot /\ Top.slot \in Nat
        BY <1>1, HeapAssumption DEF RefSlots, Slot
      <3>3. CASE s = Top.slot
        BY <1>1, <2>2, <3>1, <3>3 DEF TopRefs, Child
      <3>4. CASE s # Top.slot
        <4>1. s < Top.slot
          BY <2>2, <3>1, <3>2, <3>4 DEF Slot
        <4>2. Visited(heap[Top.obj].data[s])
          BY <2>2, <2>3, <3>1, <4>1, <2>6 DEF IInv, SlotsPassed
        <4>3. QED
          BY <4>2, <3>1
      <3>5. QED
        BY <3>3, <3>4
    <2>7. QED
      BY <2>5, <2>6
  <1>10. VisitedClosed'
    BY <1>1, <1>2, <1>4, <1>5 DEF IInv, VisitedClosed
  <1>11. RootsPassed'
    BY SameRefs, <1>1, <1>4, <1>5 DEF IInv, RootsPassed, Visited
  <1>12. PhaseFacts'
    BY SameRefs, <1>1, <1>2 DEF IInv, PhaseFacts, Live
  <1>13. QED
    BY <1>2, <1>6, <1>7, <1>8, <1>9, <1>10, <1>11, <1>12 DEF IInv

\* The recursive call adds an activation for the child of the slot passed.
LEMMA DescendInv ==
  ASSUME IInv, Descend
  PROVE  IInv'
  <1> DEFINE n == Len(path)
  <1>1. /\ path' = Append(Advanced, Enter(Child))
        /\ UNCHANGED <<acc, stack, heap, arrays, mark, phase, roots, todo, allocations, allocated, unswept>>
        /\ Marking
        /\ Top.slot \in TopRefs /\ Child \in Block /\ mark[Child] # Target
        /\ IsObject(heap[Child])
    BY DEF Descend, MustDescend, Unvisited, AtSlot, IInv, GCTypeOK
  <1>0. path # <<>> /\ path \in Seq(Activation)
    BY DEF Descend, MustDescend, AtSlot, IInv, GCTypeOK
  <1>2. Reachable' = Reachable /\ HeapFacts'
    BY <1>1, StaticFacts DEF Static, IInv
  <1>3. /\ path' \in Seq(Activation) /\ path' # <<>>
        /\ Len(path') = n + 1 /\ DOMAIN path' = 1 .. n + 1
        /\ path'[n + 1] = [obj |-> Child, slot |-> 1]
        /\ \A i \in 1 .. n : path'[i] = Advanced[i]
    BY <1>0, <1>1, DescendPath
  <1>4. /\ n \in Nat \ {0} /\ DOMAIN path = 1 .. n /\ Top = path[n]
        /\ \A i \in 1 .. n : path'[i].obj = path[i].obj
        /\ \A i \in 1 .. n : i # n => path'[i] = path[i]
        /\ path'[n].slot = Top.slot + 1
    <2>0. n \in Nat \ {0} /\ DOMAIN path = 1 .. n /\ Top = path[n]
      BY <1>0, AdvancedFacts
    <2>1. n \in 1 .. n
      BY <2>0
    <2>2. \A i \in 1 .. n : path'[i] = Advanced[i]
      BY <1>3
    <2>3. QED
      BY <2>0, <2>1, <2>2, <1>0, AdvancedFacts
  <1>n. n = Len(path)
    OBVIOUS
  <1> HIDE DEF n
  <1>5. /\ Top.obj \in Reachable
        /\ Top.slot \in Slot
        /\ Child \in Reachable
        /\ heap[Child].cw.id \in Class
        /\ IsObject(heap[Top.obj]) => heap[Child].cw.id < heap[Top.obj].cw.id
    <2>1. Top.obj \in Reachable
      BY <1>4 DEF IInv, PathFacts
    <2>2. Child # Null
      BY <1>1, HeapAssumption
    <2>3. QED
      BY <1>1, <2>1, <2>2, SlotFacts DEF IInv, TopRefs, Child
  <1>6. GCTypeOK'
    BY SameRefs, <1>1, <1>3 DEF IInv, GCTypeOK, Live
  <1>7. Sound'
    BY <1>1, <1>2 DEF IInv, Sound, Live
  <1>8. PathFacts'
    <2>1. IsObject(heap[Child]) /\ ~IsArray(heap[Child])
      BY <1>1 DEF IsObject, IsArray
    <2>2. Marking'
      BY <1>1 DEF Marking
    <2>3. ASSUME NEW i \in 1 .. n + 1
          PROVE  /\ path'[i].obj \in Reachable
                 /\ path'[i].slot \in 1 .. NumSlots + 1
                 /\ IsArray(heap[path'[i].obj]) =>
                      i = 1 /\ mark[path'[i].obj] = Target
                 /\ ~IsArray(heap[path'[i].obj]) =>
                      /\ IsObject(heap[path'[i].obj])
                      /\ heap[path'[i].obj].cw.id <= NumClasses + 2 - i
      <3>1. CASE i \in 1 .. n
        <4>1. path'[i].slot \in 1 .. NumSlots + 1
          <5>1. CASE i = n
            BY <5>1, <1>4, <1>5, HeapAssumption DEF Slot
          <5>2. CASE i # n
            BY <5>2, <3>1, <1>4 DEF IInv, PathFacts
          <5>3. QED
            BY <5>1, <5>2
        <4>2. QED
          BY <3>1, <4>1, <1>4 DEF IInv, PathFacts
      <3>2. CASE i = n + 1
        <4>1. heap[Child].cw.id <= NumClasses + 1 - n
          <5>1. CASE IsObject(heap[Top.obj])
            <6>1. heap[Top.obj].cw.id <= NumClasses + 2 - n /\ heap[Top.obj].cw.id \in Class
              <7>1. n \in DOMAIN path /\ ~IsArray(heap[Top.obj])
                BY <5>1, <1>4 DEF IsObject, IsArray
              <7>2. heap[Top.obj].cw.id <= NumClasses + 2 - n
                BY <7>1, <1>4 DEF IInv, PathFacts
              <7>3. heap[Top.obj].cw.id \in Class
                BY <5>1, <1>1, <1>5, SlotFacts DEF IInv, TopRefs
              <7>4. QED
                BY <7>2, <7>3
            <6>2. QED
              <7>1. NumClasses \in Nat
                BY HeapAssumption
              <7>2. heap[Child].cw.id \in 1 .. NumClasses /\ heap[Top.obj].cw.id \in 1 .. NumClasses
                BY <6>1, <1>5 DEF Class
              <7>3. QED
                BY <7>1, <7>2, <6>1, <5>1, <1>5, <1>4
          <5>2. CASE ~IsObject(heap[Top.obj])
            <6>1. n = 1
              BY <5>2, <1>4 DEF IInv, PathFacts
            <6>2. QED
              BY <6>1, <1>5, HeapAssumption DEF Class
          <5>3. QED
            BY <5>1, <5>2
        <4>2. QED
          BY <3>2, <4>1, <2>1, <1>3, <1>4, <1>5, HeapAssumption
      <3>3. QED
        BY <3>1, <3>2, <1>4
    <2>4. ASSUME NEW i \in 1 .. n + 1, NEW j \in 1 .. n + 1, i < j
          PROVE  /\ IsObject(heap[path'[j].obj])
                 /\ IsObject(heap[path'[i].obj]) =>
                      heap[path'[j].obj].cw.id < heap[path'[i].obj].cw.id
      <3>1. i \in 1 .. n
        BY <2>4, <1>4
      <3>2. CASE j \in 1 .. n
        BY <3>1, <3>2, <2>4, <1>4 DEF IInv, PathFacts
      <3>3. CASE j = n + 1
        <4>1. IsObject(heap[path[i].obj]) =>
                heap[Child].cw.id < heap[path[i].obj].cw.id
          <5>1. CASE i = n
            BY <5>1, <1>4, <1>5
          <5>2. CASE i # n
            <6>1. /\ IsObject(heap[path[n].obj])
                  /\ IsObject(heap[path[i].obj]) =>
                        heap[path[n].obj].cw.id < heap[path[i].obj].cw.id
              BY <5>2, <3>1, <1>4 DEF IInv, PathFacts
            <6>2. /\ heap[path[n].obj].cw.id \in Class
                  /\ IsObject(heap[path[i].obj]) => heap[path[i].obj].cw.id \in Class
              BY <6>1, <3>1, <1>4, ReachableFacts, ObjectClass
              DEF IInv, PathFacts, HeapFacts, HeapTyped
            <6>3. QED
              <7>1. NumClasses \in Nat
                BY HeapAssumption
              <7>2. SUFFICES ASSUME IsObject(heap[path[i].obj])
                             PROVE  heap[Child].cw.id < heap[path[i].obj].cw.id
                OBVIOUS
              <7>3. /\ heap[Child].cw.id \in 1 .. NumClasses
                    /\ heap[path[i].obj].cw.id \in 1 .. NumClasses
                    /\ heap[path[n].obj].cw.id \in 1 .. NumClasses
                BY <7>2, <6>2, <1>5 DEF Class
              <7>4. heap[Child].cw.id < heap[path[n].obj].cw.id
                BY <6>1, <1>4, <1>5
              <7>5. QED
                BY <7>1, <7>2, <7>3, <7>4, <6>1
          <5>3. QED
            BY <5>1, <5>2
        <4>2. QED
          BY <3>1, <3>3, <4>1, <2>1, <1>3, <1>4
      <3>4. QED
        BY <3>2, <3>3, <1>4
    <2>5. QED
      BY <1>1, <1>2, <1>3, <2>2, <2>3, <2>4 DEF PathFacts, Target
  <1>9. SlotsPassed'
    <2>0. /\ UNCHANGED <<heap, arrays, mark, phase>>
          /\ Len(path') = n + 1 /\ DOMAIN path' = 1 .. n + 1
      BY <1>1, <1>3
    <2>1. SUFFICES ASSUME NEW i \in 1 .. n + 1,
                          NEW s \in RefSlots(heap[path'[i].obj], arrays),
                          s < path'[i].slot
                   PROVE  \/ Visited(heap[path'[i].obj].data[s])
                          \/ /\ i < n + 1
                             /\ s = path'[i].slot - 1
                             /\ path'[i + 1].obj = heap[path'[i].obj].data[s]
      BY <2>0 DEF SlotsPassed, Visited, Target
    <2>2. s \in Slot
      BY DEF RefSlots
    <2>3. CASE i = n + 1
      BY <2>1, <2>2, <2>3, <1>3, HeapAssumption DEF Slot
    <2>4. CASE i = n
      <3>1. path'[i].obj = Top.obj /\ path'[i].slot = Top.slot + 1
        BY <2>4, <1>4
      <3>2. CASE s = Top.slot
        <4>1. path'[n + 1].obj = Child /\ i < n + 1
          BY <2>4, <1>3, <1>4
        <4>2. Child = heap[Top.obj].data[s]
          BY <3>2 DEF Child
        <4>3. s = path'[i].slot - 1
          BY <3>1, <3>2, <2>2, HeapAssumption DEF Slot
        <4>4. QED
          BY <3>1, <4>1, <4>2, <4>3, <2>4
      <3>3. CASE s # Top.slot
        <4>1. s < Top.slot
          BY <2>1, <2>2, <3>1, <3>3, <1>5, HeapAssumption DEF Slot
        <4>2. QED
          BY <4>1, <3>1, <2>1, <2>4, <1>4 DEF IInv, SlotsPassed
      <3>4. QED
        BY <3>2, <3>3
    <2>5. CASE i \in 1 .. n /\ i # n
      <3>1. path'[i] = path[i] /\ path'[i+1].obj = path[i+1].obj
        BY <2>5, <1>4
      <3>2. QED
        BY <3>1, <2>1, <2>5, <1>4 DEF IInv, SlotsPassed
    <2>6. QED
      BY <2>3, <2>4, <2>5, <1>4
  <1>10. /\ path[1] = Top \/ path'[1] = path[1]
         /\ path'[1].obj = path[1].obj
    BY <1>4
  <1>11. VisitedClosed'
    BY <1>1, <1>2, <1>3, <1>10 DEF IInv, VisitedClosed, Marking, Target
  <1>12. RootsPassed'
    BY SameRefs, <1>1, <1>2, <1>3, <1>10 DEF IInv, RootsPassed, Marking, Target, Visited
  <1>13. PhaseFacts'
    BY SameRefs, <1>1, <1>2 DEF IInv, PhaseFacts, Live
  <1>14. QED
    BY <1>2, <1>6, <1>7, <1>8, <1>9, <1>11, <1>12, <1>13 DEF IInv

\* A return sets the state of the object walked; by SlotsPassed all it refers
\* to is visited by then.
LEMMA ReturnInv ==
  ASSUME IInv, Return
  PROVE  IInv'
  <1> DEFINE n == Len(path)
             o == Top.obj
  <1>0. path # <<>> /\ path \in Seq(Activation) /\ Marking
    BY DEF Return, IInv, GCTypeOK
  <1>1. /\ path' = SubSeq(path, 1, Len(path) - 1)
        /\ UNCHANGED <<acc, stack, heap, arrays, phase, roots, todo, allocations, allocated, unswept>>
        /\ mark' = IF IsObject(heap[o]) THEN [mark EXCEPT ![o] = Target] ELSE mark
        /\ Top.slot \notin Slot
    BY DEF Return
  <1>2. Reachable' = Reachable /\ HeapFacts'
    BY <1>1, StaticFacts DEF Static, IInv
  <1>3. /\ path' \in Seq(Activation)
        /\ Len(path') = n - 1
        /\ DOMAIN path' = 1 .. n - 1
        /\ \A i \in 1 .. n - 1 : path'[i] = path[i]
        /\ path' = <<>> <=> n = 1
    BY <1>0, <1>1, ReturnPath
  <1>4. n \in Nat \ {0} /\ DOMAIN path = 1 .. n /\ Top = path[n] /\ Top \in Activation
    BY <1>0, AdvancedFacts
  <1>6. n = Len(path)
    OBVIOUS
  <1> HIDE DEF n
  <1>5. n \in 1 .. n /\ \A i \in 1 .. n - 1 : i \in 1 .. n /\ i # n
    BY <1>4
  <1>7. /\ o \in Reachable /\ o \in Block
        /\ IsArray(heap[o]) => n = 1 /\ mark[o] = Target
        /\ ~IsArray(heap[o]) => IsObject(heap[o])
        /\ Top.slot = NumSlots + 1
    <2>1. /\ o \in Reachable
          /\ IsArray(heap[o]) => n = 1 /\ mark[o] = Target
          /\ ~IsArray(heap[o]) => IsObject(heap[o])
          /\ Top.slot \in 1 .. NumSlots + 1
      BY <1>4, <1>5 DEF IInv, PathFacts
    <2>2. Top.slot = NumSlots + 1
      BY <2>1, <1>1, HeapAssumption DEF Slot
    <2>3. QED
      BY <2>1, <2>2, ReachableFacts
  \* The state of o is the target state now, and no other has changed.
  <1>8. /\ Target' = Target /\ Marking'
        /\ mark' \in [Block -> BOOLEAN]
        /\ mark'[o] = Target
        /\ \A b \in Block : b # o => mark'[b] = mark[b]
    BY <1>0, <1>1, <1>7 DEF Target, Marking, IInv, GCTypeOK
  <1> DEFINE NowVisited(w) == w = Null \/ (w \in Block /\ mark'[w] = Target)
  <1>9. \A w : Visited(w) => NowVisited(w)
    BY <1>8 DEF Visited
  \* Everything o refers to is visited: all its slots have been passed.
  <1>10. \A s \in RefSlots(heap[o], arrays) : Visited(heap[o].data[s])
    <2>1. SUFFICES ASSUME NEW s \in RefSlots(heap[o], arrays)
                   PROVE  Visited(heap[o].data[s])
      OBVIOUS
    <2>2. s \in Slot
      BY DEF RefSlots
    <2>3. s < Top.slot
      BY <2>2, <1>7, HeapAssumption DEF Slot
    <2>4. n \in DOMAIN path /\ ~(n < n)
      BY <1>4, <1>5
    <2>5. QED
      BY <2>3, <2>4, <1>4, <1>6 DEF IInv, SlotsPassed
  <1>11. \A c \in Children(heap[o], arrays) : mark'[c] = Target
    <2>1. SUFFICES ASSUME NEW c \in Children(heap[o], arrays)
                   PROVE  mark'[c] = Target
      OBVIOUS
    <2>2. PICK s \in RefSlots(heap[o], arrays) : c = heap[o].data[s]
      BY DEF Children
    <2>3. c \in Block /\ c # Null
      BY HeapAssumption DEF Children
    <2>4. mark[c] = Target
      BY <2>2, <2>3, <1>10 DEF Visited
    <2>5. QED
      BY <2>3, <2>4, <1>8
  <1>12. GCTypeOK'
    BY SameRefs, <1>1, <1>3, <1>8 DEF IInv, GCTypeOK, Live
  <1>13. Sound'
    BY <1>1, <1>2 DEF IInv, Sound, Live
  <1>14. PathFacts'
    <2>1. \A i \in 1 .. n - 1 : path'[i] = path[i] /\ i \in DOMAIN path
      BY <1>3, <1>4, <1>5
    <2>2. \A i \in 1 .. n - 1 : path[i].obj \in Reachable /\ path[i].obj \in Block
      BY <2>1, ReachableFacts DEF IInv, PathFacts
    <2>3. \A i \in 1 .. n - 1 : mark[path[i].obj] = Target => mark'[path[i].obj] = Target
      BY <2>2, <1>8
    <2>4. \A i \in 1 .. n - 1 :
            /\ path'[i].obj \in Reachable
            /\ path'[i].slot \in 1 .. NumSlots + 1
            /\ IsArray(heap[path'[i].obj]) => i = 1 /\ mark'[path'[i].obj] = Target
            /\ ~IsArray(heap[path'[i].obj]) =>
                 /\ IsObject(heap[path'[i].obj])
                 /\ heap[path'[i].obj].cw.id <= NumClasses + 2 - i
      BY <2>1, <2>2, <2>3 DEF IInv, PathFacts
    <2>5. \A i, j \in 1 .. n - 1 :
            i < j => /\ IsObject(heap[path'[j].obj])
                     /\ IsObject(heap[path'[i].obj]) =>
                          heap[path'[j].obj].cw.id < heap[path'[i].obj].cw.id
      BY <2>1 DEF IInv, PathFacts
    <2>6. QED
      BY <1>1, <1>2, <1>3, <1>8, <2>4, <2>5 DEF PathFacts
  <1>15. SlotsPassed'
    <2>a. /\ DOMAIN path' = 1 .. n - 1 /\ Len(path') = n - 1
          /\ heap' = heap /\ arrays' = arrays /\ Target' = Target
      BY <1>1, <1>3, <1>8
    <2>1. SUFFICES ASSUME NEW i \in 1 .. n - 1,
                          NEW s \in RefSlots(heap[path'[i].obj], arrays),
                          s < path'[i].slot
                   PROVE  \/ NowVisited(heap[path'[i].obj].data[s])
                          \/ /\ i < n - 1
                             /\ s = path'[i].slot - 1
                             /\ path'[i + 1].obj = heap[path'[i].obj].data[s]
      BY <2>a DEF SlotsPassed, Visited
    <2>0. path'[i] = path[i]
      BY <1>3
    <2>2. \/ Visited(heap[path[i].obj].data[s])
          \/ /\ i < n
             /\ s = path[i].slot - 1
             /\ path[i + 1].obj = heap[path[i].obj].data[s]
      BY <2>1, <2>0, <1>4, <1>5, <1>6 DEF IInv, SlotsPassed
    <2>3. CASE Visited(heap[path[i].obj].data[s])
      BY <2>3, <2>0, <1>9
    <2>4. CASE /\ s = path[i].slot - 1
               /\ path[i + 1].obj = heap[path[i].obj].data[s]
      <3>1. CASE i + 1 = n
        BY <2>4, <2>0, <3>1, <1>4, <1>7, <1>8
      <3>2. CASE i + 1 # n
        <4>1. i + 1 \in 1 .. n - 1 /\ i < n - 1
          BY <3>2, <1>4
        <4>2. QED
          BY <4>1, <2>4, <2>0, <1>3
      <3>3. QED
        BY <3>1, <3>2
    <2>5. QED
      BY <2>2, <2>3, <2>4
  <1>16. VisitedClosed'
    <2>1. SUFFICES ASSUME NEW b \in Reachable, mark'[b] = Target
                   PROVE  \/ \A c \in Children(heap[b], arrays) : mark'[c] = Target
                          \/ path' # <<>> /\ path'[1].obj = b /\ IsArray(heap[b])
      BY <1>1, <1>2, <1>8 DEF VisitedClosed
    <2>2. CASE b = o
      BY <2>2, <1>11
    <2>3. CASE b # o
      <3>1. b \in Block /\ mark[b] = Target
        BY <2>1, <2>3, <1>8, ReachableFacts
      <3>2. \/ \A c \in Children(heap[b], arrays) : mark[c] = Target
            \/ path # <<>> /\ path[1].obj = b /\ IsArray(heap[b])
        BY <3>1, <1>0 DEF IInv, VisitedClosed
      <3>3. CASE \A c \in Children(heap[b], arrays) : mark[c] = Target
        BY <3>3, <1>8 DEF Children
      <3>4. CASE path # <<>> /\ path[1].obj = b /\ IsArray(heap[b])
        <4>1. n # 1
          BY <3>4, <2>3, <1>4
        <4>2. path' # <<>> /\ path'[1] = path[1]
          BY <4>1, <1>3, <1>4
        <4>3. QED
          BY <4>2, <3>4
      <3>5. QED
        BY <3>2, <3>3, <3>4
    <2>4. QED
      BY <2>2, <2>3
  <1>17. RootsPassed'
    <2>1. SUFFICES ASSUME NEW r \in roots \ todo
                   PROVE  NowVisited(r) \/ (path' # <<>> /\ path'[1].obj = r)
      BY SameRefs, <1>0, <1>1, <1>8 DEF RootsPassed, IInv, Visited
    <2>2. Visited(r) \/ path[1].obj = r
      BY <1>0 DEF IInv, RootsPassed
    <2>3. CASE Visited(r)
      BY <2>3, <1>9
    <2>4. CASE path[1].obj = r
      <3>1. CASE n = 1
        BY <2>4, <3>1, <1>4, <1>7, <1>8
      <3>2. CASE n # 1
        <4>1. path' # <<>> /\ path'[1] = path[1]
          BY <3>2, <1>3, <1>4
        <4>2. QED
          BY <4>1, <2>4
      <3>3. QED
        BY <3>1, <3>2
    <2>5. QED
      BY <2>2, <2>3, <2>4
  <1>18. PhaseFacts'
    <2>1. phase \in {"mark", "unmark"}
      BY <1>0 DEF Marking
    <2>2. ASSUME NEW b \in Block, mark'[b] PROVE b \in Reachable
      BY <2>1, <2>2, <1>7, <1>8 DEF IInv, PhaseFacts
    <2>3. QED
      BY <2>1, <2>2, <1>1, <1>2 DEF IInv, PhaseFacts, Live
  <1>19. QED
    BY <1>2, <1>12, <1>13, <1>14, <1>15, <1>16, <1>17, <1>18 DEF IInv

\* All that is reachable is marked when sweep() begins.
LEMMA StartSweepInv ==
  ASSUME IInv, StartSweep
  PROVE  IInv'
  <1> USE DEF Target, Marking, Visited, Live, Enter, Activation
  <1>1. Reachable' = Reachable /\ HeapFacts'
    BY StaticFacts DEF StartSweep, Static, IInv
  <1>2. GCTypeOK'
    BY SameRefs DEF StartSweep, IInv, GCTypeOK, Phases
  <1>3. Sound'
    BY <1>1 DEF StartSweep, IInv, Sound
  <1>4. PathFacts'
    BY <1>1 DEF StartSweep, IInv, PathFacts, GCTypeOK
  <1>5. SlotsPassed'
    BY <1>1 DEF StartSweep, IInv, SlotsPassed, GCTypeOK
  <1>6. VisitedClosed'
    BY <1>1 DEF StartSweep, IInv, VisitedClosed, GCTypeOK
  <1>7. RootsPassed'
    BY <1>1 DEF StartSweep, IInv, RootsPassed, GCTypeOK
  <1>8. PhaseFacts'
    <2>1. Reachable' = Reachable
      BY StaticFacts DEF StartSweep, Static
    <2>2. \A b \in Reachable : mark[b] = TRUE
      BY AllVisited DEF StartSweep, Marking, Target
    <2>3. QED
      BY SameRefs, <2>1, <2>2 DEF StartSweep, IInv, PhaseFacts, RootsPassed, Marking, GCTypeOK, Live
  <1>9. QED
    BY <1>1, <1>2, <1>3, <1>4, <1>5, <1>6, <1>7, <1>8 DEF IInv

\* sweep() keeps marked, hence reachable, allocations.
LEMMA KeepInv ==
  ASSUME IInv, NEW b \in Block, Keep(b)
  PROVE  IInv'
  <1> USE DEF Target, Marking, Visited, Live, Enter, Activation
  <1>1. Reachable' = Reachable /\ HeapFacts'
    BY StaticFacts DEF Keep, Static, IInv
  <1>2. GCTypeOK'
    BY SameRefs DEF Keep, IInv, GCTypeOK, Phases
  <1>3. Sound'
    BY <1>1 DEF Keep, IInv, Sound
  <1>4. PathFacts'
    BY <1>1 DEF Keep, IInv, PathFacts, GCTypeOK
  <1>5. SlotsPassed'
    <2>1. path' = <<>>
      BY DEF IInv, PathFacts, Keep
    <2>2. QED
      BY <2>1 DEF SlotsPassed
  <1>6. VisitedClosed'
    BY <1>1 DEF Keep, IInv, VisitedClosed, GCTypeOK
  <1>7. RootsPassed'
    BY <1>1 DEF Keep, IInv, RootsPassed, GCTypeOK
  <1>8. PhaseFacts'
    BY SameRefs, <1>1 DEF Keep, IInv, PhaseFacts, GCTypeOK
  <1>9. QED
    BY <1>1, <1>2, <1>3, <1>4, <1>5, <1>6, <1>7, <1>8 DEF IInv

\* sweep() frees an allocation that is not marked, hence not reachable.
LEMMA FreeInv ==
  ASSUME IInv, NEW b \in Block, Free(b)
  PROVE  IInv'
  <1> USE DEF Target, Marking, Visited, Live, Enter, Activation
  <1>1. Reachable' = Reachable /\ HeapFacts'
    BY StaticFacts DEF Free, Static, IInv
  <1>2. GCTypeOK'
    BY SameRefs DEF Free, IInv, GCTypeOK, Phases
  <1>3. Sound'
    <2>1. Reachable' = Reachable
      BY StaticFacts DEF Free, Static
    <2>2. Live' = Live \ {b}
      BY DEF Free, Live
    <2>3. b \notin Reachable
      BY DEF Free, IInv, PhaseFacts
    <2>4. QED
      BY <2>1, <2>2, <2>3 DEF IInv, Sound
  <1>4. PathFacts'
    BY <1>1 DEF Free, IInv, PathFacts, GCTypeOK
  <1>5. SlotsPassed'
    <2>1. path' = <<>>
      BY DEF IInv, PathFacts, Free
    <2>2. QED
      BY <2>1 DEF SlotsPassed
  <1>6. VisitedClosed'
    BY <1>1 DEF Free, IInv, VisitedClosed, GCTypeOK
  <1>7. RootsPassed'
    BY <1>1 DEF Free, IInv, RootsPassed, GCTypeOK
  <1>8. PhaseFacts'
    BY SameRefs, <1>1 DEF Free, IInv, PhaseFacts, GCTypeOK
  <1>9. QED
    BY <1>1, <1>2, <1>3, <1>4, <1>5, <1>6, <1>7, <1>8 DEF IInv

\* The second mark() begins with everything reachable still MARKED.
LEMMA StartUnmarkInv ==
  ASSUME IInv, StartUnmark
  PROVE  IInv'
  <1> USE DEF Target, Marking, Visited, Live, Enter, Activation
  <1>1. Reachable' = Reachable /\ HeapFacts'
    BY StaticFacts DEF StartUnmark, Static, IInv
  <1>2. GCTypeOK'
    BY SameRefs DEF StartUnmark, IInv, GCTypeOK, Phases
  <1>3. Sound'
    BY <1>1 DEF StartUnmark, IInv, Sound
  <1>4. PathFacts'
    BY <1>1 DEF StartUnmark, IInv, PathFacts, GCTypeOK
  <1>5. SlotsPassed'
    <2>1. path' = <<>>
      BY DEF IInv, PathFacts, StartUnmark
    <2>2. QED
      BY <2>1 DEF SlotsPassed
  <1>6. VisitedClosed'
    <2>1. ASSUME NEW b \in Reachable PROVE mark'[b] # Target'
      <3>1. mark[b] /\ mark[b] \in BOOLEAN /\ mark' = mark
        BY ReachableFacts DEF StartUnmark, IInv, PhaseFacts, GCTypeOK
      <3>2. Target' = FALSE
        BY DEF StartUnmark
      <3>3. QED
        BY <3>1, <3>2
    <2>2. QED
      BY <1>1, <2>1 DEF VisitedClosed
  <1>7. RootsPassed'
    BY SameRefs DEF StartUnmark, IInv, PhaseFacts, RootsPassed
  <1>8. PhaseFacts'
    BY <1>1 DEF StartUnmark, IInv, PhaseFacts, GCTypeOK
  <1>9. QED
    BY <1>1, <1>2, <1>3, <1>4, <1>5, <1>6, <1>7, <1>8 DEF IInv

\* All that is reachable is unmarked when run() returns.
LEMMA FinishInv ==
  ASSUME IInv, Finish
  PROVE  IInv'
  <1> USE DEF Target, Marking, Visited, Live, Enter, Activation
  <1>1. Reachable' = Reachable /\ HeapFacts'
    BY StaticFacts DEF Finish, Static, IInv
  <1>2. GCTypeOK'
    BY DEF Finish, IInv, GCTypeOK, Phases
  <1>3. Sound'
    BY <1>1 DEF Finish, IInv, Sound
  <1>4. PathFacts'
    BY <1>1 DEF Finish, IInv, PathFacts, GCTypeOK
  <1>5. SlotsPassed'
    BY <1>1 DEF Finish, IInv, SlotsPassed, GCTypeOK
  <1>6. VisitedClosed'
    BY <1>1 DEF Finish, IInv, VisitedClosed, GCTypeOK
  <1>7. RootsPassed'
    BY <1>1 DEF Finish, IInv, RootsPassed, GCTypeOK
  <1>8. PhaseFacts'
    <2>1. Reachable' = Reachable
      BY StaticFacts DEF Finish, Static
    <2>2. \A b \in Reachable : mark[b] = FALSE
      BY AllVisited DEF Finish, Marking, Target
    <2>3. QED
      BY <2>1, <2>2 DEF Finish, IInv, PhaseFacts, GCTypeOK, Live
  <1>9. QED
    BY <1>1, <1>2, <1>3, <1>4, <1>5, <1>6, <1>7, <1>8 DEF IInv

-----------------------------------------------------------------------------
\* With typed objects and current descriptors the undefined reads of mark()
\* do not happen.
LEMMA NoUndefinedRead ==
  ASSUME IInv
  PROVE  /\ \A r \in Word : ~MissStaleArray(r) /\ ~WildRoot(r)
         /\ ~WildSlot
  <1>1. ASSUME NEW r \in Word, MissStaleArray(r)
        PROVE  FALSE
    <2>1. NextRoot(r) /\ r # Null /\ IsArray(heap[r]) /\ ~Current(heap[r].cw, arrays)
      BY <1>1, HeapAssumption DEF MissStaleArray, Unvisited
    <2>2. QED
      BY <2>1, RootFacts
  <1>2. ASSUME NEW r \in Word, WildRoot(r)
        PROVE  FALSE
    <2>1. NextRoot(r) /\ r # Null /\ (r \in Block => heap[r].cw = NoClassWord)
      BY <1>2 DEF WildRoot
    <2>2. r \in Block /\ ClassWordTyped(heap[r], arrays)
      BY <2>1, RootFacts
    <2>3. heap[r].cw.type = "NONE"
      BY <2>1, <2>2 DEF NoClassWord
    <2>4. CASE heap[r].cw = StringClassWord
      BY <2>3, <2>4 DEF StringClassWord
    <2>5. CASE \E c \in Class : heap[r].cw = DefaultClassWord(c)
      BY <2>3, <2>5 DEF DefaultClassWord
    <2>6. CASE IsArray(heap[r])
      BY <2>3, <2>6 DEF IsArray
    <2>7. QED
      BY <2>2, <2>4, <2>5, <2>6 DEF ClassWordTyped
  <1>3. ASSUME WildSlot
        PROVE  FALSE
    <2>1. /\ path # <<>> /\ path \in Seq(Activation)
          /\ Top.slot \in TopRefs /\ Child # Null
          /\ Child \in Block =>
               ~IsObject(heap[Child]) \/ \E i \in DOMAIN path : path[i].obj = Child
      BY <1>3 DEF WildSlot, AtSlot, IInv, GCTypeOK
    <2>2. Len(path) \in DOMAIN path /\ Top = path[Len(path)]
      <3>1. Len(path) \in Nat \ {0} /\ DOMAIN path = 1 .. Len(path) /\ Top = path[Len(path)]
        BY <2>1, AdvancedFacts
      <3>2. Len(path) \in 1 .. Len(path)
        BY <3>1
      <3>3. QED
        BY <3>1, <3>2
    <2>3. Top.obj \in Reachable
      BY <2>2 DEF IInv, PathFacts
    <2>4. /\ Child \in Reachable /\ Child \in Block
          /\ IsObject(heap[Child]) /\ heap[Child].cw.id \in Class
          /\ IsObject(heap[Top.obj]) =>
               heap[Child].cw.id < heap[Top.obj].cw.id /\ heap[Top.obj].cw.id \in Class
      BY <2>1, <2>3, SlotFacts, ReachableFacts DEF IInv, TopRefs, Child
    <2>5. PICK i \in DOMAIN path : path[i].obj = Child
      BY <2>1, <2>4
    <2>6. IsObject(heap[Top.obj]) /\ heap[Top.obj].cw.id <= heap[Child].cw.id
      <3>1. CASE i = Len(path)
        BY <3>1, <2>2, <2>4, <2>5, HeapAssumption DEF Class
      <3>2. CASE i # Len(path)
        <4>0. Len(path) \in Nat \ {0} /\ DOMAIN path = 1 .. Len(path)
          BY <2>1, AdvancedFacts
        <4>i. i \in 1 .. Len(path)
          BY <4>0, <2>5
        <4>1. i < Len(path)
          BY <3>2, <4>0, <4>i
        <4>2. IsObject(heap[Top.obj]) /\ heap[Top.obj].cw.id < heap[Child].cw.id
          BY <4>1, <2>2, <2>4, <2>5 DEF IInv, PathFacts
        <4>3. heap[Top.obj].cw.id \in Class
          BY <4>2, <2>4
        <4>4. QED
          BY <4>2, <4>3, <2>4, HeapAssumption DEF Class
      <3>3. QED
        BY <3>1, <3>2
    <2>7. QED
      BY <2>4, <2>6, HeapAssumption DEF Class
  <1>4. QED
    BY <1>1, <1>2, <1>3

\* IInv is inductive.
LEMMA StepInv == IInv /\ [GCNext]_gcVars => IInv'
  <1> SUFFICES ASSUME IInv, [GCNext]_gcVars PROVE IInv'
    OBVIOUS
  <1>1. CASE CollectRoots
    BY <1>1, CollectRootsInv
  <1>2. ASSUME NEW r \in Word, MarkRoot(r) PROVE IInv'
    BY <1>2, SkipRootInv, MarkStringInv, MarkArrayInv, MarkClassInv, NoUndefinedRead
    DEF MarkRoot
  <1>3. CASE MarkSlot
    BY <1>3, SkipSlotInv, DescendInv, ReturnInv, NoUndefinedRead DEF MarkSlot
  <1>4. CASE StartSweep
    BY <1>4, StartSweepInv
  <1>5. ASSUME NEW b \in Block, Keep(b) \/ Free(b) PROVE IInv'
    BY <1>5, KeepInv, FreeInv
  <1>6. CASE StartUnmark
    BY <1>6, StartUnmarkInv
  <1>7. CASE Finish
    BY <1>7, FinishInv
  <1>8. CASE UNCHANGED gcVars
    <2>1. Reachable' = Reachable
      BY <1>8, StaticFacts DEF gcVars, Static
    <2>2. QED
      BY SameRefs, <1>8, <2>1
      DEF gcVars, IInv, GCTypeOK, Sound, HeapFacts, PathFacts, SlotsPassed,
          VisitedClosed, RootsPassed, PhaseFacts, Live, Marking, Target, Visited
  <1>9. QED
    BY <1>1, <1>2, <1>3, <1>4, <1>5, <1>6, <1>7, <1>8 DEF GCNext

THEOREM Invariance == GCSpec => []IInv
  BY InitInv, StepInv, PTL DEF GCSpec

-----------------------------------------------------------------------------
\* The variables of the collector keep their types.
THEOREM TypeCorrect == GCSpec => []GCTypeOK
  <1>1. IInv => GCTypeOK
    BY DEF IInv
  <1>2. QED
    BY <1>1, Invariance, PTL

\* No object reachable from the registers is ever deallocated.
THEOREM Soundness == GCSpec => []Sound
  <1>1. IInv => Sound
    BY DEF IInv
  <1>2. QED
    BY <1>1, Invariance, PTL

\* When run() returns, only reachable objects are left.
THEOREM Exactness == GCSpec => []Exact
  <1>1. IInv => Exact
    BY DEF IInv, PhaseFacts, Exact
  <1>2. QED
    BY <1>1, Invariance, PTL

\* When run() returns, no object is MARKED.
THEOREM MarksAreClear == GCSpec => []MarksClear
  <1>1. IInv => MarksClear
    BY DEF IInv, PhaseFacts, MarksClear
  <1>2. QED
    BY <1>1, Invariance, PTL

\* The collector reads no word that is not a typed reference, and its
\* recursion ends.
THEOREM CrashFree == GCSpec => []NoCrash
  <1>1. IInv => NoCrash
    BY DEF IInv, PhaseFacts, NoCrash
  <1>2. QED
    BY <1>1, Invariance, PTL

\* The collector implements the collecting part of the managed heap: all a
\* run does to the objects is to reclaim unreachable ones.
THEOREM Refinement == GCSpec => OnlyReclaims
  <1>1. IInv => MH!TypeOK
    <2>1. Edges(heap, arrays) \in [Block -> SUBSET Block]
      BY DEF Edges, Children
    <2>2. QED
      BY <2>1 DEF IInv, GCTypeOK, MH!TypeOK
  <1>0. MH!Reached = Reachable
    BY DEF MH!Reached, Reachable, MH!Reach, Reach, MH!Closed, Closed
  <1>2. GCInit => MH!Init
    <2>1. IInv => MH!NoDangling
      BY <1>0 DEF IInv, Sound, MH!NoDangling
    <2>2. QED
      BY <1>1, <2>1, InitInv DEF MH!Init
  <1>3. IInv /\ [GCNext]_gcVars => [MH!Collect]_MH!vars
    <2> SUFFICES ASSUME IInv, [GCNext]_gcVars PROVE [MH!Collect]_MH!vars
      OBVIOUS
    <2>1. ASSUME NEW b \in Block, Free(b) PROVE MH!Reclaim(b)
      <3>1. b \in Live \ Reachable
        BY <2>1 DEF Free, IInv, GCTypeOK, PhaseFacts
      <3>2. Live' = Live \ {b}
        BY <2>1 DEF Free, Live
      <3>3. UNCHANGED <<Edges(heap, arrays), Refs>>
        BY SameRefs, <2>1 DEF Free
      <3>4. b \in Live \ MH!Reached
        BY <3>1, <1>0
      <3>5. QED
        BY <3>2, <3>3, <3>4 DEF MH!Reclaim
    <2>2. CASE UNCHANGED <<acc, stack, heap, arrays, allocations>>
      BY SameRefs, <2>2 DEF MH!vars, Live
    <2>3. QED
      BY <2>1, <2>2
      DEF GCNext, gcVars, MarkRoot, MarkSlot, CollectRoots, SkipRoot, MarkString, MarkArray,
          MissStaleArray, MarkClass, WildRoot, SkipSlot, Descend, WildSlot, Return,
          StartSweep, Keep, StartUnmark, Finish, MH!Collect
  <1>4. QED
    BY <1>2, <1>3, Invariance, PTL DEF GCSpec, OnlyReclaims, MH!CollectorSpec

-----------------------------------------------------------------------------
(***************************************************************************)
(* The collector on a heap of which nothing is known: DegradedInv is       *)
(* inductive, so what is safely reachable is never freed.                  *)
(***************************************************************************)

\* What is safely reachable is the least set that holds the safe roots and
\* is closed under the safe edges, so any closed set of children holds it.
LEMMA SafeLeast ==
  /\ SafelyReachable \subseteq Block
  /\ \A C \in SUBSET Block :
       /\ SafeRefs \cap Block \subseteq C
       /\ \A b \in C : Children(heap[b], arrays) \subseteq C
       => SafelyReachable \subseteq C
  <1>1. DOMAIN SafeEdges = Block
    BY DEF SafeEdges
  <1>2. SafelyReachable \subseteq Block
    BY <1>1 DEF SafelyReachable, Reach
  <1>3. \A b \in Block : SafeEdges[b] \subseteq Children(heap[b], arrays)
    BY DEF SafeEdges
  <1>4. ASSUME NEW C \in SUBSET Block,
               SafeRefs \cap Block \subseteq C,
               \A b \in C : Children(heap[b], arrays) \subseteq C
        PROVE  SafelyReachable \subseteq C
    <2>1. Closed(SafeEdges, C)
      BY <1>3, <1>4 DEF Closed
    <2>2. QED
      BY <2>1, <1>1, <1>4, ReachLeast DEF SafelyReachable
  <1>5. QED
    BY <1>2, <1>4

\* The collector changes neither the safe roots nor the safe edges.
LEMMA SafeStatic ==
  ASSUME UNCHANGED Static
  PROVE  SafeRefs' = SafeRefs /\ SafelyReachable' = SafelyReachable /\ Refs' = Refs
  BY SameRefs DEF Static, SafeRefs, SafelyReachable, SafeEdges, IsStale

\* No step writes a register, an object or a descriptor.
LEMMA StaticSteps ==
  ASSUME [GCNext]_gcVars
  PROVE  UNCHANGED Static
  BY DEF GCNext, gcVars, MarkRoot, MarkSlot, CollectRoots, SkipRoot, MarkString, MarkArray,
         MissStaleArray, MarkClass, WildRoot, SkipSlot, Descend, WildSlot, Return,
         StartSweep, Keep, Free, StartUnmark, Finish, Static

\* The types are kept whatever is on the heap.
LEMMA TypesKept ==
  ASSUME GCTypeOK, [GCNext]_gcVars
  PROVE  GCTypeOK'
  <1>s. UNCHANGED Static /\ Refs' = Refs
    BY StaticSteps, SafeStatic
  <1> USE <1>s DEF Static, Live
  <1>1. CASE CollectRoots
    BY <1>1 DEF CollectRoots, GCTypeOK, Phases
  <1>2. ASSUME NEW r \in Word, MarkRoot(r) PROVE GCTypeOK'
    <2>1. CASE SkipRoot(r) \/ MissStaleArray(r) \/ WildRoot(r)
      BY <2>1 DEF SkipRoot, MissStaleArray, WildRoot, NextRoot, GCTypeOK, Phases
    <2>2. ASSUME Unvisited(r)
          PROVE  /\ [mark EXCEPT ![r] = Target] \in [Block -> BOOLEAN]
                 /\ <<Enter(r)>> \in Seq(Activation)
      BY <2>2 DEF Unvisited, GCTypeOK, Target, Enter, Activation
    <2>3. CASE MarkString(r)
      BY <2>2, <2>3 DEF MarkString, NextRoot, GCTypeOK
    <2>4. CASE MarkArray(r)
      BY <2>2, <2>4 DEF MarkArray, NextRoot, GCTypeOK
    <2>5. CASE MarkClass(r)
      BY <2>2, <2>5 DEF MarkClass, NextRoot, GCTypeOK
    <2>6. QED
      BY <1>2, <2>1, <2>3, <2>4, <2>5 DEF MarkRoot
  <1>3. CASE MarkSlot
    <2>1. CASE SkipSlot
      <3>1. path \in Seq(Activation) /\ path # <<>>
        BY <2>1 DEF SkipSlot, AtSlot, GCTypeOK
      <3>2. Advanced \in Seq(Activation)
        BY <3>1, AdvancedFacts
      <3>3. QED
        BY <2>1, <3>2 DEF SkipSlot, GCTypeOK
    <2>2. CASE Descend
      <3>1. path \in Seq(Activation) /\ path # <<>> /\ Child \in Block
        BY <2>2 DEF Descend, MustDescend, Unvisited, AtSlot, GCTypeOK
      <3>2. Append(Advanced, Enter(Child)) \in Seq(Activation)
        BY <3>1, DescendPath
      <3>3. QED
        BY <2>2, <3>2 DEF Descend, GCTypeOK
    <2>3. CASE WildSlot
      BY <2>3 DEF WildSlot, GCTypeOK, Phases
    <2>4. CASE Return
      <3>1. path \in Seq(Activation) /\ path # <<>>
        BY <2>4 DEF Return, GCTypeOK
      <3>2. SubSeq(path, 1, Len(path) - 1) \in Seq(Activation)
        BY <3>1, ReturnPath
      <3>3. mark' \in [Block -> BOOLEAN]
        BY <2>4 DEF Return, GCTypeOK, Target
      <3>4. QED
        BY <2>4, <3>2, <3>3 DEF Return, GCTypeOK
    <2>5. QED
      BY <1>3, <2>1, <2>2, <2>3, <2>4 DEF MarkSlot
  <1>4. CASE StartSweep
    BY <1>4 DEF StartSweep, GCTypeOK, Phases
  <1>5. ASSUME NEW b \in Block, Keep(b) \/ Free(b) PROVE GCTypeOK'
    <2>1. CASE Keep(b)
      BY <2>1 DEF Keep, GCTypeOK
    <2>2. CASE Free(b)
      <3>1. allocations[b] \in Nat /\ allocated' \in Int
        BY <2>2 DEF Free, GCTypeOK
      <3>2. QED
        BY <2>2, <3>1 DEF Free, GCTypeOK
    <2>3. QED
      BY <1>5, <2>1, <2>2
  <1>6. CASE StartUnmark
    BY <1>6 DEF StartUnmark, GCTypeOK, Phases
  <1>7. CASE Finish
    BY <1>7 DEF Finish, GCTypeOK, Phases
  <1>8. CASE UNCHANGED gcVars
    BY <1>8 DEF gcVars, GCTypeOK
  <1>9. QED
    BY <1>1, <1>2, <1>3, <1>4, <1>5, <1>6, <1>7, <1>8 DEF GCNext

\* The two cases of a visited object, once the array that was walked is done.
LEMMA ClosedBetween ==
  ASSUME GCTypeOK, WalkInv, path = <<>>, NEW b \in Block, mark[b],
         NEW c \in Children(heap[b], arrays)
  PROVE  mark[c]
  BY DEF WalkInv, MarkedClosed

\* Marking the next root of the first mark().
LEMMA MarkRootOnce ==
  ASSUME GCTypeOK, phase = "mark", UNCHANGED phase, NEW r \in Word, NextRoot(r), Unvisited(r),
         mark' = [mark EXCEPT ![r] = Target]
  PROVE  /\ r \in Block /\ path = <<>> /\ Target /\ Target'
         /\ mark'[r] /\ mark' \in [Block -> BOOLEAN]
         /\ \A b \in Block : b # r => mark'[b] = mark[b]
         /\ \A b \in Block : mark[b] => mark'[b]
  BY DEF GCTypeOK, Target, NextRoot, Unvisited

\* A root passed over: null, visited already, or a stale array.
LEMMA PassRootWalk ==
  ASSUME GCTypeOK, phase = "mark", WalkInv, NEW r \in Word, SkipRoot(r) \/ MissStaleArray(r)
  PROVE  WalkInv'
  <1>1. /\ path = <<>> /\ path' = <<>> /\ todo' = todo \ {r}
        /\ Visited(r) \/ (r \in Block /\ IsStale(r))
        /\ UNCHANGED <<mark, phase, roots>> /\ UNCHANGED Static
    BY DEF SkipRoot, MissStaleArray, NextRoot, Unvisited, Visited, IsStale, Static
  <1>2. SafeRefs' = SafeRefs /\ Refs' = Refs
    BY <1>1, SafeStatic
  <1>3. WalkFacts' /\ SlotsPassed'
    BY <1>1 DEF WalkFacts, SlotsPassed
  <1>4. MarkedClosed'
    BY <1>1 DEF WalkInv, MarkedClosed, Static
  <1>5. \A x \in SafeRefs \ todo' : Visited(x)
    <2>1. SUFFICES ASSUME NEW x \in SafeRefs, x \notin todo, x # r PROVE Visited(x)
      BY <1>1 DEF SafeRefs
    <2>2. QED
      BY <2>1, <1>1 DEF WalkInv, SafeRootsPassed
  <1>6. SafeRootsPassed'
    BY <1>1, <1>2, <1>5 DEF WalkInv, SafeRootsPassed, Visited, Target
  <1>7. QED
    BY <1>3, <1>4, <1>6 DEF WalkInv

\* A string, or an array that starts to be walked unless its elements are no
\* references, is marked.
LEMMA MarkRootWalk ==
  ASSUME GCTypeOK, phase = "mark", WalkInv, NEW r \in Word, MarkString(r) \/ MarkArray(r)
  PROVE  WalkInv'
  <1>1. /\ NextRoot(r) /\ Unvisited(r) /\ path = <<>> /\ todo' = todo \ {r}
        /\ mark' = [mark EXCEPT ![r] = Target]
        /\ UNCHANGED <<phase, roots>> /\ UNCHANGED Static
    BY DEF MarkString, MarkArray, NextRoot, Static
  <1>2. SafeRefs' = SafeRefs /\ Refs' = Refs
    BY <1>1, SafeStatic
  <1>3. /\ r \in Block /\ Target /\ Target' /\ mark'[r] /\ mark' \in [Block -> BOOLEAN]
        /\ \A b \in Block : b # r => mark'[b] = mark[b]
        /\ \A b \in Block : mark[b] => mark'[b]
    BY <1>1, MarkRootOnce
  <1>4. \/ path' = <<>> /\ Children(heap[r], arrays) = {}
        \/ path' = <<[obj |-> r, slot |-> 1]>> /\ IsArray(heap[r])
    <2>1. CASE MarkString(r)
      <3>1. path' = path /\ ~IsObject(heap[r]) /\ ~IsArray(heap[r])
        BY <2>1 DEF MarkString, NextRoot, IsObject, IsArray, IsString
      <3>2. QED
        BY <3>1, <1>1 DEF Children, RefSlots
    <2>2. CASE MarkArray(r)
      BY <2>2 DEF MarkArray, Children, RefSlots, IsObject, IsArray, Enter
    <2>3. QED
      BY <2>1, <2>2
  <1>5. WalkFacts' /\ SlotsPassed'
    <2>1. CASE path' = <<>>
      BY <2>1 DEF WalkFacts, SlotsPassed
    <2>2. CASE path' = <<[obj |-> r, slot |-> 1]>> /\ IsArray(heap[r])
      <3>1. DOMAIN path' = {1} /\ path'[1].obj = r /\ path'[1].slot = 1 /\ UNCHANGED <<heap, arrays>>
        BY <2>2, <1>1 DEF Static
      <3>2. WalkFacts'
        BY <3>1, <2>2, <1>3 DEF WalkFacts
      <3>3. ASSUME NEW s \in RefSlots(heap[r], arrays) PROVE ~(s < 1)
        BY HeapAssumption DEF RefSlots, Slot
      <3>4. SlotsPassed'
        BY <3>1, <3>3 DEF SlotsPassed
      <3>5. QED
        BY <3>2, <3>4
    <2>3. QED
      BY <2>1, <2>2, <1>4
  <1>6. MarkedClosed'
    <2>1. ASSUME NEW b \in Block, mark'[b], NEW c \in Children(heap[b], arrays), b # r
          PROVE  mark'[c]
      <3>1. mark[c] /\ c \in Block
        BY <2>1, <1>1, <1>3, ClosedBetween DEF Children
      <3>2. QED
        BY <3>1, <1>3
    <2>2. UNCHANGED <<heap, arrays>>
      BY <1>1 DEF Static
    <2>3. \/ \A c \in Children(heap[r], arrays) : mark'[c]
          \/ path' # <<>> /\ path'[1].obj = r /\ IsArray(heap[r])
      BY <1>4
    <2>4. QED
      BY <2>1, <2>2, <2>3 DEF MarkedClosed
  <1>7. SafeRootsPassed'
    <2>1. \A x \in SafeRefs \ todo' : x = Null \/ (x \in Block /\ mark'[x])
      BY <1>1, <1>3 DEF WalkInv, SafeRootsPassed, Visited
    <2>2. \A x : (x = Null \/ (x \in Block /\ mark'[x])) => Visited(x)'
      BY <1>3 DEF Visited
    <2>3. roots' = Refs'
      BY <1>1, <1>2 DEF WalkInv, SafeRootsPassed
    <2>4. QED
      BY <2>1, <2>2, <2>3, <1>2 DEF SafeRootsPassed
  <1>8. QED
    BY <1>5, <1>6, <1>7 DEF WalkInv

\* A class object is walked before it is marked.
LEMMA MarkClassWalk ==
  ASSUME GCTypeOK, phase = "mark", WalkInv, NEW r \in Word, MarkClass(r)
  PROVE  WalkInv'
  <1>1. /\ IsObject(heap[r]) /\ path = <<>> /\ todo' = todo \ {r}
        /\ path' = <<[obj |-> r, slot |-> 1]>>
        /\ UNCHANGED <<mark, phase, roots>> /\ UNCHANGED Static
    BY DEF MarkClass, NextRoot, Enter, Static
  <1>2. SafeRefs' = SafeRefs /\ Refs' = Refs
    BY <1>1, SafeStatic
  <1>3. /\ DOMAIN path' = {1} /\ path' # <<>> /\ path'[1].obj = r /\ path'[1].slot = 1
        /\ UNCHANGED <<heap, arrays>> /\ Target' = Target
    BY <1>1 DEF Static, Target
  <1>4. WalkFacts'
    <2>1. ~IsArray(heap[r])
      BY <1>1 DEF IsObject, IsArray
    <2>2. QED
      BY <2>1, <1>1, <1>3 DEF WalkFacts
  <1>5. SlotsPassed'
    <2>1. ASSUME NEW s \in RefSlots(heap[r], arrays) PROVE ~(s < 1)
      BY HeapAssumption DEF RefSlots, Slot
    <2>2. QED
      BY <2>1, <1>3 DEF SlotsPassed
  <1>6. MarkedClosed'
    BY <1>1, <1>3 DEF WalkInv, MarkedClosed
  <1>7. SafeRootsPassed'
    <2>1. \A x \in SafeRefs \ todo' : Visited(x) \/ x = r
      BY <1>1 DEF WalkInv, SafeRootsPassed
    <2>2. QED
      BY <2>1, <1>1, <1>2, <1>3 DEF WalkInv, SafeRootsPassed, Visited
  <1>8. QED
    BY <1>4, <1>5, <1>6, <1>7 DEF WalkInv

\* Whether a slot passed is accounted for depends on its activation, and on
\* the object of the next one.
LEMMA PassedKept ==
  ASSUME SlotsPassed, NEW i \in DOMAIN path,
         NEW s \in RefSlots(heap[path[i].obj], arrays), s < path[i].slot
  PROVE  \/ Visited(heap[path[i].obj].data[s])
         \/ /\ i < Len(path)
            /\ s = path[i].slot - 1
            /\ path[i + 1].obj = heap[path[i].obj].data[s]
  BY DEF SlotsPassed

\* The slot passed over is no reference or holds one to a visited object.
LEMMA SkipSlotWalk ==
  ASSUME GCTypeOK, phase = "mark", WalkInv, SkipSlot
  PROVE  WalkInv'
  <1> DEFINE n == Len(path)
  <1>1. /\ path' = Advanced /\ path # <<>> /\ path \in Seq(Activation)
        /\ Visited(Child) \/ Top.slot \notin TopRefs
        /\ Top.slot \in Slot
        /\ UNCHANGED <<mark, phase, roots, todo>> /\ UNCHANGED Static
    BY DEF SkipSlot, AtSlot, Visited, GCTypeOK, Static
  <1>2. SafeRefs' = SafeRefs /\ Refs' = Refs
    BY <1>1, SafeStatic
  <1>3. UNCHANGED <<heap, arrays>> /\ Target' = Target
    BY <1>1 DEF Static, Target
  <1>4. /\ n \in Nat \ {0} /\ DOMAIN path = 1 .. n /\ Top = path[n]
        /\ Top.slot \in Nat
        /\ Len(path') = n
        /\ \A i \in 1 .. n : path'[i].obj = path[i].obj
        /\ \A i \in 1 .. n : i # n => path'[i] = path[i]
        /\ path'[n].slot = Top.slot + 1
    BY <1>1, AdvancedFacts DEF Activation
  <1>5. DOMAIN path' = 1 .. n /\ path' # <<>>
    <2>1. path' \in Seq(Activation)
      BY <1>1, AdvancedFacts
    <2>2. QED
      BY <2>1, <1>4, LenProperties
  <1>n. n = Len(path)
    OBVIOUS
  <1> HIDE DEF n
  <1>m. 1 \in 1 .. n
    BY <1>4
  <1>6. WalkFacts'
    <2>1. ASSUME NEW i \in 1 .. n
          PROVE  /\ path'[i].slot >= 1
                 /\ IsArray(heap[path'[i].obj]) => i = 1 /\ mark[path'[i].obj]
                 /\ ~IsArray(heap[path'[i].obj]) => IsObject(heap[path'[i].obj])
      <3>1. path'[i].slot >= 1
        <4>1. CASE i = n
          BY <4>1, <1>4
        <4>2. CASE i # n
          BY <4>2, <1>4 DEF WalkInv, WalkFacts
        <4>3. QED
          BY <4>1, <4>2
      <3>2. QED
        BY <3>1, <1>4 DEF WalkInv, WalkFacts
    <2>2. QED
      BY <2>1, <1>1, <1>3, <1>5 DEF WalkFacts
  <1>7. SlotsPassed'
    <2>1. SUFFICES ASSUME NEW i \in 1 .. n,
                          NEW s \in RefSlots(heap[path'[i].obj], arrays),
                          s < path'[i].slot
                   PROVE  \/ Visited(heap[path'[i].obj].data[s])
                          \/ /\ i < n
                             /\ s = path'[i].slot - 1
                             /\ path'[i + 1].obj = heap[path'[i].obj].data[s]
      BY <1>1, <1>3, <1>4, <1>5 DEF SlotsPassed, Visited
    <2>2. s \in Int /\ s \in Slot
      BY DEF RefSlots, Slot
    <2>3. CASE i # n
      <3>1. path'[i] = path[i] /\ i + 1 \in 1 .. n /\ path'[i + 1].obj = path[i + 1].obj
        BY <2>3, <1>4
      <3>2. QED
        BY <3>1, <2>1, <1>4, <1>n, PassedKept DEF WalkInv
    <2>4. CASE i = n
      <3>1. path'[i].obj = Top.obj /\ path'[i].slot = Top.slot + 1
        BY <2>4, <1>4
      <3>2. CASE s = Top.slot
        BY <1>1, <2>1, <3>1, <3>2 DEF TopRefs, Child
      <3>3. CASE s # Top.slot
        <4>1. s < Top.slot
          BY <2>1, <2>2, <3>1, <3>3, <1>4
        <4>2. Visited(heap[Top.obj].data[s])
          <5>1. n \in DOMAIN path /\ s \in RefSlots(heap[path[n].obj], arrays) /\ ~(n < n)
            BY <2>1, <2>4, <3>1, <1>4
          <5>2. QED
            BY <5>1, <4>1, <1>4, <1>n, PassedKept DEF WalkInv
        <4>3. QED
          BY <4>2, <3>1
      <3>4. QED
        BY <3>2, <3>3
    <2>5. QED
      BY <2>3, <2>4
  <1>8. path'[1].obj = path[1].obj
    BY <1>4, <1>m
  <1>9. MarkedClosed'
    BY <1>1, <1>3, <1>5, <1>8 DEF WalkInv, MarkedClosed
  <1>10. SafeRootsPassed'
    BY <1>1, <1>2, <1>3, <1>5, <1>8 DEF WalkInv, SafeRootsPassed, Visited
  <1>11. QED
    BY <1>6, <1>7, <1>9, <1>10 DEF WalkInv

\* The recursive call walks the object of the slot just passed.
LEMMA DescendWalk ==
  ASSUME GCTypeOK, phase = "mark", WalkInv, Descend
  PROVE  WalkInv'
  <1> DEFINE n == Len(path)
  <1>1. /\ path' = Append(Advanced, Enter(Child)) /\ path # <<>> /\ path \in Seq(Activation)
        /\ Child \in Block /\ IsObject(heap[Child])
        /\ UNCHANGED <<mark, phase, roots, todo>> /\ UNCHANGED Static
    BY DEF Descend, MustDescend, Unvisited, AtSlot, GCTypeOK, Static
  <1>2. SafeRefs' = SafeRefs /\ Refs' = Refs
    BY <1>1, SafeStatic
  <1>3. UNCHANGED <<heap, arrays>> /\ Target' = Target
    BY <1>1 DEF Static, Target
  <1>4. /\ path' # <<>> /\ Len(path') = n + 1 /\ DOMAIN path' = 1 .. n + 1
        /\ path'[n + 1] = [obj |-> Child, slot |-> 1]
        /\ \A i \in 1 .. n : path'[i] = Advanced[i]
    BY <1>1, DescendPath
  <1>5. /\ n \in Nat \ {0} /\ DOMAIN path = 1 .. n /\ Top = path[n]
        /\ Top.slot \in Nat
        /\ \A i \in 1 .. n : path'[i].obj = path[i].obj
        /\ \A i \in 1 .. n : i # n => path'[i] = path[i]
        /\ path'[n].slot = Top.slot + 1
    <2>0. n \in Nat \ {0} /\ DOMAIN path = 1 .. n /\ Top = path[n] /\ Top.slot \in Nat
      BY <1>1, AdvancedFacts DEF Activation
    <2>1. n \in 1 .. n /\ \A i \in 1 .. n : path'[i] = Advanced[i]
      BY <2>0, <1>4
    <2>2. QED
      BY <2>0, <2>1, <1>1, AdvancedFacts
  <1>n. n = Len(path)
    OBVIOUS
  <1> HIDE DEF n
  <1>m. 1 \in 1 .. n
    BY <1>5
  <1>6. WalkFacts'
    <2>1. ASSUME NEW i \in 1 .. n + 1
          PROVE  /\ path'[i].slot >= 1
                 /\ IsArray(heap[path'[i].obj]) => i = 1 /\ mark[path'[i].obj]
                 /\ ~IsArray(heap[path'[i].obj]) => IsObject(heap[path'[i].obj])
      <3>1. CASE i = n + 1
        BY <3>1, <1>1, <1>4 DEF IsObject, IsArray
      <3>2. CASE i \in 1 .. n
        <4>1. path'[i].slot >= 1
          <5>1. CASE i = n
            BY <5>1, <1>5
          <5>2. CASE i # n
            BY <3>2, <5>2, <1>5 DEF WalkInv, WalkFacts
          <5>3. QED
            BY <5>1, <5>2
        <4>2. QED
          BY <3>2, <4>1, <1>5 DEF WalkInv, WalkFacts
      <3>3. QED
        BY <3>1, <3>2, <1>5
    <2>2. QED
      BY <2>1, <1>1, <1>3, <1>4 DEF WalkFacts
  <1>7. SlotsPassed'
    <2>0. /\ UNCHANGED <<heap, arrays, mark, phase>>
          /\ Len(path') = n + 1 /\ DOMAIN path' = 1 .. n + 1
      BY <1>1, <1>3, <1>4
    <2>1. SUFFICES ASSUME NEW i \in 1 .. n + 1,
                          NEW s \in RefSlots(heap[path'[i].obj], arrays),
                          s < path'[i].slot
                   PROVE  \/ Visited(heap[path'[i].obj].data[s])
                          \/ /\ i < n + 1
                             /\ s = path'[i].slot - 1
                             /\ path'[i + 1].obj = heap[path'[i].obj].data[s]
      BY <2>0 DEF SlotsPassed, Visited, Target
    <2>2. s \in Slot /\ s \in Int /\ s >= 1
      BY DEF RefSlots, Slot
    <2>3. CASE i = n + 1
      BY <2>1, <2>2, <2>3, <1>4
    <2>4. CASE i = n
      <3>1. path'[i].obj = Top.obj /\ path'[i].slot = Top.slot + 1
        BY <2>4, <1>5
      <3>2. CASE s = Top.slot
        <4>1. path'[i + 1].obj = heap[Top.obj].data[s]
          BY <2>4, <3>2, <1>4 DEF Child
        <4>2. s = path'[i].slot - 1 /\ i < n + 1
          BY <2>2, <2>4, <3>1, <3>2, <1>5
        <4>3. QED
          BY <3>1, <4>1, <4>2
      <3>3. CASE s # Top.slot
        <4>1. s < Top.slot
          BY <2>1, <2>2, <3>1, <3>3, <1>5
        <4>2. Visited(heap[Top.obj].data[s])
          <5>1. n \in DOMAIN path /\ s \in RefSlots(heap[path[n].obj], arrays) /\ ~(n < n)
            BY <2>1, <2>4, <3>1, <1>5
          <5>2. QED
            BY <5>1, <4>1, <1>5, <1>n, PassedKept DEF WalkInv
        <4>3. QED
          BY <4>2, <3>1
      <3>4. QED
        BY <3>2, <3>3
    <2>5. CASE i \in 1 .. n /\ i # n
      <3>1. path'[i] = path[i] /\ i < n + 1 /\ i + 1 \in 1 .. n /\ path'[i + 1].obj = path[i + 1].obj
        BY <2>5, <1>5
      <3>2. /\ i \in DOMAIN path /\ s \in RefSlots(heap[path[i].obj], arrays)
            /\ s < path[i].slot
        BY <3>1, <2>1, <2>5, <1>5
      <3>3. QED
        BY <3>1, <3>2, <1>n, PassedKept DEF WalkInv
    <2>6. QED
      BY <2>3, <2>4, <2>5, <1>5
  <1>8. path'[1].obj = path[1].obj
    BY <1>5, <1>m
  <1>9. MarkedClosed'
    BY <1>1, <1>3, <1>4, <1>8 DEF WalkInv, MarkedClosed
  <1>10. SafeRootsPassed'
    BY <1>1, <1>2, <1>3, <1>4, <1>8 DEF WalkInv, SafeRootsPassed, Visited
  <1>11. QED
    BY <1>6, <1>7, <1>9, <1>10 DEF WalkInv

\* When an object has been walked, all its slots have been passed and its
\* children are marked; so it may be.
LEMMA ReturnWalk ==
  ASSUME GCTypeOK, phase = "mark", WalkInv, Return
  PROVE  WalkInv'
  <1> DEFINE n == Len(path)
             o == Top.obj
  <1>1. /\ path' = SubSeq(path, 1, Len(path) - 1) /\ path # <<>> /\ path \in Seq(Activation)
        /\ mark' = IF IsObject(heap[o]) THEN [mark EXCEPT ![o] = Target] ELSE mark
        /\ Top.slot \notin Slot
        /\ UNCHANGED <<phase, roots, todo>> /\ UNCHANGED Static
    BY DEF Return, GCTypeOK, Static
  <1>2. SafeRefs' = SafeRefs /\ Refs' = Refs
    BY <1>1, SafeStatic
  <1>3. /\ Len(path') = n - 1
        /\ DOMAIN path' = 1 .. n - 1
        /\ \A i \in 1 .. n - 1 : path'[i] = path[i]
        /\ path' = <<>> <=> n = 1
    BY <1>1, ReturnPath
  <1>4. n \in Nat \ {0} /\ DOMAIN path = 1 .. n /\ Top = path[n] /\ Top \in Activation
    BY <1>1, AdvancedFacts
  <1>5. n = Len(path)
    OBVIOUS
  <1> HIDE DEF n
  <1>6. n \in 1 .. n /\ \A i \in 1 .. n - 1 : i \in 1 .. n /\ i # n
    BY <1>4
  <1>7. /\ o \in Block /\ Top.slot \in Nat /\ Top.slot >= 1
        /\ IsArray(heap[o]) => n = 1 /\ mark[o]
        /\ ~IsArray(heap[o]) => IsObject(heap[o])
    BY <1>4, <1>6 DEF WalkInv, WalkFacts, Activation
  <1>8. /\ UNCHANGED <<heap, arrays>> /\ Target /\ Target'
        /\ mark' \in [Block -> BOOLEAN]
        /\ mark'[o]
        /\ \A b \in Block : b # o => mark'[b] = mark[b]
        /\ \A b \in Block : mark[b] => mark'[b]
    BY <1>1, <1>7 DEF GCTypeOK, Static, Target
  <1> DEFINE NowVisited(w) == w = Null \/ (w \in Block /\ mark'[w])
  <1>9. \A w : Visited(w) => NowVisited(w)
    BY <1>8 DEF Visited
  <1>10. \A w : NowVisited(w) => Visited(w)'
    BY <1>8 DEF Visited
  <1>11. \A s \in RefSlots(heap[o], arrays) : Visited(heap[o].data[s])
    <2>1. SUFFICES ASSUME NEW s \in RefSlots(heap[o], arrays)
                   PROVE  Visited(heap[o].data[s])
      OBVIOUS
    <2>2. s \in 1 .. NumSlots /\ NumSlots \in Nat /\ Top.slot \notin 1 .. NumSlots
      BY <1>1, HeapAssumption DEF RefSlots, Slot
    <2>3. s < Top.slot
      BY <2>2, <1>7
    <2>4. n \in DOMAIN path /\ s \in RefSlots(heap[path[n].obj], arrays) /\ ~(n < n)
      BY <1>4, <1>6, <2>1
    <2>5. QED
      BY <2>3, <2>4, <1>4, <1>5, PassedKept DEF WalkInv
  <1>12. \A c \in Children(heap[o], arrays) : mark'[c]
    <2>1. SUFFICES ASSUME NEW c \in Children(heap[o], arrays) PROVE mark'[c]
      OBVIOUS
    <2>2. PICK s \in RefSlots(heap[o], arrays) : c = heap[o].data[s]
      BY DEF Children
    <2>3. c # Null
      BY HeapAssumption DEF Children
    <2>4. QED
      BY <2>2, <2>3, <1>9, <1>11
  <1>13. WalkFacts'
    <2>0. path \in [1 .. n -> Activation]
      BY <1>1, <1>5, LenProperties
    <2>1. \A i \in 1 .. n - 1 : path'[i] = path[i] /\ i \in DOMAIN path /\ path[i].obj \in Block
      BY <2>0, <1>3, <1>4, <1>6 DEF Activation
    <2>2. QED
      BY <2>1, <1>3, <1>8 DEF WalkInv, WalkFacts
  <1>14. SlotsPassed'
    <2>1. SUFFICES ASSUME NEW i \in 1 .. n - 1,
                          NEW s \in RefSlots(heap[path'[i].obj], arrays),
                          s < path'[i].slot
                   PROVE  \/ NowVisited(heap[path'[i].obj].data[s])
                          \/ /\ i < n - 1
                             /\ s = path'[i].slot - 1
                             /\ path'[i + 1].obj = heap[path'[i].obj].data[s]
      <3>1. /\ UNCHANGED <<heap, arrays>> /\ DOMAIN path' = 1 .. n - 1 /\ Len(path') = n - 1
        BY <1>3, <1>8
      <3>2. QED
        BY <3>1, <1>10 DEF SlotsPassed
    <2>2. path'[i] = path[i] /\ i \in DOMAIN path
      BY <1>3, <1>4, <1>6
    <2>3. \/ Visited(heap[path[i].obj].data[s])
          \/ /\ s = path[i].slot - 1
             /\ path[i + 1].obj = heap[path[i].obj].data[s]
      BY <2>1, <2>2, PassedKept DEF WalkInv
    <2>4. CASE Visited(heap[path[i].obj].data[s])
      BY <2>2, <2>4, <1>9
    <2>5. CASE /\ s = path[i].slot - 1
               /\ path[i + 1].obj = heap[path[i].obj].data[s]
      <3>1. CASE i + 1 = n
        BY <2>2, <2>5, <3>1, <1>4, <1>7, <1>8
      <3>2. CASE i + 1 # n
        <4>1. i + 1 \in 1 .. n - 1 /\ i < n - 1
          BY <3>2, <1>4
        <4>2. QED
          BY <4>1, <2>2, <2>5, <1>3
      <3>3. QED
        BY <3>1, <3>2
    <2>6. QED
      BY <2>3, <2>4, <2>5
  <1>15. ~(n = 1) => path' # <<>> /\ path'[1] = path[1]
    BY <1>3, <1>4
  <1>16. MarkedClosed'
    <2>1. ASSUME NEW b \in Block, mark'[b], b # o
          PROVE  \/ \A c \in Children(heap[b], arrays) : mark'[c]
                 \/ path' # <<>> /\ path'[1].obj = b /\ IsArray(heap[b])
      <3>1. mark[b]
        BY <2>1, <1>8
      <3>2. CASE \A c \in Children(heap[b], arrays) : mark[c]
        BY <3>2, <1>8 DEF Children
      <3>3. CASE path[1].obj = b /\ IsArray(heap[b])
        BY <3>3, <2>1, <1>4, <1>15
      <3>4. QED
        BY <3>1, <3>2, <3>3 DEF WalkInv, MarkedClosed
    <2>2. QED
      BY <2>1, <1>8, <1>12 DEF MarkedClosed
  <1>17. SafeRootsPassed'
    <2>1. ASSUME NEW x \in SafeRefs \ todo
          PROVE  NowVisited(x) \/ (path' # <<>> /\ path'[1].obj = x)
      <3>1. Visited(x) \/ path[1].obj = x
        BY <2>1 DEF WalkInv, SafeRootsPassed
      <3>2. CASE n = 1
        BY <3>1, <3>2, <1>4, <1>7, <1>8, <1>9
      <3>3. CASE n # 1
        BY <3>1, <3>3, <1>9, <1>15
      <3>4. QED
        BY <3>2, <3>3
    <2>2. roots' = Refs' /\ todo' = todo
      BY <1>1, <1>2 DEF WalkInv, SafeRootsPassed
    <2> HIDE DEF NowVisited
    <2>3. QED
      BY <2>1, <2>2, <1>2, <1>10 DEF SafeRootsPassed
  <1>18. QED
    BY <1>13, <1>14, <1>16, <1>17 DEF WalkInv

\* DegradedInv is inductive.
LEMMA DegradedStep == DegradedInv /\ [GCNext]_gcVars => DegradedInv'
  <1> SUFFICES ASSUME DegradedInv, [GCNext]_gcVars PROVE DegradedInv'
    OBVIOUS
  <1>0. /\ GCTypeOK /\ GCTypeOK' /\ UNCHANGED Static
        /\ SafeRefs' = SafeRefs /\ SafelyReachable' = SafelyReachable /\ Refs' = Refs
    BY TypesKept, StaticSteps, SafeStatic DEF DegradedInv
  \* Only sweep() deallocates.
  <1>1. ASSUME allocations' = allocations
        PROVE  SafePathsLive'
    BY <1>0, <1>1 DEF DegradedInv, SafePathsLive, Live
  <1>2. CASE CollectRoots
    <2>1. /\ phase = "collect" /\ phase' = "mark" /\ roots' = Refs /\ todo' = Refs
          /\ path' = path /\ mark' = mark /\ allocations' = allocations
      BY <1>2 DEF CollectRoots
    <2>2. path = <<>> /\ \A b \in Block : ~mark[b]
      BY <2>1 DEF DegradedInv
    <2>3. WalkInv'
      BY <2>1, <2>2, <1>0 DEF WalkInv, WalkFacts, SlotsPassed, MarkedClosed,
                              SafeRootsPassed, SafeRefs
    <2>4. QED
      BY <2>1, <2>3, <1>0, <1>1 DEF DegradedInv
  <1>3. ASSUME NEW r \in Word, MarkRoot(r) PROVE DegradedInv'
    <2>1. phase \in {"mark", "unmark"} /\ phase' \in {phase, "crash"} /\ allocations' = allocations
      BY <1>3 DEF MarkRoot, SkipRoot, MarkString, MarkArray, MissStaleArray, MarkClass,
                  WildRoot, NextRoot, Marking
    <2>2. ASSUME phase' = "mark" PROVE WalkInv'
      <3>1. phase = "mark" /\ WalkInv
        BY <2>1, <2>2 DEF DegradedInv
      <3>2. ~WildRoot(r)
        BY <2>2 DEF WildRoot
      <3>3. QED
        BY <1>0, <1>3, <3>1, <3>2, PassRootWalk, MarkRootWalk, MarkClassWalk DEF MarkRoot
    <2>3. QED
      BY <2>1, <2>2, <1>0, <1>1 DEF DegradedInv
  <1>4. CASE MarkSlot
    <2>1. phase \in {"mark", "unmark"} /\ phase' \in {phase, "crash"} /\ allocations' = allocations
      BY <1>4 DEF MarkSlot, SkipSlot, Descend, MustDescend, WildSlot, Return, AtSlot, Marking
    <2>2. ASSUME phase' = "mark" PROVE WalkInv'
      <3>1. phase = "mark" /\ WalkInv
        BY <2>1, <2>2 DEF DegradedInv
      <3>2. ~WildSlot
        BY <2>2 DEF WildSlot
      <3>3. QED
        BY <1>0, <1>4, <3>1, <3>2, SkipSlotWalk, DescendWalk, ReturnWalk DEF MarkSlot
    <2>3. QED
      BY <2>1, <2>2, <1>0, <1>1 DEF DegradedInv
  <1>5. CASE StartSweep
    <2>1. /\ phase = "mark" /\ path = <<>> /\ todo = {} /\ phase' = "sweep"
          /\ mark' = mark /\ allocations' = allocations
      BY <1>5 DEF StartSweep
    <2>2. WalkInv /\ Target
      BY <2>1 DEF DegradedInv, Target
    <2> DEFINE C == { b \in Block : mark[b] }
    <2>3. SafeRefs \cap Block \subseteq C
      BY <2>1, <2>2, HeapAssumption DEF WalkInv, SafeRootsPassed, Visited
    <2>4. \A b \in C : Children(heap[b], arrays) \subseteq C
      BY <2>1, <2>2, <1>0, ClosedBetween DEF Children
    <2>5. SafelyReachable \subseteq C
      <3>1. C \in SUBSET Block
        OBVIOUS
      <3> HIDE DEF C
      <3>2. QED
        BY <2>3, <2>4, <3>1, SafeLeast
    <2>6. QED
      BY <2>1, <2>5, <1>0, <1>1 DEF DegradedInv
  <1>6. ASSUME NEW b \in Block, Keep(b) \/ Free(b) PROVE DegradedInv'
    <2>1. phase = "sweep" /\ phase' = "sweep" /\ mark' = mark
      BY <1>6 DEF Keep, Free
    <2>2. CASE Keep(b)
      BY <2>1, <2>2, <1>0, <1>1 DEF Keep, DegradedInv
    <2>3. CASE Free(b)
      <3>1. Live' = Live \ {b} /\ b \notin SafelyReachable
        BY <2>3, <2>1 DEF Free, Live, DegradedInv
      <3>2. SafePathsLive'
        BY <3>1, <1>0 DEF DegradedInv, SafePathsLive
      <3>3. QED
        BY <2>1, <3>2, <1>0 DEF DegradedInv
    <2>4. QED
      BY <1>6, <2>2, <2>3
  <1>7. CASE StartUnmark \/ Finish
    BY <1>7, <1>0, <1>1 DEF StartUnmark, Finish, DegradedInv
  <1>8. CASE UNCHANGED gcVars
    BY <1>8, <1>0, <1>1
    DEF gcVars, DegradedInv, WalkInv, WalkFacts, SlotsPassed, MarkedClosed, SafeRootsPassed,
        Visited, Target
  <1>9. QED
    BY <1>2, <1>3, <1>4, <1>5, <1>6, <1>7, <1>8 DEF GCNext

\* On any heap, what the first mark() has passed is marked or being walked,
\* and sweep() begins with all that is safely reachable marked.
THEOREM DegradedInvariance == DegradedSpec => []DegradedInv
  <1>1. DegradedInit => DegradedInv
    BY DEF DegradedInit, Called, DegradedInv, GCTypeOK, Phases, Live
  <1>2. QED
    BY <1>1, DegradedStep, PTL DEF DegradedSpec

\* Whatever earlier runs, stale descriptor pointers or words that are no
\* references have done to the heap: run() frees nothing that the program
\* reaches without passing through an array with a stale pointer.
THEOREM SafePathsStayLive == DegradedSpec => []SafePathsLive
  <1>1. DegradedInv => SafePathsLive
    BY DEF DegradedInv
  <1>2. QED
    BY <1>1, DegradedInvariance, PTL

-----------------------------------------------------------------------------
(***************************************************************************)
(* Every step of run() leaves less to do, on any heap.                     *)
(***************************************************************************)
\* The state of every object walked is set by Return, or was set before.
LEMMA WalkOrderKept ==
  ASSUME GCTypeOK, WalkOrder, [GCNext]_gcVars
  PROVE  WalkOrder'
  <1>s. UNCHANGED heap
    BY StaticSteps DEF Static
  <1> DEFINE Done(p) == \A i \in DOMAIN p : IsObject(heap[p[i].obj]) \/ mark'[p[i].obj] = Target
  <1>1. ASSUME path = <<>>, path' = <<>> PROVE WalkOrder'
    BY <1>1 DEF WalkOrder
  <1>2. ASSUME Marking, phase' = phase, Done(path') PROVE WalkOrder'
    BY <1>s, <1>2 DEF WalkOrder, Marking, Target
  <1>3. ASSUME NEW r \in Word, MarkRoot(r) PROVE WalkOrder'
    <2>1. path = <<>> /\ Marking
      BY <1>3 DEF MarkRoot, SkipRoot, MarkString, MarkArray, MissStaleArray, MarkClass,
                  WildRoot, NextRoot
    <2>2. CASE SkipRoot(r) \/ MarkString(r) \/ MissStaleArray(r) \/ WildRoot(r)
      BY <1>1, <2>1, <2>2 DEF SkipRoot, MarkString, MissStaleArray, WildRoot
    <2>3. CASE MarkArray(r)
      <3>1. mark'[r] = Target /\ phase' = phase
        BY <2>3 DEF MarkArray, Unvisited, GCTypeOK
      <3>2. path' = <<Enter(r)>> \/ path' = <<>>
        BY <2>3 DEF MarkArray
      <3>3. Done(path')
        BY <3>1, <3>2 DEF Enter
      <3>4. QED
        BY <1>2, <2>1, <3>1, <3>3
    <2>4. CASE MarkClass(r)
      <3>1. path' = <<Enter(r)>> /\ IsObject(heap[r]) /\ phase' = phase
        BY <2>4 DEF MarkClass
      <3>2. Done(path')
        BY <3>1 DEF Enter
      <3>3. QED
        BY <1>2, <2>1, <3>1, <3>2
    <2>5. QED
      BY <1>3, <2>2, <2>3, <2>4 DEF MarkRoot
  <1>4. CASE MarkSlot
    <2>1. /\ Marking /\ path \in Seq(Activation) /\ path # <<>>
          /\ \A i \in DOMAIN path : IsObject(heap[path[i].obj]) \/ mark[path[i].obj] = Target
      BY <1>4 DEF MarkSlot, SkipSlot, Descend, WildSlot, Return, MustDescend, AtSlot, GCTypeOK, WalkOrder
    <2>2. CASE SkipSlot
      <3>1. path' = Advanced /\ mark' = mark /\ phase' = phase
        BY <2>2 DEF SkipSlot
      <3>2. DOMAIN Advanced = 1 .. Len(path)
        BY <2>1, AdvancedFacts, LenProperties
      <3>3. Done(path')
        BY <2>1, <3>1, <3>2, AdvancedFacts
      <3>4. QED
        BY <1>2, <2>1, <3>1, <3>3
    <2>3. CASE Descend
      <3>1. /\ path' = Append(Advanced, Enter(Child)) /\ mark' = mark /\ phase' = phase
            /\ Child \in Block /\ IsObject(heap[Child])
        BY <2>3 DEF Descend, MustDescend, Unvisited
      <3>2. /\ DOMAIN path' = 1 .. Len(path) + 1 /\ path'[Len(path) + 1].obj = Child
            /\ \A i \in 1 .. Len(path) : path'[i].obj = path[i].obj
        <4>1. /\ DOMAIN path' = 1 .. Len(path) + 1
              /\ path'[Len(path) + 1] = [obj |-> Child, slot |-> 1]
              /\ \A i \in 1 .. Len(path) : path'[i] = Advanced[i]
          BY <2>1, <3>1, DescendPath
        <4>2. \A i \in 1 .. Len(path) : Advanced[i].obj = path[i].obj
          BY <2>1, AdvancedFacts
        <4>3. QED
          BY <4>1, <4>2
      <3>3. Done(path')
        <4>1. DOMAIN path = 1 .. Len(path) /\ Len(path) \in Nat
          BY <2>1, LenProperties
        <4>2. ASSUME NEW i \in DOMAIN path'
              PROVE  IsObject(heap[path'[i].obj]) \/ mark'[path'[i].obj] = Target
          <5>1. CASE i \in 1 .. Len(path)
            BY <2>1, <3>1, <3>2, <4>1, <5>1
          <5>2. CASE i = Len(path) + 1
            BY <3>1, <3>2, <5>2
          <5>3. QED
            BY <3>2, <4>1, <5>1, <5>2
        <4>3. QED
          BY <4>2
      <3>4. QED
        BY <1>2, <2>1, <3>1, <3>3
    <2>4. CASE WildSlot
      BY <2>4 DEF WildSlot, WalkOrder, Marking
    <2>5. CASE Return
      <3>1. phase' = phase /\ path' = SubSeq(path, 1, Len(path) - 1)
        BY <2>5 DEF Return
      <3>2. \A b \in Block : mark'[b] = mark[b] \/ mark'[b] = Target
        BY <2>5 DEF Return, GCTypeOK
      <3>3. /\ DOMAIN path' \subseteq DOMAIN path /\ \A i \in DOMAIN path' : path'[i] = path[i]
        BY <2>1, <3>1, ReturnPath
      <3>4. \A i \in DOMAIN path : path[i].obj \in Block
        <4>1. ASSUME NEW i \in DOMAIN path PROVE path[i] \in Activation
          BY <2>1, LenProperties, ElementOfSeq
        <4>2. QED
          BY <4>1 DEF Activation
      <3>5. Done(path')
        BY <2>1, <3>2, <3>3, <3>4
      <3>6. QED
        BY <1>2, <2>1, <3>1, <3>5
    <2>6. QED
      BY <1>4, <2>2, <2>3, <2>4, <2>5 DEF MarkSlot
  <1>5. CASE CollectRoots \/ StartSweep \/ StartUnmark \/ Finish \/ \E b \in Block : Keep(b) \/ Free(b)
    BY <1>1, <1>5 DEF CollectRoots, StartSweep, StartUnmark, Finish, Keep, Free, WalkOrder
  <1>6. CASE UNCHANGED gcVars
    BY <1>6 DEF gcVars, WalkOrder, Marking, Target
  <1>7. QED
    BY <1>3, <1>4, <1>5, <1>6 DEF GCNext

\* What is counted is finite.
LEMMA Counts ==
  ASSUME GCTypeOK, IsFiniteSet(Block)
  PROVE  /\ IsFiniteSet(todo) /\ Cardinality(todo) \in Nat
         /\ IsFiniteSet(unswept) /\ Cardinality(unswept) \in Nat
         /\ IsFiniteSet(Unwalked) /\ Cardinality(Unwalked) \in Nat
  <1>1. IsFiniteSet(Word)
    <2>1. IsFiniteSet(Block \cup {Null})
      BY FS_AddElement
    <2>2. IsFiniteSet((Block \cup {Null}) \cup {Num})
      BY <2>1, FS_AddElement
    <2>3. Word = (Block \cup {Null}) \cup {Num}
      BY DEF Word
    <2>4. QED
      BY <2>2, <2>3
  <1>2. todo \subseteq Word
    <2>1. \A x \in Registers : x.val \in Word
      <3>1. ASSUME NEW i \in DOMAIN stack, NEW r \in Reg PROVE stack[i][r].val \in Word
        <4>1. stack[i] \in Frame
          BY LenProperties, ElementOfSeq DEF GCTypeOK
        <4>2. QED
          BY <4>1 DEF Frame, Register
      <3>2. QED
        BY <3>1 DEF Registers, GCTypeOK, Register
    <2>2. QED
      BY <2>1 DEF GCTypeOK, Refs
  <1>3. unswept \subseteq Block /\ Unwalked \subseteq Block
    BY DEF GCTypeOK, Unwalked
  <1>4. IsFiniteSet(todo) /\ IsFiniteSet(unswept) /\ IsFiniteSet(Unwalked)
    BY <1>1, <1>2, <1>3, FS_Subset
  <1>5. QED
    BY <1>4, FS_CardinalityType

LEMMA Smaller ==
  ASSUME NEW S, NEW T, IsFiniteSet(S), T \subseteq S, NEW x \in S, x \notin T
  PROVE  Cardinality(T) \in 0 .. Cardinality(S) - 1
  <1>1. IsFiniteSet(S \ {x}) /\ Cardinality(S \ {x}) = Cardinality(S) - 1 /\ Cardinality(S) \in Nat
    BY FS_RemoveElement, FS_CardinalityType
  <1>2. T \subseteq S \ {x}
    OBVIOUS
  <1>3. Cardinality(T) <= Cardinality(S \ {x}) /\ IsFiniteSet(T)
    BY <1>1, <1>2, FS_Subset
  <1>4. Cardinality(T) \in Nat
    BY <1>3, FS_CardinalityType
  <1>5. QED
    BY <1>1, <1>3, <1>4

\* The component of Work that a step makes smaller, given that it leaves the
\* ones before it.
SlotsLeft == IF path = <<>> THEN 0 ELSE NumSlots + 1 - Top.slot

LEMMA WorkIs ==
  /\ DOMAIN Work = 1 .. 6
  /\ Work[1] = Stage /\ Work[2] = Cardinality(todo) /\ Work[3] = Cardinality(unswept)
  /\ Work[4] = Cardinality(Unwalked) /\ Work[5] = Len(path) /\ Work[6] = SlotsLeft
  /\ Work'[1] = Stage' /\ Work'[2] = Cardinality(todo)' /\ Work'[3] = Cardinality(unswept)'
  /\ Work'[4] = Cardinality(Unwalked)' /\ Work'[5] = Len(path)' /\ Work'[6] = SlotsLeft'
  BY DEF Work, SlotsLeft

LEMMA StageFalls ==
  ASSUME Stage' \in 0 .. Stage - 1 PROVE LessWork
  <1>1. 1 \in DOMAIN Work /\ Work'[1] \in 0 .. Work[1] - 1 /\ \A j \in 1 .. 1 - 1 : Work'[j] = Work[j]
    BY WorkIs
  <1>2. QED
    BY <1>1 DEF LessWork

LEMMA TodoFalls ==
  ASSUME Stage' = Stage, Cardinality(todo)' \in 0 .. Cardinality(todo) - 1 PROVE LessWork
  <1>1. /\ 2 \in DOMAIN Work /\ Work'[2] \in 0 .. Work[2] - 1
        /\ \A j \in 1 .. 2 - 1 : Work'[j] = Work[j]
    BY WorkIs
  <1>2. QED
    BY <1>1 DEF LessWork

LEMMA UnsweptFalls ==
  ASSUME Stage' = Stage, UNCHANGED todo,
         Cardinality(unswept)' \in 0 .. Cardinality(unswept) - 1
  PROVE  LessWork
  <1>1. /\ 3 \in DOMAIN Work /\ Work'[3] \in 0 .. Work[3] - 1
        /\ \A j \in 1 .. 3 - 1 : Work'[j] = Work[j]
    BY WorkIs
  <1>2. QED
    BY <1>1 DEF LessWork

LEMMA UnwalkedFalls ==
  ASSUME Stage' = Stage, UNCHANGED <<todo, unswept>>,
         Cardinality(Unwalked)' \in 0 .. Cardinality(Unwalked) - 1
  PROVE  LessWork
  <1>1. /\ 4 \in DOMAIN Work /\ Work'[4] \in 0 .. Work[4] - 1
        /\ \A j \in 1 .. 4 - 1 : Work'[j] = Work[j]
    BY WorkIs
  <1>2. QED
    BY <1>1 DEF LessWork

LEMMA PathFalls ==
  ASSUME Stage' = Stage, UNCHANGED <<todo, unswept>>, Unwalked' = Unwalked,
         Len(path)' \in 0 .. Len(path) - 1
  PROVE  LessWork
  <1>1. /\ 5 \in DOMAIN Work /\ Work'[5] \in 0 .. Work[5] - 1
        /\ \A j \in 1 .. 5 - 1 : Work'[j] = Work[j]
    BY WorkIs
  <1>2. QED
    BY <1>1 DEF LessWork

LEMMA SlotsFall ==
  ASSUME Stage' = Stage, UNCHANGED <<todo, unswept>>, Unwalked' = Unwalked,
         Len(path)' = Len(path), SlotsLeft' \in 0 .. SlotsLeft - 1
  PROVE  LessWork
  <1>1. /\ 6 \in DOMAIN Work /\ Work'[6] \in 0 .. Work[6] - 1
        /\ \A j \in 1 .. 6 - 1 : Work'[j] = Work[j]
    BY WorkIs
  <1>2. QED
    BY <1>1 DEF LessWork

LEMMA StepLess ==
  ASSUME GCTypeOK, WalkOrder, GCNext, IsFiniteSet(Block)
  PROVE  LessWork
  <1>f. /\ IsFiniteSet(todo) /\ IsFiniteSet(unswept) /\ IsFiniteSet(Unwalked)
        /\ Cardinality(todo) \in Nat /\ Cardinality(unswept) \in Nat
        /\ Cardinality(Unwalked) \in Nat
    BY Counts
  <1>1. CASE CollectRoots \/ StartSweep \/ StartUnmark \/ Finish
    BY <1>1, StageFalls DEF CollectRoots, StartSweep, StartUnmark, Finish, Stage
  <1>2. ASSUME NEW r \in Word, MarkRoot(r) PROVE LessWork
    <2>1. phase \in {"mark", "unmark"} /\ r \in todo /\ todo' = todo \ {r}
      BY <1>2 DEF MarkRoot, SkipRoot, MarkString, MarkArray, MissStaleArray, MarkClass,
                  WildRoot, NextRoot, Marking
    <2>2. CASE WildRoot(r)
      BY <2>1, <2>2, StageFalls DEF WildRoot, Stage
    <2>3. CASE ~WildRoot(r)
      <3>1. Stage' = Stage
        BY <1>2, <2>3 DEF MarkRoot, SkipRoot, MarkString, MarkArray, MissStaleArray, MarkClass, Stage
      <3>2. Cardinality(todo)' \in 0 .. Cardinality(todo) - 1
        BY <1>f, <2>1, Smaller
      <3>3. QED
        BY <3>1, <3>2, TodoFalls
    <2>4. QED
      BY <2>2, <2>3
  <1>3. CASE MarkSlot
    <2>1. /\ phase \in {"mark", "unmark"} /\ path \in Seq(Activation) /\ path # <<>>
          /\ UNCHANGED <<todo, unswept>>
      BY <1>3 DEF MarkSlot, SkipSlot, Descend, WildSlot, Return, MustDescend, AtSlot, GCTypeOK,
                  Marking
    <2>2. CASE SkipSlot
      <3>1. path' = Advanced /\ UNCHANGED <<mark, phase>> /\ Top.slot \in 1 .. NumSlots
        BY <2>2 DEF SkipSlot, AtSlot, Slot
      <3>2. /\ Len(path) \in Nat \ {0} /\ Len(Advanced) = Len(path)
            /\ DOMAIN path = 1 .. Len(path) /\ DOMAIN Advanced = 1 .. Len(path)
            /\ \A i \in 1 .. Len(path) : Advanced[i].obj = path[i].obj
            /\ Advanced[Len(path)].slot = Top.slot + 1
        BY <2>1, AdvancedFacts, LenProperties
      <3>3. Stage' = Stage /\ Target' = Target
        BY <3>1 DEF Stage, Target
      <3>4. Unwalked' = Unwalked
        BY <3>1, <3>2, <3>3 DEF Unwalked
      <3>5. path' # <<>> /\ Len(path)' = Len(path) /\ Top'.slot = Top.slot + 1
        BY <3>1, <3>2, EmptySeq DEF Top
      <3>6. SlotsLeft' \in 0 .. SlotsLeft - 1
        BY <2>1, <3>1, <3>5, HeapAssumption DEF SlotsLeft
      <3>7. QED
        BY <2>1, <3>3, <3>4, <3>5, <3>6, SlotsFall
    <2>3. CASE Descend
      <3>1. /\ path' = Append(Advanced, Enter(Child)) /\ UNCHANGED <<mark, phase>>
            /\ Child \in Block /\ mark[Child] # Target
            /\ \A i \in DOMAIN path : path[i].obj # Child
        BY <2>3 DEF Descend, MustDescend, Unvisited
      <3>2. /\ DOMAIN path' = 1 .. Len(path) + 1
            /\ path'[Len(path) + 1] = [obj |-> Child, slot |-> 1]
            /\ \A i \in 1 .. Len(path) : path'[i] = Advanced[i]
        BY <2>1, <3>1, DescendPath
      <3>3. /\ \A i \in 1 .. Len(path) : Advanced[i].obj = path[i].obj
            /\ DOMAIN path = 1 .. Len(path) /\ Len(path) \in Nat
        BY <2>1, AdvancedFacts
      <3>4. Stage' = Stage /\ Target' = Target
        BY <3>1 DEF Stage, Target
      <3>5. Child \in Unwalked
        BY <3>1 DEF Unwalked
      <3>6. Child \notin Unwalked'
        BY <3>2, <3>3 DEF Unwalked
      <3>7. Unwalked' \subseteq Unwalked
        BY <3>1, <3>2, <3>3, <3>4 DEF Unwalked
      <3>8. Cardinality(Unwalked)' \in 0 .. Cardinality(Unwalked) - 1
        BY <1>f, <3>5, <3>6, <3>7, Smaller
      <3>9. QED
        BY <2>1, <3>4, <3>8, UnwalkedFalls
    <2>4. CASE WildSlot
      BY <2>1, <2>4, StageFalls DEF WildSlot, Stage
    <2>5. CASE Return
      <3>1. /\ UNCHANGED phase /\ path' = SubSeq(path, 1, Len(path) - 1)
            /\ mark' = IF IsObject(heap[Top.obj]) THEN [mark EXCEPT ![Top.obj] = Target] ELSE mark
        BY <2>5 DEF Return
      <3>2. /\ Len(path') = Len(path) - 1 /\ DOMAIN path' = 1 .. Len(path) - 1
            /\ \A i \in 1 .. Len(path) - 1 : path'[i] = path[i]
        BY <2>1, <3>1, ReturnPath
      <3>3. /\ Len(path) \in Nat \ {0} /\ DOMAIN path = 1 .. Len(path)
            /\ Top = path[Len(path)] /\ Top.obj \in Block
        BY <2>1, AdvancedFacts DEF Activation
      <3>4. Stage' = Stage /\ Target' = Target
        BY <3>1 DEF Stage, Target
      <3>5. /\ mark' \in [Block -> BOOLEAN] /\ mark'[Top.obj] = Target
            /\ \A b \in Block : b # Top.obj => mark'[b] = mark[b]
        <4>1. IsObject(heap[Top.obj]) \/ mark[Top.obj] = Target
          BY <2>1, <3>3 DEF WalkOrder, Marking
        <4>2. QED
          BY <3>1, <3>3, <4>1 DEF GCTypeOK, Target
      <3>6. Unwalked' = Unwalked
        BY <3>2, <3>3, <3>4, <3>5 DEF Unwalked
      <3>7. Len(path)' \in 0 .. Len(path) - 1
        BY <3>2, <3>3
      <3>8. QED
        BY <2>1, <3>4, <3>6, <3>7, PathFalls
    <2>6. QED
      BY <1>3, <2>2, <2>3, <2>4, <2>5 DEF MarkSlot
  <1>4. ASSUME NEW b \in Block, Keep(b) \/ Free(b) PROVE LessWork
    <2>1. /\ b \in unswept /\ unswept' = unswept \ {b} /\ UNCHANGED todo /\ Stage' = Stage
      BY <1>4 DEF Keep, Free, Stage
    <2>2. Cardinality(unswept)' \in 0 .. Cardinality(unswept) - 1
      BY <1>f, <2>1, Smaller
    <2>3. QED
      BY <2>1, <2>2, UnsweptFalls
  <1>5. QED
    BY <1>1, <1>2, <1>3, <1>4 DEF GCNext

\* On any heap, of any finite size and shape, each step of run() leaves less
\* to do.  So run() comes to an end, or to the crash that a wild reference or
\* a cycle leads to; and with CrashFree, on a typed heap it comes to an end.
THEOREM EveryStepProgresses ==
  ASSUME IsFiniteSet(Block)
  PROVE  DegradedSpec => Progress
  <1> DEFINE Inv == GCTypeOK /\ WalkOrder
  <1>1. DegradedInit => Inv
    BY DEF DegradedInit, Called, GCTypeOK, WalkOrder, Phases, Live, Marking
  <1>2. Inv /\ [GCNext]_gcVars => Inv'
    BY TypesKept, WalkOrderKept
  <1>3. Inv /\ [GCNext]_gcVars => [LessWork]_gcVars
    BY StepLess
  <1> HIDE DEF Inv
  <1>4. QED
    BY <1>1, <1>2, <1>3, PTL DEF DegradedSpec, Progress

=============================================================================
