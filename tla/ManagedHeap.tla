---------------------------- MODULE ManagedHeap ----------------------------
(***************************************************************************)
(* What a garbage-collected heap promises the program that runs on it, and *)
(* nothing of how: objects come into being, references are copied and      *)
(* dropped, and an object disappears only when no chain of references from *)
(* the program's registers leads to it.  The program has no way to get at  *)
(* an object it could not reach before, except by allocating it.           *)
(***************************************************************************)
EXTENDS Reachability

CONSTANT Node     \* heap addresses

VARIABLES
  objs,   \* addresses of the objects that exist
  edge,   \* [Node -> SUBSET Node], the references inside objects
  roots   \* addresses held by the program

vars == <<objs, edge, roots>>

Reached == Reach(edge, roots)

TypeOK ==
  /\ objs \subseteq Node
  /\ edge \in [Node -> SUBSET Node]

\* No reachable address is dangling.
NoDangling == Reached \subseteq objs

Init == TypeOK /\ NoDangling

\* The program copies, stores, overwrites and drops references.  A step that
\* changes none of them is a stutter.
Mutate ==
  /\ objs' = objs
  /\ <<edge, roots>>' # <<edge, roots>>
  /\ edge' \in [Node -> SUBSET Node]
  /\ Reached' \subseteq Reached

\* A new object, at an address where there was none.
Allocate(n) ==
  /\ n \notin objs
  /\ objs' = objs \cup {n}
  /\ edge' \in [Node -> SUBSET Node]
  /\ Reached' \subseteq Reached \cup {n}

\* An object the program cannot reach disappears.
Reclaim(n) ==
  /\ n \in objs \ Reached
  /\ objs' = objs \ {n}
  /\ UNCHANGED <<edge, roots>>

Collect == \E n \in Node : Reclaim(n)

Next == Mutate \/ Collect \/ \E n \in Node : Allocate(n)

Spec == Init /\ [][Next]_vars

\* The part of the heap's behaviour a collector may have by itself.
CollectorSpec == Init /\ [][Collect]_vars

=============================================================================
