---------------------------- MODULE Reachability ----------------------------
(***************************************************************************)
(* Reachability in a finite directed graph, given as a function edge from  *)
(* each node to the set of its successors.  Reach is the least set that    *)
(* contains the start nodes and is closed under edge; it is written as the *)
(* intersection of all such sets, so that no recursion is needed and the   *)
(* prover can use it.                                                      *)
(***************************************************************************)

\* C is closed under the edges of the graph.
Closed(edge, C) == \A x \in C : edge[x] \subseteq C

\* The nodes reachable from the nodes of S (members of S that are not nodes
\* are ignored).
Reach(edge, S) ==
  LET closures == { C \in SUBSET DOMAIN edge :
                      S \cap DOMAIN edge \subseteq C /\ Closed(edge, C) }
  IN  { n \in DOMAIN edge : \A C \in closures : n \in C }

=============================================================================
