---------------------------- MODULE LargestFiles -----------------------------
(***************************************************************************)
(* What the report promises, with no queue: of the files recorded so far   *)
(* it lists the largest, as many as were asked for.  FileStorage, which    *)
(* has forgotten the others, implements this.                              *)
(***************************************************************************)
EXTENDS Integers, FiniteSets

CONSTANT File      \* the output files there may be: [id, Size]

VARIABLES
  limit,           \* how many to list: negative for all, 0 for none
  recorded,        \* the files recorded so far
  listed           \* those the report would list

vars == <<limit, recorded, listed>>

\* best is a choice of the limit largest of the files.
Largest(best, files) ==
  /\ best \subseteq files
  /\ \A f \in best, g \in files \ best : g.Size <= f.Size
  /\ IF limit < 0 \/ Cardinality(files) <= limit
     THEN best = files ELSE Cardinality(best) = limit

Init == limit \in Int /\ recorded = {} /\ listed = {}

Record(f) ==
  /\ f \notin recorded
  /\ recorded' = recorded \cup {f}
  /\ listed' \in SUBSET recorded'
  /\ Largest(listed', recorded')
  /\ UNCHANGED limit

Next == \E f \in File : Record(f)

Spec == Init /\ [][Next]_vars
==============================================================================
