--------------------------------- MODULE Ids ---------------------------------
(* The ids the kernel gives to threads and processes, and the value that    *)
(* stands for no entry wherever the program has none: a null pointer, a pid *)
(* that is not in a map, an exit status that is not known.                  *)
EXTENDS FiniteSets

CONSTANTS Pid, None

ASSUME IdsAssumption == IsFiniteSet(Pid) /\ None \notin Pid
==============================================================================
