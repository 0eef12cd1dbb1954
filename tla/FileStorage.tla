----------------------------- MODULE FileStorage -----------------------------
(***************************************************************************)
(* TFileStorage (storage.cpp, storage.h): the output files recorded for    *)
(* the report.  Of an unbounded number of them it keeps the Capacity       *)
(* largest, in a priority queue whose top is the smallest, and the total   *)
(* of all.                                                                 *)
(***************************************************************************)
EXTENDS Integers, FiniteSets, Sequences, FiniteSetsExt

CONSTANTS
  File,         \* the TOutputFile objects there may be: [id, Size]
  Capacities    \* the capacities a storage is made with

ASSUME FileStorageAssumption ==
  /\ IsFiniteSet(File)
  /\ \A f \in File : f.Size \in Nat
  /\ Capacities \subseteq Int

VARIABLES
  Capacity,         \* how many files to keep: negative for all, 0 for none
  StoreEmptyFiles,
  Queue,            \* the files kept
  OutputSize,       \* the total of the sizes of the files recorded
  offered,          \* history: the files AddFileEntry has been called with
  recorded          \* history: those it has not turned away

vars == <<Capacity, StoreEmptyFiles, Queue, OutputSize, offered, recorded>>

Init ==
  /\ Capacity \in Capacities
  /\ StoreEmptyFiles \in BOOLEAN
  /\ Queue = {} /\ OutputSize = 0
  /\ offered = {} /\ recorded = {}

\* Fault: the order of the heap is reversed.
TopsOfMaxHeap(queue) == {f \in queue : \A g \in queue : f.Size >= g.Size}

\* The files that can be at the top of the heap: any of the smallest.
Tops(queue) == {f \in queue : \A g \in queue : f.Size <= g.Size}

\* The first two early returns.
TurnedAway(f) == Capacity = 0 \/ (~StoreEmptyFiles /\ f.Size = 0)

Push(f) ==
  /\ Capacity < 0 \/ Cardinality(Queue) < Capacity
  /\ Queue' = Queue \cup {f}

\* Fault: the top is replaced without being compared.
PopAlways(f) ==
  /\ ~(Capacity < 0 \/ Cardinality(Queue) < Capacity)
  /\ \E top \in Tops(Queue) : Queue' = (Queue \ {top}) \cup {f}

PopAndPush(f) ==
  /\ ~(Capacity < 0 \/ Cardinality(Queue) < Capacity)
  /\ \E top \in Tops(Queue) :
       Queue' = IF top.Size < f.Size THEN (Queue \ {top}) \cup {f} ELSE Queue

\* Fault: a file that is turned away has been pushed already.
AddBeforeCheck(f) ==
  /\ f \notin offered
  /\ offered' = offered \cup {f}
  /\ Push(f) \/ PopAndPush(f)
  /\ IF TurnedAway(f)
     THEN UNCHANGED <<OutputSize, recorded>>
     ELSE OutputSize' = OutputSize + f.Size /\ recorded' = recorded \cup {f}
  /\ UNCHANGED <<Capacity, StoreEmptyFiles>>

\* Fault: only a file that is kept is added to the total.
AddIfKept(f) ==
  /\ f \notin offered
  /\ offered' = offered \cup {f}
  /\ IF TurnedAway(f)
     THEN UNCHANGED <<Queue, OutputSize, recorded>>
     ELSE /\ Push(f) \/ PopAndPush(f)
          /\ OutputSize' = IF f \in Queue' THEN OutputSize + f.Size ELSE OutputSize
          /\ recorded' = recorded \cup {f}
  /\ UNCHANGED <<Capacity, StoreEmptyFiles>>

\* Every call is made with an object of its own.
AddFileEntry(f) ==
  /\ f \notin offered
  /\ offered' = offered \cup {f}
  /\ IF TurnedAway(f)
     THEN UNCHANGED <<Queue, OutputSize, recorded>>
     ELSE /\ Push(f) \/ PopAndPush(f)
          /\ OutputSize' = OutputSize + f.Size
          /\ recorded' = recorded \cup {f}
  /\ UNCHANGED <<Capacity, StoreEmptyFiles>>

\* Every file there is has been recorded.
AllOffered == offered = File /\ UNCHANGED vars

Next == (\E f \in File : AddFileEntry(f)) \/ AllOffered

Spec == Init /\ [][Next]_vars

\* Fault: the vector is filled from its beginning.
SmallestFirst ==
  LET popped[queue \in SUBSET Queue] ==
        IF queue = {} THEN << >>
        ELSE LET top == CHOOSE f \in Tops(queue) : TRUE
             IN  <<top>> \o popped[queue \ {top}]
  IN  popped[Queue]

\* A copy of the queue is emptied into a vector from its end.
GetLargestFiles ==
  LET popped[queue \in SUBSET Queue] ==
        IF queue = {} THEN << >>
        ELSE LET top == CHOOSE f \in Tops(queue) : TRUE
             IN  Append(popped[queue \ {top}], top)
  IN  popped[Queue]

------------------------------------------------------------------------------
(* Properties *)

TypeOK ==
  /\ Capacity \in Int
  /\ StoreEmptyFiles \in BOOLEAN
  /\ Queue \subseteq recorded
  /\ recorded \subseteq offered
  /\ offered \subseteq File

\* No file that was dropped from the queue, whenever that was, is larger than
\* one that is kept, and no room is left unused: AddFileEntry compares a file
\* with one other only.
KeepsLargest ==
  /\ \A f \in Queue, g \in recorded \ Queue : g.Size <= f.Size
  /\ Capacity >= 0 => Cardinality(Queue) <= Capacity
  /\ Capacity < 0 \/ Cardinality(Queue) < Capacity => Queue = recorded

Total(files) == MapThenSumSet(LAMBDA f : f.Size, files)

\* OutputSize counts each file once, those that are no longer kept included.
TotalIsOfAll == OutputSize = Total(recorded)

\* The report lists the files kept, the largest first.
ReportIsSorted ==
  LET report == GetLargestFiles
  IN  /\ {report[i] : i \in 1 .. Len(report)} = Queue
      /\ Len(report) = Cardinality(Queue)
      /\ \A i \in 1 .. Len(report) - 1 : report[i].Size >= report[i + 1].Size

\* The storage implements what the report promises.
Promise == INSTANCE LargestFiles WITH limit <- Capacity, listed <- Queue
PromiseKept == Promise!Spec
==============================================================================
