--------------------------- MODULE AccountingProofs ---------------------------
(***************************************************************************)
(* FdsAgree, TargetIsSpared and TypeOK for every number of processes,      *)
(* threads, descriptors and files, and whatever the programs do.  The      *)
(* lemmas go from the operations on a table, to the calls the kernel       *)
(* carries out, the threads there are, the types, what a handler does to a *)
(* table, what is kept of the agreement of tables and descriptors by each  *)
(* step, and last to what is counted.                                      *)
(***************************************************************************)
EXTENDS AccountingLife, ContextProofs, SumsProofs

------------------------------------------------------------------------------
(* Tables *)

\* A slot of an operation's result is one of the table's, or the new one.
LEMMA ClearedEntries ==
  ASSUME NEW table \in SUBSET Entry, NEW fd
  PROVE  /\ \A e \in Cleared(table, {fd}) : e.slots # {} /\ fd \notin e.slots
         /\ \A e \in Cleared(table, {fd}) :
              \E f \in table : e.slots = f.slots \ {fd} /\ e.file = f.file
         /\ Cleared(table, {fd}) \in SUBSET Entry
<1> SUFFICES ASSUME NEW e \in Cleared(table, {fd})
             PROVE  /\ e.slots # {} /\ fd \notin e.slots /\ e \in Entry
                    /\ \E f \in table : e.slots = f.slots \ {fd} /\ e.file = f.file
  OBVIOUS
<1>1. PICK f \in table : e = [f EXCEPT !.slots = @ \ {fd}] /\ ~(f.slots \subseteq {fd})
  BY DEF Cleared, LastRefs
<1>2. e.slots = f.slots \ {fd} /\ e.file = f.file /\ e \in Entry
  BY <1>1 DEF Entry
<1> QED  BY <1>1, <1>2

\* e is what clearing a slot leaves of f.
Trimmed(e, f, fd) == e.slots = f.slots \ {fd} /\ e.file = f.file

LEMMA ClearedFrom ==
  ASSUME NEW table \in SUBSET Entry, NEW fd, NEW e \in Cleared(table, {fd})
  PROVE  \E f \in table : Trimmed(e, f, fd)
<1>1. PICK f \in table : e = [f EXCEPT !.slots = @ \ {fd}]
  BY DEF Cleared, LastRefs
<1>2. e.slots = f.slots \ {fd} /\ e.file = f.file
  BY <1>1 DEF Entry
<1>3. Trimmed(e, f, fd)
  BY <1>2 DEF Trimmed
<1> QED  BY <1>3

LEMMA ClearedSlots ==
  ASSUME NEW table \in SUBSET Entry, NEW fd
  PROVE  OpenSlots(Cleared(table, {fd})) = OpenSlots(table) \ {fd}
<1>1. ASSUME NEW a \in OpenSlots(table), a # fd
      PROVE  a \in OpenSlots(Cleared(table, {fd}))
  <2>1. PICK f \in table : a \in f.slots
    BY DEF OpenSlots
  <2>2. [f EXCEPT !.slots = @ \ {fd}] \in Cleared(table, {fd})
    BY <1>1, <2>1 DEF Cleared, LastRefs
  <2>3. a \in [f EXCEPT !.slots = @ \ {fd}].slots
    BY <1>1, <2>1 DEF Entry
  <2> QED  BY <2>2, <2>3 DEF OpenSlots
<1>2. ASSUME NEW a \in OpenSlots(Cleared(table, {fd}))
      PROVE  a \in OpenSlots(table) /\ a # fd
  <2>1. PICK e \in Cleared(table, {fd}) : a \in e.slots
    BY <1>2 DEF OpenSlots
  <2>2. \A x \in Cleared(table, {fd}) : fd \notin x.slots
    BY ClearedEntries
  <2>3. PICK f \in table : Trimmed(e, f, fd)
    BY ClearedFrom
  <2>4. e.slots = f.slots \ {fd}
    BY <2>3 DEF Trimmed
  <2>5. a \in f.slots /\ a # fd
    BY <2>1, <2>4
  <2> QED  BY <2>5 DEF OpenSlots
<1> QED  BY <1>1, <1>2

LEMMA SharedSlots ==
  ASSUME NEW table \in SUBSET Entry, NEW fd \in OpenSlots(table), NEW newfd \in Fd
  PROVE  /\ OpenSlots(Shared(table, fd, newfd)) = OpenSlots(table) \cup {newfd}
         /\ \A e \in Shared(table, fd, newfd) :
              \E f \in table : /\ e.file = f.file /\ e \in Entry
                               /\ \/ fd \in f.slots /\ e.slots = f.slots \cup {newfd}
                                  \/ fd \notin f.slots /\ e = f
<1>1. ASSUME NEW f \in table
      PROVE  /\ [f EXCEPT !.slots = @ \cup {newfd}].slots = f.slots \cup {newfd}
             /\ [f EXCEPT !.slots = @ \cup {newfd}].file = f.file
             /\ [f EXCEPT !.slots = @ \cup {newfd}] \in Entry
  BY DEF Entry
<1>2. ASSUME NEW e \in Shared(table, fd, newfd)
      PROVE  \E f \in table : /\ e.file = f.file /\ e \in Entry
                              /\ \/ fd \in f.slots /\ e.slots = f.slots \cup {newfd}
                                 \/ fd \notin f.slots /\ e = f
  BY <1>1 DEF Shared
<1>3. ASSUME NEW a \in OpenSlots(table) \cup {newfd}
      PROVE  a \in OpenSlots(Shared(table, fd, newfd))
  <2>1. PICK f \in table : IF a = newfd THEN fd \in f.slots ELSE a \in f.slots
    BY <1>3 DEF OpenSlots
  <2>2. (IF fd \in f.slots THEN [f EXCEPT !.slots = @ \cup {newfd}] ELSE f)
          \in Shared(table, fd, newfd)
    BY DEF Shared
  <2>3. a \in (IF fd \in f.slots THEN [f EXCEPT !.slots = @ \cup {newfd}] ELSE f).slots
    BY <1>1, <2>1
  <2> QED  BY <2>2, <2>3 DEF OpenSlots
<1>4. OpenSlots(Shared(table, fd, newfd)) = OpenSlots(table) \cup {newfd}
  BY <1>2, <1>3 DEF OpenSlots
<1> QED  BY <1>2, <1>4

LEMMA UpdatedSlots ==
  ASSUME NEW table \in SUBSET Entry, NEW fd, NEW file \in TFileState
  PROVE  /\ OpenSlots(Updated(table, fd, file)) = OpenSlots(table)
         /\ \A e \in Updated(table, fd, file) :
              \E f \in table : /\ e.slots = f.slots /\ e \in Entry
                               /\ \/ fd \in f.slots /\ e.file = file
                                  \/ fd \notin f.slots /\ e = f
<1>1. ASSUME NEW f \in table
      PROVE  /\ [f EXCEPT !.file = file].slots = f.slots
             /\ [f EXCEPT !.file = file].file = file
             /\ [f EXCEPT !.file = file] \in Entry
  BY DEF Entry
<1>2. ASSUME NEW e \in Updated(table, fd, file)
      PROVE  \E f \in table : /\ e.slots = f.slots /\ e \in Entry
                              /\ \/ fd \in f.slots /\ e.file = file
                                 \/ fd \notin f.slots /\ e = f
  BY <1>1 DEF Updated
<1>3. ASSUME NEW f \in table
      PROVE  f.slots \subseteq OpenSlots(Updated(table, fd, file))
  <2>1. (IF fd \in f.slots THEN [f EXCEPT !.file = file] ELSE f) \in Updated(table, fd, file)
    BY DEF Updated
  <2> QED  BY <1>1, <2>1 DEF OpenSlots
<1>4. OpenSlots(Updated(table, fd, file)) = OpenSlots(table)
  BY <1>2, <1>3 DEF OpenSlots
<1> QED  BY <1>2, <1>4

\* Each slot points to one TFileState at most.
LEMMA FileAtIs ==
  ASSUME NEW table, Slotted(table), NEW e \in table, NEW fd \in e.slots
  PROVE  FileAt(table, fd) = e.file
<1> DEFINE f == CHOOSE x \in table : fd \in x.slots
<1>1. f \in table /\ fd \in f.slots
  OBVIOUS
<1>2. f.slots \cap e.slots # {}
  BY <1>1
<1>3. f = e
  BY <1>1, <1>2 DEF Slotted
<1> QED  BY <1>3 DEF FileAt

\* The operations on a table leave each slot at most one TFileState, and each
\* TFileState a slot.
LEMMA SlottedTables ==
  ASSUME NEW table \in SUBSET Entry, Slotted(table), NEW file, NEW fd, NEW newfd \in Fd
  PROVE  /\ Slotted(Cleared(table, {fd}))
         /\ Slotted(Opened(table, newfd, file))
         /\ Slotted(Updated(table, fd, file))
         /\ fd \in OpenSlots(table) /\ newfd \notin OpenSlots(table) =>
              Slotted(Shared(table, fd, newfd))
<1>1. ASSUME NEW a PROVE Slotted(Cleared(table, {a}))
  <2> DEFINE T == Cleared(table, {a})
  <2>1. \A e \in Cleared(table, {a}) : e.slots # {}
    BY ClearedEntries
  <2>2. SUFFICES ASSUME NEW e \in T, NEW f \in T, e.slots \cap f.slots # {}
                 PROVE  e = f
    BY <2>1 DEF Slotted
  <2>3. PICK x \in table : e = [x EXCEPT !.slots = @ \ {a}]
    BY DEF Cleared
  <2>4. PICK y \in table : f = [y EXCEPT !.slots = @ \ {a}]
    BY DEF Cleared
  <2>5. e.slots = x.slots \ {a} /\ f.slots = y.slots \ {a}
    BY <2>3, <2>4 DEF Entry
  <2>6. x = y
    BY <2>2, <2>5 DEF Slotted
  <2> QED  BY <2>3, <2>4, <2>6
<1>2. Slotted(Opened(table, newfd, file))
  <2>1. \A e \in Cleared(table, {newfd}) : newfd \notin e.slots
    BY ClearedEntries
  <2>2. \A e \in Opened(table, newfd, file) :
          e \in Cleared(table, {newfd}) \/ (e.slots = {newfd} /\ e = [slots |-> {newfd}, file |-> file])
    BY DEF Opened
  <2>3. Slotted(Cleared(table, {newfd}))
    BY <1>1
  <2>4. \A e \in Opened(table, newfd, file) : e.slots # {}
    BY <2>2, <2>3 DEF Slotted
  <2>5. ASSUME NEW e \in Opened(table, newfd, file), NEW f \in Opened(table, newfd, file),
               e.slots \cap f.slots # {}
        PROVE  e = f
    <3>1. CASE e \in Cleared(table, {newfd})
      <4>1. newfd \notin e.slots
        BY <2>1, <3>1
      <4>2. f \in Cleared(table, {newfd})
        BY <2>2, <2>5, <4>1
      <4> QED  BY <2>3, <2>5, <3>1, <4>2 DEF Slotted
    <3>2. CASE e.slots = {newfd} /\ e = [slots |-> {newfd}, file |-> file]
      <4>1. f \notin Cleared(table, {newfd})
        BY <2>1, <2>5, <3>2
      <4> QED  BY <2>2, <3>2, <4>1
    <3> QED  BY <2>2, <3>1, <3>2
  <2> QED  BY <2>4, <2>5 DEF Slotted
<1>3. Slotted(Updated(table, fd, file))
  <2> DEFINE T == Updated(table, fd, file)
  <2>1. ASSUME NEW e \in T
        PROVE  \E x \in table : e = (IF fd \in x.slots THEN [x EXCEPT !.file = file] ELSE x)
                                /\ e.slots = x.slots
    <3>1. PICK x \in table : e = IF fd \in x.slots THEN [x EXCEPT !.file = file] ELSE x
      BY DEF Updated
    <3>2. e.slots = x.slots
      BY <3>1 DEF Entry
    <3> QED  BY <3>1, <3>2
  <2> QED  BY <2>1 DEF Slotted
<1>4. ASSUME fd \in OpenSlots(table), newfd \notin OpenSlots(table)
      PROVE  Slotted(Shared(table, fd, newfd))
  <2> DEFINE T == Shared(table, fd, newfd)
  <2>1. ASSUME NEW e \in T
        PROVE  \E x \in table :
                 /\ e = (IF fd \in x.slots THEN [x EXCEPT !.slots = @ \cup {newfd}] ELSE x)
                 /\ e.slots = IF fd \in x.slots THEN x.slots \cup {newfd} ELSE x.slots
    <3>1. PICK x \in table : e = IF fd \in x.slots THEN [x EXCEPT !.slots = @ \cup {newfd}] ELSE x
      BY DEF Shared
    <3>2. e.slots = IF fd \in x.slots THEN x.slots \cup {newfd} ELSE x.slots
      BY <3>1 DEF Entry
    <3> QED  BY <3>1, <3>2
  <2>2. \A x \in table : newfd \notin x.slots
    BY <1>4 DEF OpenSlots
  <2>3. ASSUME NEW e \in T, NEW f \in T, e.slots \cap f.slots # {} PROVE e = f
    <3>1. PICK x \in table :
            /\ e = (IF fd \in x.slots THEN [x EXCEPT !.slots = @ \cup {newfd}] ELSE x)
            /\ e.slots = IF fd \in x.slots THEN x.slots \cup {newfd} ELSE x.slots
      BY <2>1
    <3>2. PICK y \in table :
            /\ f = (IF fd \in y.slots THEN [y EXCEPT !.slots = @ \cup {newfd}] ELSE y)
            /\ f.slots = IF fd \in y.slots THEN y.slots \cup {newfd} ELSE y.slots
      BY <2>1
    <3>3. x.slots \cap y.slots # {}
      <4>1. PICK a \in e.slots : a \in f.slots
        BY <2>3
      <4>2. CASE a = newfd
        BY <2>2, <3>1, <3>2, <4>1, <4>2
      <4>3. CASE a # newfd
        BY <3>1, <3>2, <4>1, <4>3
      <4> QED  BY <4>2, <4>3
    <3>4. x = y
      BY <3>3 DEF Slotted
    <3> QED  BY <3>1, <3>2, <3>4
  <2>4. \A e \in T : e.slots # {}
    <3>1. \A x \in table : x.slots # {}
      BY DEF Slotted
    <3> QED  BY <2>1, <3>1
  <2> QED  BY <2>3, <2>4 DEF Slotted
<1> QED  BY <1>1, <1>2, <1>3, <1>4

\* Copies share nothing.
LEMMA CopiedSlots ==
  ASSUME NEW table, NEW fds
  PROVE  /\ Slotted(Copied(table, fds))
         /\ OpenSlots(Copied(table, fds)) = fds
         /\ \A e \in Copied(table, fds) : \E fd \in fds :
              /\ e.slots = {fd}
              /\ e.file = CopyFileState(FileAt(table, fd), length[FileAt(table, fd).Filename])
<1> DEFINE copy(fd) == CopyFileState(FileAt(table, fd), length[FileAt(table, fd).Filename])
<1>1. Copied(table, fds) = {[slots |-> {fd}, file |-> copy(fd)] : fd \in fds}
  BY DEF Copied
<1> HIDE DEF copy
<1>2. Slotted(Copied(table, fds)) /\ OpenSlots(Copied(table, fds)) = fds
  <2>1. Slotted(Copied(table, fds))
    BY <1>1 DEF Slotted
  <2>2. ASSUME NEW fd \in fds PROVE fd \in OpenSlots(Copied(table, fds))
    <3> DEFINE e == [slots |-> {fd}, file |-> copy(fd)]
    <3>1. e \in Copied(table, fds) /\ fd \in e.slots
      BY <1>1
    <3> HIDE DEF e
    <3> QED  BY <3>1 DEF OpenSlots
  <2>3. ASSUME NEW fd \in OpenSlots(Copied(table, fds)) PROVE fd \in fds
    BY <1>1 DEF OpenSlots
  <2> QED  BY <2>1, <2>2, <2>3
<1>3. \A e \in Copied(table, fds) : \E fd \in fds : e.slots = {fd} /\ e.file = copy(fd)
  BY <1>1
<1> QED  BY <1>2, <1>3 DEF copy

------------------------------------------------------------------------------
(* Handled calls *)

\* close, of a descriptor the kernel has closed.
LEMMA FitsClosed ==
  ASSUME NEW table \in SUBSET Entry, NEW fds, NEW writable, NEW busy, NEW flags, NEW fd,
         Fits(table, fds, writable, busy, flags), fd \notin writable
  PROVE  Fits(Cleared(table, {fd}), fds, writable, busy \ {fd}, flags \ {fd})
<1> DEFINE T == Cleared(table, {fd})
<1>1. OpenSlots(T) = OpenSlots(table) \ {fd}
  BY ClearedSlots
<1>2. \A e \in T : fd \notin e.slots
  BY ClearedEntries
<1>3. \A e \in T : \E f \in table : Trimmed(e, f, fd)
  BY ClearedFrom
<1> HIDE DEF T
<1>4. \A a \in Fd \ (busy \ {fd}) : a \in OpenSlots(T) <=> a \in writable
  BY <1>1 DEF Fits
<1>5. ASSUME NEW e \in T, NEW a \in e.slots \ (busy \ {fd}), NEW b \in e.slots \ (busy \ {fd})
      PROVE  fds[a].ofd = fds[b].ofd
  <2>0. PICK f \in table : Trimmed(e, f, fd)
    BY <1>3
  <2>1. e.slots = f.slots \ {fd} /\ e.file = f.file
    BY <2>0 DEF Trimmed
  <2>2. a \in f.slots \ busy /\ b \in f.slots \ busy
    BY <1>2, <2>1
  <2> QED  BY <2>2 DEF Fits
<1>6. ASSUME NEW e \in T, NEW a \in e.slots \ (flags \ {fd})
      PROVE  IsCloexecSet(e.file) <=> fds[a].cloexec
  <2>0. PICK f \in table : Trimmed(e, f, fd)
    BY <1>3
  <2>1. e.slots = f.slots \ {fd} /\ e.file = f.file
    BY <2>0 DEF Trimmed
  <2>2. a \in f.slots \ flags
    BY <1>2, <2>1
  <2> QED  BY <2>1, <2>2 DEF Fits
<1> QED  BY <1>4, <1>5, <1>6 DEF Fits, T

\* What holds of the table where one slot has been cleared, but for that slot.
LEMMA FitsCleared ==
  ASSUME NEW table \in SUBSET Entry, NEW fds, NEW writable, NEW busy, NEW flags, NEW fd,
         Fits(table, fds, writable, busy, flags)
  PROVE  Fits(Cleared(table, {fd}), fds, writable \ {fd}, busy \ {fd}, flags \ {fd})
<1> Fits(table, fds, writable \ {fd}, busy \cup {fd}, flags \cup {fd})
  BY DEF Fits
<1>1. Fits(Cleared(table, {fd}), fds, writable \ {fd}, (busy \cup {fd}) \ {fd}, (flags \cup {fd}) \ {fd})
  BY FitsClosed
<1>2. (busy \cup {fd}) \ {fd} = busy \ {fd} /\ (flags \cup {fd}) \ {fd} = flags \ {fd}
  OBVIOUS
<1> QED  BY <1>1, <1>2

\* open and creat, of a file open for writing.
LEMMA FitsOpened ==
  ASSUME NEW table \in SUBSET Entry, NEW fds, NEW writable, NEW busy, NEW flags, NEW fd \in Fd,
         NEW file, Fits(table, fds, writable, busy, flags), fd \in writable,
         IsCloexecSet(file) <=> fds[fd].cloexec
  PROVE  Fits(Opened(table, fd, file), fds, writable, busy \ {fd}, flags \ {fd})
<1> DEFINE C == Cleared(table, {fd})
           new == [slots |-> {fd}, file |-> file]
<1>1. Fits(C, fds, writable \ {fd}, busy \ {fd}, flags \ {fd})
  BY FitsCleared
<1>2. Opened(table, fd, file) = C \cup {new}
  BY DEF Opened
<1>3. new.slots = {fd} /\ new.file = file
  OBVIOUS
<1> HIDE DEF C, new
<1>4. OpenSlots(C \cup {new}) = OpenSlots(C) \cup {fd}
  BY <1>3 DEF OpenSlots
<1>5. Fits(C \cup {new}, fds, writable, busy \ {fd}, flags \ {fd})
  BY <1>1, <1>3, <1>4 DEF Fits
<1> QED  BY <1>2, <1>5

\* A call that changes nothing but what is not followed.
LEMMA FitsUntouched ==
  ASSUME NEW table, NEW fds, NEW writable, NEW busy, NEW flags, NEW fd,
         Fits(table, fds, writable, busy, flags),
         fd \notin OpenSlots(table), fd \notin writable
  PROVE  Fits(table, fds, writable, busy \ {fd}, flags \ {fd})
<1>1. \A e \in table : fd \notin e.slots
  BY DEF OpenSlots
<1> QED  BY <1>1 DEF Fits

\* Descriptors of one description agree on close-on-exec.
Agreeing(fds) ==
  \A a, b \in Fd :
    fds[a].ofd # None /\ fds[a].ofd = fds[b].ofd => (fds[a].cloexec <=> fds[b].cloexec)

\* The dups share what the old descriptor has.
LEMMA FitsShared ==
  ASSUME NEW table \in SUBSET Entry, NEW fds, NEW writable, NEW busy, NEW flags,
         NEW old \in OpenSlots(table), NEW new \in Fd,
         Fits(table, fds, writable \ {new}, busy, flags), busy \subseteq flags,
         new \notin flags, new \notin OpenSlots(table),
         old \notin flags, new \in writable,
         fds[old].ofd = fds[new].ofd, fds[old].ofd # None, Agreeing(fds)
  PROVE  Fits(Shared(table, old, new), fds, writable, busy, flags)
<1> DEFINE T == Shared(table, old, new)
<1>1. old \in Fd /\ \A e \in table : e.slots \subseteq Fd /\ new \notin e.slots
  BY DEF OpenSlots, Entry
<1>2. OpenSlots(T) = OpenSlots(table) \cup {new}
  BY SharedSlots
<1>3. \A e \in T : \E f \in table :
        /\ e.file = f.file
        /\ (old \in f.slots /\ e.slots = f.slots \cup {new}) \/ e.slots = f.slots
  BY SharedSlots
<1> HIDE DEF T
<1>4. \A a \in Fd \ busy : a \in OpenSlots(T) <=> a \in writable
  BY <1>2 DEF Fits
<1>5. ASSUME NEW e \in T, NEW a \in e.slots \ busy, NEW b \in e.slots \ busy
      PROVE  fds[a].ofd = fds[b].ofd
  <2>1. PICK f \in table : /\ e.file = f.file
                           /\ (old \in f.slots /\ e.slots = f.slots \cup {new}) \/ e.slots = f.slots
    BY <1>3
  <2>2. \A x, y \in f.slots \ busy : fds[x].ofd = fds[y].ofd
    BY DEF Fits
  <2>3. CASE e.slots = f.slots
    BY <2>2, <2>3
  <2>4. CASE old \in f.slots /\ e.slots = f.slots \cup {new}
    <3>1. \A x \in e.slots \ busy : fds[x].ofd = fds[old].ofd
      BY <2>2, <2>4
    <3> QED  BY <3>1
  <2> QED  BY <2>1, <2>3, <2>4
<1>6. ASSUME NEW e \in T, NEW a \in e.slots \ flags
      PROVE  IsCloexecSet(e.file) <=> fds[a].cloexec
  <2>1. PICK f \in table : /\ e.file = f.file
                           /\ (old \in f.slots /\ e.slots = f.slots \cup {new}) \/ e.slots = f.slots
    BY <1>3
  <2>2. \A x \in f.slots \ flags : IsCloexecSet(f.file) <=> fds[x].cloexec
    BY DEF Fits
  <2>3. fds[old].cloexec <=> fds[new].cloexec
    BY <1>1 DEF Agreeing
  <2> QED  BY <2>1, <2>2, <2>3
<1> QED  BY <1>4, <1>5, <1>6 DEF Fits, T

\* The flags of a file have been changed: descriptors of it agree with them.
LEMMA FitsFlagged ==
  ASSUME NEW table \in SUBSET Entry, NEW fds, NEW writable, NEW busy, NEW flags,
         NEW fd \in OpenSlots(table), NEW file \in TFileState,
         Fits(table, fds, writable, busy, flags),
         fd \notin busy, fds[fd].ofd # None, busy \subseteq flags,
         IsCloexecSet(file) <=> fds[fd].cloexec, Agreeing(fds)
  PROVE  Fits(Updated(table, fd, file), fds, writable, busy, flags \ {fd})
<1> DEFINE T == Updated(table, fd, file)
<1>1. fd \in Fd /\ \A e \in table : e.slots \subseteq Fd
  BY DEF OpenSlots, Entry
<1>2. OpenSlots(T) = OpenSlots(table)
  BY UpdatedSlots
<1>3. \A e \in T : \E f \in table :
        e.slots = f.slots /\ ((fd \in f.slots /\ e.file = file) \/ (fd \notin f.slots /\ e = f))
  BY UpdatedSlots
<1> HIDE DEF T
<1>4. \A a \in Fd \ busy : a \in OpenSlots(T) <=> a \in writable
  BY <1>2 DEF Fits
<1>5. \A e \in T : \A a, b \in e.slots \ busy : fds[a].ofd = fds[b].ofd
  BY <1>3 DEF Fits
<1>6. ASSUME NEW e \in T, NEW a \in e.slots \ (flags \ {fd})
      PROVE  IsCloexecSet(e.file) <=> fds[a].cloexec
  <2>1. PICK f \in table : /\ e.slots = f.slots
                           /\ (fd \in f.slots /\ e.file = file) \/ (fd \notin f.slots /\ e = f)
    BY <1>3
  <2>2. CASE fd \notin f.slots /\ e = f
    BY <2>1, <2>2 DEF Fits
  <2>3. CASE fd \in f.slots /\ e.file = file
    <3>1. CASE a = fd
      BY <2>3, <3>1
    <3>2. CASE a # fd
      <4>1. fds[a].ofd = fds[fd].ofd /\ a \in Fd
        BY <1>1, <2>1, <2>3, <3>2 DEF Fits
      <4>2. fds[a].cloexec <=> fds[fd].cloexec
        BY <1>1, <4>1 DEF Agreeing
      <4> QED  BY <2>3, <4>2
    <3> QED  BY <3>1, <3>2
  <2> QED  BY <2>1, <2>2, <2>3
<1> QED  BY <1>4, <1>5, <1>6 DEF Fits, T

\* A file has changed but for its flags.
LEMMA FitsMoved ==
  ASSUME NEW table \in SUBSET Entry, NEW fds, NEW writable, NEW busy, NEW flags,
         NEW fd \in OpenSlots(table), NEW file \in TFileState,
         Fits(table, fds, writable, busy, flags), Slotted(table),
         file.Flags = FileAt(table, fd).Flags
  PROVE  Fits(Updated(table, fd, file), fds, writable, busy, flags)
<1> DEFINE T == Updated(table, fd, file)
<1>1. OpenSlots(T) = OpenSlots(table)
  BY UpdatedSlots
<1>2. \A e \in T : \E f \in table :
        e.slots = f.slots /\ ((fd \in f.slots /\ e.file = file) \/ (fd \notin f.slots /\ e = f))
  BY UpdatedSlots
<1> HIDE DEF T
<1>3. \A e \in T : \E f \in table : e.slots = f.slots /\ (IsCloexecSet(e.file) <=> IsCloexecSet(f.file))
  <2> SUFFICES ASSUME NEW e \in T
               PROVE  \E f \in table :
                        e.slots = f.slots /\ (IsCloexecSet(e.file) <=> IsCloexecSet(f.file))
    OBVIOUS
  <2>1. PICK f \in table : /\ e.slots = f.slots
                           /\ (fd \in f.slots /\ e.file = file) \/ (fd \notin f.slots /\ e = f)
    BY <1>2
  <2>2. fd \in f.slots => FileAt(table, fd) = f.file
    BY FileAtIs
  <2> QED  BY <2>1, <2>2 DEF IsCloexecSet
<1>4. \A a \in Fd \ busy : a \in OpenSlots(T) <=> a \in writable
  BY <1>1 DEF Fits
<1>5. \A e \in T : \A a, b \in e.slots \ busy : fds[a].ofd = fds[b].ofd
  BY <1>3 DEF Fits
<1>6. \A e \in T : \A a \in e.slots \ flags : IsCloexecSet(e.file) <=> fds[a].cloexec
  BY <1>3 DEF Fits
<1> QED  BY <1>4, <1>5, <1>6 DEF Fits, T

\* fork and execve: a copy for each slot that is kept.
LEMMA FitsCopied ==
  ASSUME NEW table, NEW fds, NEW writable, NEW kept \in SUBSET Fd,
         \A fd \in Fd : fd \in kept <=> fd \in writable,
         \A fd \in kept : /\ FileAt(table, fd) \in TFileState
                          /\ IsCloexecSet(FileAt(table, fd)) <=> fds[fd].cloexec
  PROVE  Fits(Copied(table, kept), fds, writable, {}, {})
<1> DEFINE copy(fd) == CopyFileState(FileAt(table, fd), length[FileAt(table, fd).Filename])
           T == Copied(table, kept)
<1>1. OpenSlots(T) = kept /\ \A e \in T : \E fd \in kept : e.slots = {fd} /\ e.file = copy(fd)
  BY CopiedSlots
<1>2. \A fd \in kept : IsCloexecSet(copy(fd)) <=> fds[fd].cloexec
  BY DEF CopyFileState, TFileState, IsCloexecSet
<1> HIDE DEF copy, T
<1>3. Fits(T, fds, writable, {}, {})
  BY <1>1, <1>2 DEF Fits
<1> QED  BY <1>3 DEF T

------------------------------------------------------------------------------
(* The kernel *)

\* The lowest descriptor is one of them.
LEMMA LowestIsIn ==
  ASSUME NEW S \in SUBSET Nat, S # {}
  PROVE  Min(S) \in S
<1> DEFINE R == OpToRel(<, Nat)
<1>1. \A x, y \in Nat : x < y => <<x, y>> \in R
  BY Zenon DEF OpToRel
<1>2. IsWellFoundedOn(R, Nat)
  BY NatLessThanWellFounded
<1> HIDE DEF R
<1>3. PICK x \in S : \A y \in S : ~ (<<y, x>> \in R)
  BY <1>2, WFMin
<1>4. ASSUME NEW y \in S PROVE x <= y
  <2>1. x \in Nat /\ y \in Nat /\ ~(<<y, x>> \in R)
    BY <1>3
  <2>2. ~(y < x)
    BY <1>1, <2>1, Zenon
  <2> QED  BY <2>1, <2>2
<1> QED  BY <1>4 DEF Min

LEMMA FreeTyped == Free \in Description /\ Closed \in [ofd : Ofd \cup {None}, cloexec : BOOLEAN]
BY AccountingAssumption DEF Free, Description, Closed, Size

Entries == [Pid -> [Fd -> [ofd : Ofd \cup {None}, cloexec : BOOLEAN]]]

\* A description that somebody refers to stays what it is.
LEMMA DescriptorsSet ==
  ASSUME NEW fds \in Entries, NEW descriptions \in [Ofd -> Description],
         SetDescriptors(fds, descriptions)
  PROVE  /\ kfds' = fds /\ ofds' \in [Ofd -> Description]
         /\ \A q \in Pid, fd \in Fd :
              fds[q][fd].ofd # None => ofds'[fds[q][fd].ofd] = descriptions[fds[q][fd].ofd]
         /\ \A o \in Ofd : ofds'[o] = descriptions[o] \/ ofds'[o] = Free
<1> DEFINE freed == {o \in Ofd : descriptions[o].name # None /\ ~Refers(fds, o)}
<1>1. kfds' = fds /\ ofds' = [o \in Ofd |-> IF o \in freed THEN Free ELSE descriptions[o]]
  BY DEF SetDescriptors
<1>2. ofds' \in [Ofd -> Description]
  BY <1>1, FreeTyped
<1>3. ASSUME NEW q \in Pid, NEW fd \in Fd, fds[q][fd].ofd # None
      PROVE  ofds'[fds[q][fd].ofd] = descriptions[fds[q][fd].ofd]
  <2>1. fds[q][fd].ofd \in Ofd
    BY <1>3 DEF Entries
  <2>2. fds[q][fd].ofd \notin freed
    BY <1>3 DEF Refers
  <2> QED  BY <1>1, <2>1, <2>2
<1> QED  BY <1>1, <1>2, <1>3

\* What a step does to the descriptions, as far as the tables have to do with
\* them: those referred to keep their file and what they are open for; a
\* file that is written to is open for writing with the process of p.
Kept(p) ==
  /\ \A q \in Pid, fd \in Fd :
       /\ kfds'[q][fd].ofd # None => ofds'[kfds'[q][fd].ofd].name # None
       /\ kfds'[q][fd].ofd = kfds[q][fd].ofd /\ kfds[q][fd].ofd # None =>
            /\ ofds'[kfds[q][fd].ofd].write = ofds[kfds[q][fd].ofd].write
            /\ ofds'[kfds[q][fd].ofd].followed = ofds[kfds[q][fd].ofd].followed
            /\ ofds'[kfds[q][fd].ofd].name = ofds[kfds[q][fd].ofd].name
  /\ \A o \in Ofd :
       \/ ofds'[o].peak = 0
       \/ ofds'[o].peak = ofds[o].peak /\ ofds'[o].name = ofds[o].name
       \/ /\ ofds'[o].name = ofds[o].name
          /\ \E fd \in Fd : kfds[group[p]][fd].ofd = o /\ ofds[o].write

\* What the kernel does at a call; Done is what of it the table can rely on.
Carried(p, r) ==
  LET old == kfds[group[p]]
      new == kfds'[group[p]]
  IN  /\ r.nr = "close" => new[r.fd].ofd = None
      /\ r.nr \in {"open", "creat"} =>
           /\ old[r.ret].ofd = None /\ new[r.ret].ofd # None
           /\ Follows(r) <=> ofds'[new[r.ret].ofd].write
           /\ Follows(r) <=> ofds'[new[r.ret].ofd].followed
           /\ new[r.ret].cloexec <=> "O_CLOEXEC" \in r.flags
      /\ r.nr \in NewFd \ {"open", "creat"} =>
           /\ new[r.fd].ofd # None /\ new[r.ret].ofd = new[r.fd].ofd
           /\ r.nr = "F_DUPFD_CLOEXEC" => new[r.ret].cloexec
           /\ r.nr = "dup3" => (new[r.ret].cloexec <=> "O_CLOEXEC" \in r.flags)
      /\ r.nr \in {"F_SETFD", "F_SETFL"} /\ "cloexec" \notin quirks' =>
           "O_CLOEXEC" \notin r.flags /\ ~new[r.fd].cloexec

\* A call is made, of which r are the registers.
Called(p, r) ==
  /\ stop[p] = Running /\ UNCHANGED <<contextVars, use, group, struck, unlinked>>
  /\ stop' = [stop EXCEPT ![p] = [Running EXCEPT !.event = "syscall", !.regs = r]]
  /\ quirks \subseteq quirks'
  /\ "race" \notin quirks' => ~Races(p, r)
  /\ RegsTyped(r) /\ KernelTyped'
  /\ \A q \in Pid : q # group[p] => kfds'[q] = kfds[q]
  /\ \A fd \in Fd \ Changes(r) : kfds'[group[p]][fd].ofd = kfds[group[p]][fd].ofd
  /\ \A fd \in Fd \ (Changes(r) \cup Flagged(r)) : kfds'[group[p]][fd] = kfds[group[p]][fd]
  /\ Kept(p)
  /\ Carried(p, r)
  /\ "cloexec" \notin quirks' /\ ~MixedCloexec(kfds) => ~MixedCloexec(kfds')

LEMMA StopAtDoes ==
  ASSUME NEW p, NEW r, NEW kinds, StopAt(p, r, kinds)
  PROVE  /\ stop' = [stop EXCEPT ![p] = [Running EXCEPT !.event = "syscall", !.regs = r]]
         /\ UNCHANGED <<use, group, struck>>
         /\ quirks \subseteq quirks' /\ kinds \subseteq quirks'
         /\ "race" \notin quirks' => ~Races(p, r)
BY DEF StopAt

\* One descriptor is made to refer to something else.
LEMMA FdSet ==
  ASSUME KernelTyped, HeldInv, NEW p \in Pid, group[p] \in Pid, NEW fd \in Fd,
         NEW entry \in [ofd : Ofd \cup {None}, cloexec : BOOLEAN],
         entry.ofd # None => ofds[entry.ofd].name # None,
         SetFd(p, fd, entry), UNCHANGED <<use, group, struck>>
  PROVE  /\ KernelTyped' /\ UNCHANGED unlinked /\ Kept(p)
         /\ kfds'[group[p]][fd] = entry
         /\ \A q \in Pid : q # group[p] => kfds'[q] = kfds[q]
         /\ \A a \in Fd : a # fd => kfds'[group[p]][a] = kfds[group[p]][a]
<1> DEFINE fds == [kfds EXCEPT ![group[p]][fd] = entry]
<1>1. fds \in Entries /\ ofds \in [Ofd -> Description]
  BY DEF KernelTyped, Entries
<1>2. SetDescriptors(fds, ofds) /\ UNCHANGED files
  BY DEF SetFd
<1>3. /\ kfds' = fds /\ ofds' \in [Ofd -> Description]
      /\ \A q \in Pid, a \in Fd : fds[q][a].ofd # None => ofds'[fds[q][a].ofd] = ofds[fds[q][a].ofd]
      /\ \A o \in Ofd : ofds'[o] = ofds[o] \/ ofds'[o] = Free
  BY <1>1, <1>2, DescriptorsSet
<1>4. /\ fds[group[p]][fd] = entry
      /\ \A q \in Pid : q # group[p] => fds[q] = kfds[q]
      /\ \A a \in Fd : a # fd => fds[group[p]][a] = kfds[group[p]][a]
  BY DEF KernelTyped
<1>5. KernelTyped'
  BY <1>1, <1>2, <1>3 DEF KernelTyped, Entries, files
<1> HIDE DEF fds
<1>6. \A q \in Pid, a \in Fd : fds[q][a].ofd # None => ofds[fds[q][a].ofd].name # None
  BY <1>4 DEF HeldInv
<1>7. \A o \in Ofd :
        ofds'[o].peak = 0 \/ (ofds'[o].peak = ofds[o].peak /\ ofds'[o].name = ofds[o].name)
  BY <1>3 DEF Free
<1>8. Kept(p)
  BY <1>3, <1>6, <1>7 DEF Kept
<1> QED  BY <1>2, <1>3, <1>4, <1>5, <1>8 DEF files

\* A description goes on: its name and what it is open for stay.
LEMMA OfdMoved ==
  ASSUME KernelTyped, HeldInv, NEW p \in Pid, group[p] \in Pid, NEW fd \in Fd, IsOpen(p, fd),
         NEW o \in Description, ofds' = [ofds EXCEPT ![Descriptors(p)[fd].ofd] = o],
         o.name = At(p, fd).name, o.write = At(p, fd).write, o.followed = At(p, fd).followed,
         o.peak = At(p, fd).peak \/ o.write,
         UNCHANGED <<use, group, struck, unlinked, kfds>>,
         length' \in [Name -> 0 .. MaxLength], size' \in [Name -> 0 .. MaxLength]
  PROVE  KernelTyped' /\ Kept(p)
<1> DEFINE d == kfds[group[p]][fd].ofd
<1>1. d \in Ofd /\ d # None /\ ofds[d] \in Description
  BY DEF KernelTyped, IsOpen, Descriptors
<1>2. ofds' = [ofds EXCEPT ![d] = o] /\ o.name = ofds[d].name /\ o.write = ofds[d].write
      /\ o.followed = ofds[d].followed /\ (o.peak = ofds[d].peak \/ o.write)
  BY DEF Descriptors, At
<1>3. KernelTyped'
  BY <1>1, <1>2 DEF KernelTyped
<1>4. \A x \in Ofd : /\ ofds'[x].name = ofds[x].name /\ ofds'[x].write = ofds[x].write
                    /\ ofds'[x].followed = ofds[x].followed
  BY <1>1, <1>2 DEF KernelTyped
<1>5. \A x \in Ofd : ofds'[x].peak = ofds[x].peak \/ (x = d /\ ofds[x].write)
  BY <1>1, <1>2 DEF KernelTyped
<1>6. \A q \in Pid, a \in Fd : kfds[q][a].ofd # None => kfds[q][a].ofd \in Ofd
  BY DEF KernelTyped
<1>7. \A q \in Pid, a \in Fd : kfds[q][a].ofd # None => ofds[kfds[q][a].ofd].name # None
  BY DEF HeldInv
<1> QED  BY <1>3, <1>4, <1>5, <1>6, <1>7 DEF Kept

\* The length of a file.
LEMMA LengthSet ==
  ASSUME KernelTyped, NEW name \in Name, NEW n \in 0 .. MaxLength, SetLength(name, n)
  PROVE  /\ length' \in [Name -> 0 .. MaxLength] /\ size' \in [Name -> 0 .. MaxLength]
         /\ UNCHANGED unlinked
BY AccountingAssumption DEF SetLength, KernelTyped, Size

LEMMA OpenAt ==
  ASSUME KernelTyped, HeldInv, NEW p \in Pid, group[p] \in Pid, NEW fd \in Fd, IsOpen(p, fd)
  PROVE  /\ At(p, fd) \in Description /\ At(p, fd).name \in Name
         /\ Descriptors(p)[fd].ofd \in Ofd
         /\ size[At(p, fd).name] \in 0 .. MaxLength
         /\ Landing(At(p, fd)) \in 0 .. MaxLength
<1>1. /\ Descriptors(p)[fd].ofd \in Ofd /\ At(p, fd) = ofds[Descriptors(p)[fd].ofd]
      /\ At(p, fd).name # None
  BY DEF KernelTyped, HeldInv, IsOpen, Descriptors, At
<1>2. At(p, fd) \in Description
  BY <1>1 DEF KernelTyped
<1>3. At(p, fd).name \in Name /\ At(p, fd).pos \in 0 .. MaxLength
  BY <1>1, <1>2 DEF Description
<1>4. size[At(p, fd).name] \in 0 .. MaxLength
  BY <1>3 DEF KernelTyped
<1> QED  BY <1>1, <1>2, <1>3, <1>4 DEF Landing

------------------------------------------------------------------------------
(* Calls *)

\* A thread that runs belongs to a process.
Runs(p) ==
  /\ KernelTyped /\ HeldInv /\ p \in Pid /\ stop[p] = Running /\ group[p] \in Pid
  /\ UNCHANGED contextVars

LEMMA FdsAreNumbers == Fd \subseteq Nat /\ Ofd \subseteq Nat /\ Fd \subseteq Int
<1>1. Fd \subseteq Nat /\ Ofd \subseteq Nat
  BY AccountingAssumption, Zenon
<1> QED  BY <1>1

LEMMA LengthsAreSizes == 0 .. MaxLength \subseteq Size /\ MaxLength \in Nat
BY AccountingAssumption, SizeModulusAssumption DEF Size

\* A call that changes a description and no descriptor.
Made(p, fd, o) ==
  /\ o \in Description /\ ofds' = [ofds EXCEPT ![Descriptors(p)[fd].ofd] = o]
  /\ o.name = At(p, fd).name /\ o.write = At(p, fd).write /\ o.followed = At(p, fd).followed
  /\ o.peak = At(p, fd).peak \/ o.write
  /\ UNCHANGED <<unlinked, kfds>>
  /\ length' \in [Name -> 0 .. MaxLength] /\ size' \in [Name -> 0 .. MaxLength]

LEMMA MoveIsCalled ==
  ASSUME NEW p, Runs(p), NEW fd \in Fd, IsOpen(p, fd), NEW o, Made(p, fd, o),
         NEW r, NEW kinds, StopAt(p, r, kinds), RegsTyped(r),
         r.nr \in {"write", "pwrite64", "ftruncate", "fallocate", "lseek", "F_SETFL"},
         r.nr = "F_SETFL" /\ "cloexec" \notin kinds =>
           "O_CLOEXEC" \notin r.flags /\ ~kfds[group[p]][r.fd].cloexec
  PROVE  Called(p, r)
<1>1. /\ stop' = [stop EXCEPT ![p] = [Running EXCEPT !.event = "syscall", !.regs = r]]
      /\ UNCHANGED <<use, group, struck>>
      /\ quirks \subseteq quirks' /\ kinds \subseteq quirks'
      /\ "race" \notin quirks' => ~Races(p, r)
  BY StopAtDoes
<1>2. KernelTyped' /\ Kept(p)
  BY <1>1, OfdMoved DEF Runs, Made
<1>3. UNCHANGED <<unlinked, kfds>>
  BY DEF Made
<1>4. Carried(p, r)
  BY <1>1, <1>3 DEF Carried, NewFd
<1>5. ~MixedCloexec(kfds) => ~MixedCloexec(kfds')
  BY <1>3
<1> QED  BY <1>1, <1>2, <1>3, <1>4, <1>5 DEF Called, Runs

\* write.
LEMMA WroteIsMove ==
  ASSUME NEW p, Runs(p), NEW fd \in Fd, Writable(p, fd), NEW end \in 0 .. MaxLength,
         NEW pos \in 0 .. MaxLength, Wrote(p, fd, end, pos)
  PROVE  \E o : Made(p, fd, o)
<1> DEFINE d == Descriptors(p)[fd].ofd
           o == [ofds[d] EXCEPT !.pos = pos, !.peak = Longer(ofds[d].peak, end)]
<1>1. /\ At(p, fd) \in Description /\ At(p, fd).name \in Name /\ d \in Ofd
      /\ size[At(p, fd).name] \in 0 .. MaxLength
  BY OpenAt DEF Runs, Writable
<1>2. ofds[d] = At(p, fd)
  BY DEF At
<1>3. o \in Description /\ o.name = ofds[d].name /\ o.write = ofds[d].write
      /\ o.followed = ofds[d].followed
  BY <1>1, <1>2 DEF Description, Longer
<1>4. ofds' = [ofds EXCEPT ![d] = o]
  <2>1. ofds' = [ofds EXCEPT ![d].pos = pos, ![d].peak = Longer(@, end)]
    BY DEF Wrote
  <2> QED  BY <1>1, <1>2, <2>1 DEF Runs, KernelTyped, Description
<1>5. Longer(size[At(p, fd).name], end) \in 0 .. MaxLength
  BY <1>1 DEF Longer
<1>6. /\ length' \in [Name -> 0 .. MaxLength] /\ size' \in [Name -> 0 .. MaxLength]
      /\ UNCHANGED unlinked
  BY <1>1, <1>5, LengthSet DEF Wrote, Runs
<1>7. o.write
  BY <1>2, <1>3 DEF Writable
<1>8. UNCHANGED kfds
  BY DEF Wrote
<1> HIDE DEF o
<1>9. Made(p, fd, o)
  BY <1>2, <1>3, <1>4, <1>6, <1>7, <1>8 DEF Made
<1> QED  BY <1>9

LEMMA WriteIsCalled ==
  ASSUME NEW p, Runs(p), NEW fd \in Fd, Write(p, fd)
  PROVE  \E r : Called(p, r)
<1> DEFINE r == [nr |-> "write", ret |-> 1, fd |-> fd]
           from == Landing(At(p, fd))
<1>1. /\ Writable(p, fd) /\ Wrote(p, fd, from + 1, from + 1) /\ StopAt(p, r, {})
      /\ IsOpen(p, fd)
  BY DEF Write, Writable
<1>2. from + 1 \in 0 .. MaxLength /\ 1 \in Size
  BY <1>1, OpenAt, LengthsAreSizes DEF Wrote, Runs, Size
<1>3. RegsTyped(r)
  BY <1>2 DEF RegsTyped, WellTyped, Syscall, NewFd
<1>4. r.nr = "write"
  OBVIOUS
<1> HIDE DEF r, from
<1>5. PICK o : Made(p, fd, o)
  BY <1>1, <1>2, WroteIsMove
<1>6. Called(p, r)
  BY <1>1, <1>3, <1>4, <1>5, MoveIsCalled
<1> QED  BY <1>6

\* pwrite64 and its kin, at an offset and (with -1) where the file stands.
LEMMA PwriteIsCalled ==
  ASSUME NEW p, Runs(p), NEW fd \in Fd, NEW offset \in 0 .. MaxLength,
         Pwrite(p, fd, offset) \/ PwriteHere(p, fd)
  PROVE  \E r : Called(p, r)
<1> DEFINE regs(arg) == [nr |-> "pwrite64", ret |-> 1, fd |-> fd, arg |-> arg]
<1>1. Writable(p, fd) /\ IsOpen(p, fd)
  BY DEF Pwrite, PwriteHere, Writable
<1>2. /\ At(p, fd) \in Description /\ size[At(p, fd).name] \in 0 .. MaxLength
      /\ Landing(At(p, fd)) \in 0 .. MaxLength /\ At(p, fd).pos \in 0 .. MaxLength
  BY <1>1, OpenAt DEF Runs, Description
<1>3. PICK arg \in Size, end \in 0 .. MaxLength, pos \in 0 .. MaxLength :
        Wrote(p, fd, end, pos) /\ (\E kinds : StopAt(p, regs(arg), kinds)) /\ 1 \in Size
  <2>1. CASE Pwrite(p, fd, offset)
    <3> DEFINE from == IF At(p, fd).append THEN size[At(p, fd).name] ELSE offset
    <3>1. /\ Wrote(p, fd, from + 1, At(p, fd).pos)
          /\ StopAt(p, regs(offset),
                    Kind("append", At(p, fd).append) \cup Kind("jump", At(p, fd).split))
      BY <2>1 DEF Pwrite
    <3>2. from + 1 \in 0 .. MaxLength /\ 1 \in Size
      BY <1>2, <3>1, LengthsAreSizes DEF Wrote, Size
    <3>3. offset \in Size
      BY LengthsAreSizes
    <3> HIDE DEF from, regs
    <3> QED  BY <1>2, <3>1, <3>2, <3>3
  <2>2. CASE PwriteHere(p, fd)
    <3> DEFINE from == Landing(At(p, fd))
    <3>1. /\ Wrote(p, fd, from + 1, from + 1)
          /\ StopAt(p, regs(SizeModulus - 1), {"current"})
      BY <2>2 DEF PwriteHere
    <3>2. from + 1 \in 0 .. MaxLength /\ 1 \in Size
      BY <1>2, <3>1, LengthsAreSizes DEF Wrote, Size
    <3>3. SizeModulus - 1 \in Size
      BY SizeModulusAssumption DEF Size
    <3> HIDE DEF from, regs
    <3> QED  BY <3>1, <3>2, <3>3
  <2> QED  BY <2>1, <2>2
<1> DEFINE r == regs(arg)
<1>4. RegsTyped(r)
  BY <1>3 DEF RegsTyped, WellTyped, Syscall, NewFd
<1>5. r.nr = "pwrite64"
  OBVIOUS
<1>6. PICK kinds : StopAt(p, r, kinds)
  BY <1>3
<1> HIDE DEF r
<1>7. PICK o : Made(p, fd, o)
  BY <1>1, <1>3, WroteIsMove
<1>8. Called(p, r)
  BY <1>1, <1>4, <1>5, <1>6, <1>7, MoveIsCalled
<1> QED  BY <1>8

\* ftruncate and fallocate.
LEMMA ResizeIsCalled ==
  ASSUME NEW p, Runs(p), NEW nr \in {"ftruncate", "fallocate"}, NEW fd \in Fd,
         NEW to \in 0 .. MaxLength, NEW keep \in BOOLEAN, Resize(p, nr, fd, to, keep)
  PROVE  \E r : Called(p, r)
<1> DEFINE d == Descriptors(p)[fd].ofd
           old == size[At(p, fd).name]
           new == IF nr = "ftruncate" THEN to ELSE IF keep THEN old ELSE Longer(to, old)
           kinds == Kind("shrink", new < old) \cup Kind("keep", keep) \cup
                    Kind("append", At(p, fd).append /\ new # old) \cup
                    Kind("jump", At(p, fd).split)
           r == [nr |-> nr, ret |-> 0, fd |-> fd, arg |-> to]
           o == [ofds[d] EXCEPT !.peak = IF keep THEN ofds[d].peak ELSE Longer(ofds[d].peak, to)]
<1>1. /\ Writable(p, fd) /\ IsOpen(p, fd)
      /\ SetLength(At(p, fd).name, new) /\ UNCHANGED kfds
      /\ ofds' = [ofds EXCEPT ![d].peak = IF keep THEN @ ELSE Longer(@, to)]
      /\ StopAt(p, r, kinds)
  BY DEF Resize, Writable
<1>2. /\ At(p, fd) \in Description /\ At(p, fd).name \in Name /\ d \in Ofd
      /\ old \in 0 .. MaxLength /\ ofds[d] = At(p, fd)
  BY <1>1, OpenAt DEF Runs, At
<1>3. new \in 0 .. MaxLength
  BY <1>2 DEF Longer
<1>4. o \in Description /\ o.name = ofds[d].name /\ o.write = ofds[d].write
      /\ o.followed = ofds[d].followed
  BY <1>2 DEF Description, Longer
<1>5. ofds' = [ofds EXCEPT ![d] = o]
  BY <1>1, <1>2 DEF Runs, KernelTyped, Description
<1>6. RegsTyped(r)
  BY LengthsAreSizes DEF RegsTyped, WellTyped, Syscall, NewFd
<1>7. r.nr \in {"ftruncate", "fallocate"}
  OBVIOUS
<1> HIDE DEF r, kinds, new, o
<1>8. /\ length' \in [Name -> 0 .. MaxLength] /\ size' \in [Name -> 0 .. MaxLength]
      /\ UNCHANGED unlinked
  BY <1>1, <1>2, <1>3, LengthSet DEF Runs
<1>9. o.write
  BY <1>1, <1>2, <1>4 DEF Writable
<1>10. /\ o \in Description /\ o.name = At(p, fd).name /\ o.write = At(p, fd).write
       /\ o.followed = At(p, fd).followed /\ (o.peak = At(p, fd).peak \/ o.write)
  BY <1>2, <1>4, <1>9
<1>11. /\ r.nr \in {"write", "pwrite64", "ftruncate", "fallocate", "lseek", "F_SETFL"}
       /\ r.nr # "F_SETFL"
  BY <1>7
<1>12. Made(p, fd, o)
  BY <1>1, <1>5, <1>8, <1>10 DEF Made
<1>13. Called(p, r)
  BY <1>1, <1>6, <1>11, <1>12, MoveIsCalled
<1> QED  BY <1>13

\* lseek.
LEMMA SeekIsCalled ==
  ASSUME NEW p, Runs(p), NEW fd \in Fd, NEW pos \in 0 .. MaxLength, Seek(p, fd, pos)
  PROVE  \E r : Called(p, r)
<1> DEFINE d == Descriptors(p)[fd].ofd
           kinds == Kind("append", At(p, fd).append) \cup Kind("far", ~IntNonNegative(pos)) \cup
                    Kind("jump", At(p, fd).split)
           r == [nr |-> "lseek", ret |-> pos, fd |-> fd]
           o == [ofds[d] EXCEPT !.pos = pos]
<1>1. /\ IsOpen(p, fd) /\ UNCHANGED <<files, kfds>>
      /\ ofds' = [ofds EXCEPT ![d].pos = pos]
      /\ StopAt(p, r, kinds)
  BY DEF Seek
<1>2. At(p, fd) \in Description /\ d \in Ofd /\ ofds[d] = At(p, fd)
  BY <1>1, OpenAt DEF Runs, At
<1>3. /\ o \in Description /\ o.name = ofds[d].name /\ o.write = ofds[d].write
      /\ o.followed = ofds[d].followed /\ o.peak = ofds[d].peak
  BY <1>2 DEF Description
<1>4. ofds' = [ofds EXCEPT ![d] = o]
  BY <1>1, <1>2 DEF Runs, KernelTyped
<1>5. RegsTyped(r)
  BY LengthsAreSizes DEF RegsTyped, WellTyped, Syscall, NewFd
<1>6. r.nr = "lseek"
  OBVIOUS
<1> HIDE DEF r, kinds, o
<1>7. /\ length' \in [Name -> 0 .. MaxLength] /\ size' \in [Name -> 0 .. MaxLength]
      /\ UNCHANGED unlinked
  BY <1>1 DEF Runs, KernelTyped, files
<1>8. Made(p, fd, o)
  BY <1>1, <1>2, <1>3, <1>4, <1>7 DEF Made
<1>9. Called(p, r)
  BY <1>1, <1>5, <1>6, <1>8, MoveIsCalled
<1> QED  BY <1>9

\* fcntl F_SETFL.
LEMMA SetStatusFlagsIsCalled ==
  ASSUME NEW p, Runs(p), NEW fd \in Fd, NEW append \in BOOLEAN, SetStatusFlags(p, fd, append)
  PROVE  \E r : Called(p, r)
<1> DEFINE d == Descriptors(p)[fd].ofd
           kinds == Kind("cloexec", Descriptors(p)[fd].cloexec) \cup
                    Kind("append", At(p, fd).append # append)
           r == [nr |-> "F_SETFL", ret |-> 0, fd |-> fd,
                 flags |-> IF append THEN {"O_APPEND"} ELSE {}]
           o == [ofds[d] EXCEPT !.append = append]
<1>1. /\ IsOpen(p, fd) /\ UNCHANGED <<files, kfds>>
      /\ ofds' = [ofds EXCEPT ![d].append = append]
      /\ StopAt(p, r, kinds)
  BY DEF SetStatusFlags
<1>2. At(p, fd) \in Description /\ d \in Ofd /\ ofds[d] = At(p, fd)
  BY <1>1, OpenAt DEF Runs, At
<1>3. /\ o \in Description /\ o.name = ofds[d].name /\ o.write = ofds[d].write
      /\ o.followed = ofds[d].followed /\ o.peak = ofds[d].peak
  BY <1>2 DEF Description
<1>4. ofds' = [ofds EXCEPT ![d] = o]
  BY <1>1, <1>2 DEF Runs, KernelTyped
<1>5. RegsTyped(r)
  BY DEF RegsTyped, WellTyped, Syscall, NewFd, FlagBit
<1>6. r.nr = "F_SETFL" /\ r.fd = fd /\ "O_CLOEXEC" \notin r.flags
  OBVIOUS
<1>7. "cloexec" \notin kinds => ~kfds[group[p]][fd].cloexec
  BY DEF Kind, Descriptors
<1> HIDE DEF r, kinds, o
<1>8. /\ length' \in [Name -> 0 .. MaxLength] /\ size' \in [Name -> 0 .. MaxLength]
      /\ UNCHANGED unlinked
  BY <1>1 DEF Runs, KernelTyped, files
<1>9. /\ r.nr \in {"write", "pwrite64", "ftruncate", "fallocate", "lseek", "F_SETFL"}
      /\ r.nr = "F_SETFL" /\ "cloexec" \notin kinds =>
           "O_CLOEXEC" \notin r.flags /\ ~kfds[group[p]][r.fd].cloexec
  BY <1>6, <1>7
<1>10. Made(p, fd, o)
  BY <1>1, <1>2, <1>3, <1>4, <1>8 DEF Made
<1>11. Called(p, r)
  BY <1>1, <1>5, <1>9, <1>10, MoveIsCalled
<1> QED  BY <1>11

\* What a call on the descriptors needs besides FdSet.
Rewrote(p, r, fd) ==
  /\ fd \in Changes(r) \cup Flagged(r) \/ kfds'[group[p]][fd] = kfds[group[p]][fd]
  /\ fd \in Changes(r) \/ kfds'[group[p]][fd].ofd = kfds[group[p]][fd].ofd
  /\ KernelTyped' /\ UNCHANGED unlinked /\ Kept(p) /\ Carried(p, r)
  /\ \A q \in Pid : q # group[p] => kfds'[q] = kfds[q]
  /\ \A a \in Fd : a # fd => kfds'[group[p]][a] = kfds[group[p]][a]
  /\ "cloexec" \notin quirks' /\ ~MixedCloexec(kfds) => ~MixedCloexec(kfds')

LEMMA SlotIsCalled ==
  ASSUME NEW p, Runs(p), NEW r, NEW kinds, StopAt(p, r, kinds), RegsTyped(r),
         NEW fd \in Fd, Rewrote(p, r, fd)
  PROVE  Called(p, r)
BY StopAtDoes DEF Called, Runs, Rewrote

\* close.
LEMMA CloseIsCalled ==
  ASSUME NEW p, Runs(p), NEW fd \in Fd, Close(p, fd)
  PROVE  \E r : Called(p, r)
<1> DEFINE r == [nr |-> "close", ret |-> IF IsOpen(p, fd) THEN 0 ELSE 0 - 1, fd |-> fd]
<1>1. SetFd(p, fd, Closed) /\ StopAt(p, r, {})
  BY DEF Close
<1>2. UNCHANGED <<use, group, struck>>
  BY <1>1, StopAtDoes
<1>3. Closed \in [ofd : Ofd \cup {None}, cloexec : BOOLEAN] /\ Closed.ofd = None
  BY FreeTyped DEF Closed
<1>4. /\ KernelTyped' /\ UNCHANGED unlinked /\ Kept(p) /\ kfds'[group[p]][fd] = Closed
      /\ \A q \in Pid : q # group[p] => kfds'[q] = kfds[q]
      /\ \A a \in Fd : a # fd => kfds'[group[p]][a] = kfds[group[p]][a]
  BY <1>1, <1>2, <1>3, FdSet DEF Runs
<1>5. RegsTyped(r)
  BY DEF RegsTyped, WellTyped, Syscall, NewFd
<1>6. Carried(p, r) /\ fd \in Changes(r)
  BY <1>3, <1>4 DEF Carried, Changes, Dups, NewFd
<1>7. ~MixedCloexec(kfds) => ~MixedCloexec(kfds')
  <2> SUFFICES ASSUME ~MixedCloexec(kfds), NEW q \in Pid, NEW a \in Fd, NEW b \in Fd,
                      kfds'[q][a].ofd = kfds'[q][b].ofd, kfds'[q][a].ofd # None
               PROVE  kfds'[q][a].cloexec = kfds'[q][b].cloexec
    BY DEF MixedCloexec
  <2>1. kfds'[q][a] = kfds[q][a] /\ kfds'[q][b] = kfds[q][b]
    BY <1>3, <1>4
  <2> QED  BY <2>1 DEF MixedCloexec
<1> HIDE DEF r
<1>8. Rewrote(p, r, fd)
  BY <1>4, <1>5, <1>6, <1>7 DEF Rewrote
<1>9. Called(p, r)
  BY <1>1, <1>5, <1>8, SlotIsCalled
<1> QED  BY <1>9

\* dup and the two fcntl commands.
LEMMA DupIsCalled ==
  ASSUME NEW p, Runs(p), NEW nr \in {"dup", "F_DUPFD", "F_DUPFD_CLOEXEC"}, NEW fd \in Fd,
         Dup(p, nr, fd)
  PROVE  \E r : Called(p, r)
<1> DEFINE new == Min(FreeFds(p))
           r == [nr |-> nr, ret |-> new, fd |-> fd]
           entry == [ofd |-> Descriptors(p)[fd].ofd, cloexec |-> nr = "F_DUPFD_CLOEXEC"]
           kinds == Kind("cloexec", MixedCloexec(kfds'))
<1>1. /\ IsOpen(p, fd) /\ FreeFds(p) # {}
      /\ SetFd(p, new, entry) /\ StopAt(p, r, kinds)
  BY DEF Dup
<1>2. new \in FreeFds(p)
  <2>1. FreeFds(p) \in SUBSET Nat
    BY FdsAreNumbers DEF FreeFds
  <2> QED  BY <1>1, <2>1, LowestIsIn
<1>3. new \in Fd /\ new # fd
  BY <1>1, <1>2 DEF FreeFds
<1>4. UNCHANGED <<use, group, struck>> /\ kinds \subseteq quirks'
  BY <1>1, StopAtDoes
<1>5. /\ entry \in [ofd : Ofd \cup {None}, cloexec : BOOLEAN]
      /\ entry.ofd = kfds[group[p]][fd].ofd /\ entry.ofd # None
      /\ ofds[entry.ofd].name # None
      /\ entry.cloexec <=> nr = "F_DUPFD_CLOEXEC"
  <2>1. /\ Descriptors(p)[fd] \in [ofd : Ofd \cup {None}, cloexec : BOOLEAN]
        /\ Descriptors(p)[fd] = kfds[group[p]][fd] /\ group[p] \in Pid
    BY <1>1 DEF Runs, KernelTyped, Descriptors
  <2>2. Descriptors(p)[fd].ofd # None
    BY <1>1 DEF IsOpen
  <2>3. ofds[kfds[group[p]][fd].ofd].name # None
    BY <2>1, <2>2 DEF Runs, HeldInv
  <2> QED  BY <2>1, <2>2, <2>3
<1> HIDE DEF new, entry
<1>6. /\ KernelTyped' /\ UNCHANGED unlinked /\ Kept(p) /\ kfds'[group[p]][new] = entry
      /\ \A q \in Pid : q # group[p] => kfds'[q] = kfds[q]
      /\ \A a \in Fd : a # new => kfds'[group[p]][a] = kfds[group[p]][a]
  BY <1>1, <1>3, <1>4, <1>5, FdSet DEF Runs
<1>7. RegsTyped(r)
  <2>1. new \in Nat /\ new \in Int
    BY <1>3, FdsAreNumbers
  <2> QED  BY <1>3, <2>1 DEF RegsTyped, WellTyped, Syscall, NewFd
<1>8. Carried(p, r) /\ new \in Changes(r)
  BY <1>3, <1>5, <1>6 DEF Carried, Changes, Dups, NewFd
<1>9. "cloexec" \notin quirks' => ~MixedCloexec(kfds')
  BY <1>4 DEF Kind
<1> HIDE DEF r, kinds
<1>10. Rewrote(p, r, new)
  BY <1>3, <1>6, <1>7, <1>8, <1>9 DEF Rewrote
<1>11. Called(p, r)
  BY <1>1, <1>3, <1>7, <1>10, SlotIsCalled
<1> QED  BY <1>11

\* dup2 and dup3.
LEMMA DupToIsCalled ==
  ASSUME NEW p, Runs(p), NEW nr \in {"dup2", "dup3"}, NEW fd \in Fd, NEW new \in Fd,
         NEW flags \in {{}, {"O_CLOEXEC"}}, DupTo(p, nr, fd, new, flags)
  PROVE  \E r : Called(p, r)
<1> DEFINE r == [nr |-> nr, ret |-> new, fd |-> fd, arg |-> new, flags |-> flags]
           entry == IF fd = new THEN Descriptors(p)[fd]
                    ELSE [ofd |-> Descriptors(p)[fd].ofd, cloexec |-> flags # {}]
           kinds == Kind("cloexec", MixedCloexec(kfds'))
<1>1. /\ IsOpen(p, fd) /\ (nr = "dup3" => fd # new) /\ (nr = "dup2" => flags = {})
      /\ SetFd(p, new, entry) /\ StopAt(p, r, kinds)
  BY DEF DupTo
<1>2. UNCHANGED <<use, group, struck>> /\ kinds \subseteq quirks'
  BY <1>1, StopAtDoes
<1>3. /\ entry \in [ofd : Ofd \cup {None}, cloexec : BOOLEAN]
      /\ entry.ofd = kfds[group[p]][fd].ofd /\ entry.ofd # None
      /\ ofds[entry.ofd].name # None
      /\ nr = "dup3" => (entry.cloexec <=> "O_CLOEXEC" \in flags)
      /\ fd = new => entry = kfds[group[p]][new]
  <2>1. /\ Descriptors(p)[fd] \in [ofd : Ofd \cup {None}, cloexec : BOOLEAN]
        /\ Descriptors(p)[fd] = kfds[group[p]][fd] /\ group[p] \in Pid
    BY <1>1 DEF Runs, KernelTyped, Descriptors
  <2>2. Descriptors(p)[fd].ofd # None
    BY <1>1 DEF IsOpen
  <2>3. ofds[kfds[group[p]][fd].ofd].name # None
    BY <2>1, <2>2 DEF Runs, HeldInv
  <2> QED  BY <1>1, <2>1, <2>2, <2>3
<1> HIDE DEF entry
<1>4. /\ KernelTyped' /\ UNCHANGED unlinked /\ Kept(p) /\ kfds'[group[p]][new] = entry
      /\ \A q \in Pid : q # group[p] => kfds'[q] = kfds[q]
      /\ \A a \in Fd : a # new => kfds'[group[p]][a] = kfds[group[p]][a]
  BY <1>1, <1>2, <1>3, FdSet DEF Runs
<1>5. RegsTyped(r)
  <2>1. new \in Nat /\ new \in Int
    BY FdsAreNumbers
  <2> QED  BY <1>1, <2>1 DEF RegsTyped, WellTyped, Syscall, NewFd
<1>6. Carried(p, r) /\ (new \in Changes(r) \/ fd = new)
  BY <1>3, <1>4 DEF Carried, Changes, Dups, NewFd
<1>7. "cloexec" \notin quirks' => ~MixedCloexec(kfds')
  BY <1>2 DEF Kind
<1>8. new \in Changes(r) \/ kfds'[group[p]][new] = kfds[group[p]][new]
  BY <1>3, <1>4, <1>6
<1> HIDE DEF r, kinds
<1>9. Rewrote(p, r, new)
  BY <1>4, <1>5, <1>6, <1>7, <1>8 DEF Rewrote
<1>10. Called(p, r)
  BY <1>1, <1>5, <1>9, SlotIsCalled
<1> QED  BY <1>10

\* fcntl F_SETFD.
LEMMA SetFdFlagIsCalled ==
  ASSUME NEW p, Runs(p), NEW fd \in Fd, NEW on \in BOOLEAN, SetFdFlag(p, fd, on)
  PROVE  \E r : Called(p, r)
<1> DEFINE r == [nr |-> "F_SETFD", ret |-> 0, fd |-> fd, flags |-> IF on THEN {FD_CLOEXEC} ELSE {}]
           entry == [Descriptors(p)[fd] EXCEPT !.cloexec = on]
           kinds == Kind("cloexec", on \/ MixedCloexec(kfds'))
<1>1. IsOpen(p, fd) /\ SetFd(p, fd, entry) /\ StopAt(p, r, kinds)
  BY DEF SetFdFlag
<1>2. UNCHANGED <<use, group, struck>> /\ kinds \subseteq quirks'
  BY <1>1, StopAtDoes
<1>3. /\ entry \in [ofd : Ofd \cup {None}, cloexec : BOOLEAN]
      /\ entry.ofd = kfds[group[p]][fd].ofd /\ ofds[entry.ofd].name # None
      /\ entry.cloexec = on
  <2>1. /\ Descriptors(p)[fd] \in [ofd : Ofd \cup {None}, cloexec : BOOLEAN]
        /\ Descriptors(p)[fd] = kfds[group[p]][fd] /\ group[p] \in Pid
    BY <1>1 DEF Runs, KernelTyped, Descriptors
  <2>2. ofds[kfds[group[p]][fd].ofd].name # None
    <3>1. Descriptors(p)[fd].ofd # None
      BY <1>1 DEF IsOpen
    <3> QED  BY <2>1, <3>1 DEF Runs, HeldInv
  <2> QED  BY <2>1, <2>2
<1> HIDE DEF entry
<1>4. /\ KernelTyped' /\ UNCHANGED unlinked /\ Kept(p) /\ kfds'[group[p]][fd] = entry
      /\ \A q \in Pid : q # group[p] => kfds'[q] = kfds[q]
      /\ \A a \in Fd : a # fd => kfds'[group[p]][a] = kfds[group[p]][a]
  BY <1>1, <1>2, <1>3, FdSet DEF Runs
<1>5. RegsTyped(r)
  BY DEF RegsTyped, WellTyped, Syscall, NewFd, FlagBit, FD_CLOEXEC
<1>6. "cloexec" \notin quirks' => ~on /\ ~MixedCloexec(kfds')
  BY <1>2 DEF Kind
<1>7. Carried(p, r) /\ fd \in Flagged(r)
  BY <1>3, <1>4, <1>6 DEF Carried, Flagged, NewFd
<1> HIDE DEF r, kinds
<1>8. Rewrote(p, r, fd)
  BY <1>3, <1>4, <1>5, <1>6, <1>7 DEF Rewrote
<1>9. Called(p, r)
  BY <1>1, <1>5, <1>8, SlotIsCalled
<1> QED  BY <1>9

\* open and creat.
LEMMA OpenIsCalled ==
  ASSUME NEW p, Runs(p), NEW nr \in {"open", "creat"}, NEW name \in Name,
         NEW opening \in use.flags, NEW trunc \in BOOLEAN, NEW mode \in {{}, {"O_APPEND"}},
         Open(p, nr, name, opening, trunc, mode)
  PROVE  \E r : Called(p, r)
<1> DEFINE fd == Min(FreeFds(p))
           spare == {d \in use.ofds : ofds[d].name = None}
           o == Min(spare)
           write == {"O_WRONLY", "O_RDWR"} \cap opening # {}
           start == IF trunc THEN 0 ELSE size[name]
           others == {d \in Ofd : ofds[d].name = name /\ ofds[d].write}
           r == [nr |-> nr, ret |-> fd, name |-> name, flags |-> IF nr = "creat" THEN mode ELSE opening]
           cloexec == "O_CLOEXEC" \in opening
           append == "O_APPEND" \in opening
           entry == [ofd |-> o, cloexec |-> cloexec]
           new == [Free EXCEPT !.name = name, !.write = write, !.append = append,
                               !.init = start, !.followed = write]
           fds == [kfds EXCEPT ![group[p]][fd] = entry]
           descriptions == [ofds EXCEPT ![o] = new]
           kinds == Kind("writers", write /\ others # {})
<1>1. /\ FreeFds(p) # {} /\ spare # {}
      /\ IF nr = "creat" THEN trunc /\ opening = {"O_WRONLY"} ELSE mode = {}
      /\ SetLength(name, start)
      /\ SetDescriptors(fds, descriptions)
      /\ StopAt(p, r, kinds)
  BY DEF Open
<1>2. fd \in FreeFds(p)
  <2>1. FreeFds(p) \in SUBSET Nat
    BY FdsAreNumbers DEF FreeFds
  <2> QED  BY <1>1, <2>1, LowestIsIn
<1>3. fd \in Fd /\ kfds[group[p]][fd].ofd = None
  BY <1>2 DEF FreeFds, IsOpen, Descriptors
<1>4. o \in Ofd /\ o # None /\ ofds[o].name = None /\ opening \subseteq FlagBit
  <2>1. use \in Uses
    BY DEF Runs, KernelTyped
  <2>2. use.ofds \subseteq Ofd /\ use.flags \subseteq SUBSET FlagBit /\ None \notin Ofd
    BY <2>1, AccountingAssumption, Zenon
  <2>3. spare \in SUBSET Nat
    BY <2>2, FdsAreNumbers
  <2>4. o \in spare
    BY <1>1, <2>3, LowestIsIn
  <2> QED  BY <2>2, <2>4
<1>5. start \in 0 .. MaxLength
  BY LengthsAreSizes DEF Runs, KernelTyped
<1>6. write \in BOOLEAN /\ append \in BOOLEAN /\ cloexec \in BOOLEAN
  OBVIOUS
<1> HIDE DEF write, append, cloexec
<1>7. /\ new \in Description /\ new.name = name /\ new.write = write /\ new.peak = 0
      /\ new.followed = write
      /\ name # None
  <2>1. None \notin Name
    BY AccountingAssumption, Zenon
  <2>2. 0 \in 0 .. MaxLength
    BY LengthsAreSizes
  <2> QED  BY <1>5, <1>6, <2>1, <2>2 DEF Free, Description
<1>8. /\ entry \in [ofd : Ofd \cup {None}, cloexec : BOOLEAN] /\ entry.ofd = o
      /\ entry.cloexec = cloexec
  BY <1>4, <1>6
<1>9. /\ r.nr = nr /\ r.ret = fd /\ r.name = name
      /\ r.flags = IF nr = "creat" THEN mode ELSE opening
  OBVIOUS
<1>10. RegsTyped(r)
  <2>1. fd \in Nat /\ fd \in Int
    BY <1>3, FdsAreNumbers
  <2>2. r.flags \subseteq FlagBit
    BY <1>4 DEF FlagBit
  <2> HIDE DEF fd
  <2> QED  BY <1>3, <2>1, <2>2 DEF RegsTyped, WellTyped, Syscall, NewFd
<1> HIDE DEF fd, spare, o, start, others, r, entry, new, kinds
<1>11. /\ length' \in [Name -> 0 .. MaxLength] /\ size' \in [Name -> 0 .. MaxLength]
       /\ UNCHANGED unlinked
  BY <1>1, <1>5, LengthSet DEF Runs
<1>12. fds \in Entries /\ descriptions \in [Ofd -> Description]
  BY <1>3, <1>4, <1>7, <1>8 DEF Runs, KernelTyped, Entries
<1>13. /\ fds[group[p]][fd] = entry
       /\ \A q \in Pid : q # group[p] => fds[q] = kfds[q]
       /\ \A a \in Fd : a # fd => fds[group[p]][a] = kfds[group[p]][a]
       /\ descriptions[o] = new /\ \A d \in Ofd : d # o => descriptions[d] = ofds[d]
  BY <1>3, <1>4 DEF Runs, KernelTyped
<1>14. \A q \in Pid, a \in Fd : kfds[q][a].ofd # o
  BY <1>4 DEF Runs, HeldInv
<1>15. \A q \in Pid, a \in Fd : kfds[q][a].ofd # None =>
        kfds[q][a].ofd \in Ofd /\ ofds[kfds[q][a].ofd].name # None
  BY DEF Runs, HeldInv, KernelTyped
<1> HIDE DEF fds, descriptions
<1>16. /\ kfds' = fds /\ ofds' \in [Ofd -> Description]
       /\ \A q \in Pid, a \in Fd :
            fds[q][a].ofd # None => ofds'[fds[q][a].ofd] = descriptions[fds[q][a].ofd]
       /\ \A d \in Ofd : ofds'[d] = descriptions[d] \/ ofds'[d] = Free
  BY <1>1, <1>12, DescriptorsSet
<1>17. UNCHANGED <<use, group, struck>>
  BY <1>1, StopAtDoes
<1>18. KernelTyped'
  BY <1>11, <1>12, <1>16, <1>17 DEF KernelTyped, Entries, Runs
<1>19. Kept(p)
  <2>1. ASSUME NEW q \in Pid, NEW a \in Fd, fds[q][a].ofd # None
        PROVE  /\ ofds'[fds[q][a].ofd].name # None
               /\ fds[q][a].ofd = kfds[q][a].ofd =>
                    ofds'[fds[q][a].ofd] = ofds[fds[q][a].ofd]
    <3>1. CASE q = group[p] /\ a = fd
      BY <1>3, <1>4, <1>7, <1>8, <1>13, <1>16, <2>1, <3>1
    <3>2. CASE ~(q = group[p] /\ a = fd)
      <4>1. fds[q][a] = kfds[q][a]
        BY <1>13, <3>2
      <4> QED  BY <1>13, <1>14, <1>15, <1>16, <2>1, <4>1
    <3> QED  BY <3>1, <3>2
  <2>2. \A d \in Ofd :
          ofds'[d].peak = 0 \/ (ofds'[d].peak = ofds[d].peak /\ ofds'[d].name = ofds[d].name)
    BY <1>7, <1>13, <1>16 DEF Free
  <2> QED  BY <1>16, <2>1, <2>2 DEF Kept
<1>20. Carried(p, r) /\ fd \in Changes(r)
  <2>1. /\ kfds'[group[p]][fd].ofd = o
        /\ ofds'[o].write = write /\ ofds'[o].followed = write
    BY <1>4, <1>7, <1>8, <1>13, <1>16, <1>3 DEF Runs
  <2>2. Follows(r) <=> write
    BY <1>1, <1>9 DEF Follows, write
  <2>3. entry.cloexec <=> "O_CLOEXEC" \in r.flags
    BY <1>1, <1>8, <1>9 DEF cloexec
  <2>4. kfds'[group[p]][fd] = entry
    BY <1>13, <1>16
  <2> QED  BY <1>3, <1>4, <1>8, <1>9, <2>1, <2>2, <2>3, <2>4 DEF Carried, Changes, Dups, NewFd
<1>21. ~MixedCloexec(kfds) => ~MixedCloexec(kfds')
  <2> SUFFICES ASSUME ~MixedCloexec(kfds), NEW q \in Pid, NEW a \in Fd, NEW b \in Fd,
                      fds[q][a].ofd = fds[q][b].ofd, fds[q][a].ofd # None
               PROVE  fds[q][a].cloexec = fds[q][b].cloexec
    BY <1>16 DEF MixedCloexec
  <2>1. CASE fds[q][a].ofd = o
    <3>1. \A c \in Fd : fds[q][c].ofd = o => q = group[p] /\ c = fd
      BY <1>13, <1>14
    <3> QED  BY <2>1, <3>1
  <2>2. CASE fds[q][a].ofd # o
    <3>1. \A c \in Fd : fds[q][c].ofd # o => fds[q][c] = kfds[q][c]
      BY <1>8, <1>13
    <3> QED  BY <2>2, <3>1 DEF MixedCloexec
  <2> QED  BY <2>1, <2>2
<1>22. Called(p, r)
  <2>1. /\ \A q \in Pid : q # group[p] => kfds'[q] = kfds[q]
        /\ \A a \in Fd : a # fd => kfds'[group[p]][a] = kfds[group[p]][a]
    BY <1>13, <1>16
  <2>2. Rewrote(p, r, fd)
    BY <1>1, <1>3, <1>11, <1>18, <1>19, <1>20, <1>21, <2>1 DEF Rewrote
  <2> QED  BY <1>1, <1>3, <1>10, <1>11, <1>18, <2>2, SlotIsCalled
<1> QED  BY <1>22

------------------------------------------------------------------------------
(* Threads *)

LEMMA Events ==
  /\ Running.event = "running" /\ Absent.event = "absent" /\ Running # Absent
  /\ \A e, x : /\ [Running EXCEPT !.event = e].event = e
               /\ [Absent EXCEPT !.event = e].event = e
               /\ [Running EXCEPT !.event = e, !.child = x].event = e
               /\ [Running EXCEPT !.event = e, !.child = x].child = x
               /\ [Running EXCEPT !.event = e, !.regs = x].event = e
               /\ [Running EXCEPT !.event = e, !.regs = x].regs = x
BY DEF Running, Absent

\* Who acts is there, and so is the first thread of its process.
LEMMA ActorsAreThere ==
  ASSUME LifeInv, KernelTyped, NEW p \in Pid, stop[p] # Absent
  PROVE  /\ ~Over /\ GroupInv /\ BirthInv /\ KnownInv
         /\ group[p] \in Pid /\ group[group[p]] = group[p] /\ stop[group[p]] # Absent
         /\ p \in Members(p) /\ group[p] \in Members(p)
<1>1. ~Over /\ GroupInv /\ BirthInv /\ KnownInv
  BY DEF LifeInv, Over
<1>2. group[p] \in Pid /\ group[group[p]] = group[p]
  BY <1>1 DEF GroupInv
<1>3. stop[group[p]] # Absent
  BY <1>1, <1>2, IdsAssumption DEF GroupInv
<1> QED  BY <1>1, <1>2, <1>3 DEF Members

\* A thread goes from one stop to another, with nothing else changed.
LEMMA GoesOnLife ==
  ASSUME LifeInv, KernelTyped, NEW p \in Pid, NEW s, stop' = [stop EXCEPT ![p] = s],
         UNCHANGED <<group, ProcMap, GroupLeaders>>,
         stop[p].event \in {"running", "syscall"}, s.event \in {"running", "syscall", "exit"},
         s.event = "running" => s = Running
  PROVE  LifeInv'
<1>1. stop[p] # Absent /\ s # Absent
  BY Events
<1>2. /\ GroupInv /\ BirthInv /\ KnownInv
  BY <1>1, ActorsAreThere
<1>3. /\ \A q \in Pid : stop'[q] = IF q = p THEN s ELSE stop[q]
      /\ stop' = [q \in Pid |-> stop'[q]]
  BY DEF LifeInv, ThreadInv
<1>4. \A q \in Pid : stop'[q] # Absent <=> stop[q] # Absent
  BY <1>1, <1>3
<1>5. ThreadInv'
  BY <1>3 DEF LifeInv, ThreadInv, Event
<1>6. \A q \in Pid : Members(q)' = Members(q)
  BY <1>4 DEF Members
<1>7. GroupInv'
  BY <1>2, <1>3, <1>4, <1>6 DEF GroupInv
<1>8. BirthInv'
  BY <1>2, <1>3 DEF BirthInv
<1>9. KnownInv'
  <2>1. Registered' = Registered
    BY DEF Registered
  <2> QED  BY <1>2, <1>3, <2>1 DEF KnownInv
<1> QED  BY <1>5, <1>7, <1>8, <1>9 DEF LifeInv

LEMMA ForkLife ==
  ASSUME LifeInv, KernelTyped, NEW p \in Pid, NEW child \in Pid, stop[p] = Running,
         Fork(p, child), UNCHANGED contextVars
  PROVE  LifeInv'
<1> DEFINE s == [Running EXCEPT !.event = "fork", !.child = child]
           born == [Absent EXCEPT !.event = "born"]
<1>1. /\ GroupInv /\ BirthInv /\ KnownInv /\ group[p] = p
      /\ stop[child] = Absent /\ Members(p) = {p} /\ child # p
  BY Events, ActorsAreThere DEF Fork
<1>2. s.event = "fork" /\ s.child = child /\ born.event = "born"
  BY Events
<1>3. /\ stop' = [stop EXCEPT ![p] = s, ![child] = born]
      /\ group' = [group EXCEPT ![child] = child]
      /\ UNCHANGED <<ProcMap, GroupLeaders>>
  BY DEF Fork, contextVars
<1> HIDE DEF s, born
<1>4. /\ \A q \in Pid : stop'[q] = IF q = child THEN born ELSE IF q = p THEN s ELSE stop[q]
      /\ \A q \in Pid : group'[q] = IF q = child THEN child ELSE group[q]
      /\ stop' = [q \in Pid |-> stop'[q]]
  BY <1>1, <1>3 DEF LifeInv, ThreadInv, KernelTyped
<1>5. s # Absent /\ born # Absent /\ Running.event = "running" /\ Absent.event = "absent"
  BY <1>2, Events
<1>6. ThreadInv'
  BY <1>2, <1>4 DEF LifeInv, ThreadInv, Event
<1>7. \A q \in Pid : stop[q] # Absent => group[q] # child
  BY <1>1, IdsAssumption DEF GroupInv
<1>8. /\ \A q \in Pid : stop[q] # Absent => Members(q)' = Members(q)
      /\ Members(child)' = {child}
  <2>1. \A q, x \in Pid : stop[q] # Absent => (x \in Members(q)' <=> x \in Members(q))
    BY <1>1, <1>4, <1>5, <1>7 DEF Members
  <2>2. \A x \in Pid : x \in Members(child)' <=> x = child
    BY <1>1, <1>4, <1>5, <1>7 DEF Members
  <2>3. \A q : Members(q) \subseteq Pid /\ Members(q)' \subseteq Pid
    BY DEF Members
  <2> QED  BY <2>1, <2>2, <2>3
<1>9. GroupInv'
  <2>1. ASSUME NEW q \in Pid, q # child
        PROVE  /\ stop'[q] # Absent <=> group'[q] # None
               /\ stop'[q] # Absent => group'[q] \in Pid /\ group'[group'[q]] = group'[q]
               /\ stop'[q].event \in {"fork", "exec"} => Members(q)' = {q}
               /\ stop'[q] # Absent /\ stop'[group'[q]].event = "born" => group'[q] = q
    BY <1>1, <1>2, <1>4, <1>5, <1>7, <1>8, <2>1 DEF GroupInv
  <2>2. child # None
    BY IdsAssumption
  <2> QED  BY <1>2, <1>4, <1>5, <2>1, <2>2 DEF GroupInv
<1>10. BirthInv'
  BY <1>1, <1>2, <1>4, <1>5 DEF BirthInv
<1>11. KnownInv'
  <2>1. Registered' = Registered /\ child \notin Registered /\ Registered \subseteq Pid
    BY <1>1, <1>3, <1>5 DEF Registered, KnownInv
  <2>2. \A q \in Pid : ProcMap'[q] # None <=> stop'[q].event \notin {"absent", "born"}
    BY <1>1, <1>2, <1>3, <1>4, <1>5 DEF KnownInv
  <2>3. \A q \in Registered : group'[q] = group[q]
    BY <1>4, <2>1
  <2>4. \A q, x \in Registered : ProcMap'[q] = ProcMap'[x] <=> group'[q] = group'[x]
    BY <1>1, <1>3, <2>3 DEF KnownInv
  <2>5. GroupLeaders' = {q \in Registered : group'[q] = q}
    BY <1>1, <1>3, <2>3 DEF KnownInv
  <2> QED  BY <2>1, <2>2, <2>4, <2>5 DEF KnownInv
<1> QED  BY <1>6, <1>9, <1>10, <1>11 DEF LifeInv

LEMMA CloneLife ==
  ASSUME LifeInv, KernelTyped, NEW p \in Pid, NEW thread \in Pid, stop[p] = Running,
         Clone(p, thread), UNCHANGED contextVars
  PROVE  LifeInv'
<1> DEFINE s == [Running EXCEPT !.event = "clone", !.child = thread]
           born == [Absent EXCEPT !.event = "born"]
<1>1. /\ GroupInv /\ BirthInv /\ KnownInv /\ group[p] \in Pid /\ group[group[p]] = group[p]
      /\ stop[thread] = Absent /\ thread # p
  BY Events, ActorsAreThere DEF Clone
<1>2. s.event = "clone" /\ s.child = thread /\ born.event = "born"
  BY Events
<1>3. /\ stop' = [stop EXCEPT ![p] = s, ![thread] = born]
      /\ group' = [group EXCEPT ![thread] = group[p]]
      /\ UNCHANGED <<ProcMap, GroupLeaders>>
  BY DEF Clone, contextVars
<1> HIDE DEF s, born
<1>4. /\ \A q \in Pid : stop'[q] = IF q = thread THEN born ELSE IF q = p THEN s ELSE stop[q]
      /\ \A q \in Pid : group'[q] = IF q = thread THEN group[p] ELSE group[q]
      /\ stop' = [q \in Pid |-> stop'[q]]
  BY <1>1, <1>3 DEF LifeInv, ThreadInv, KernelTyped
<1>5. s # Absent /\ born # Absent /\ Running.event = "running" /\ Absent.event = "absent"
  BY <1>2, Events
<1>6. ThreadInv'
  BY <1>2, <1>4 DEF LifeInv, ThreadInv, Event
<1>7. \A q \in Pid : stop[q] # Absent => group[q] # thread
  BY <1>1, IdsAssumption DEF GroupInv
<1>8. \A q \in Pid : stop[q].event \in {"fork", "exec"} => Members(q)' = Members(q)
  <2>1. \A q \in Pid : stop[q].event \in {"fork", "exec"} => group[q] # group[p]
    <3>1. p \in Members(p)
      BY <1>5, Events, ActorsAreThere
    <3> QED  BY <1>1, <1>5, <3>1 DEF GroupInv, Members
  <2>2. \A q, x \in Pid : stop[q].event \in {"fork", "exec"} => (x \in Members(q)' <=> x \in Members(q))
    BY <1>1, <1>4, <1>5, <2>1 DEF Members
  <2>3. \A q : Members(q) \subseteq Pid /\ Members(q)' \subseteq Pid
    BY DEF Members
  <2> QED  BY <2>2, <2>3
<1>9. GroupInv'
  <2>1. ASSUME NEW q \in Pid, q # thread
        PROVE  /\ stop'[q] # Absent <=> group'[q] # None
               /\ stop'[q] # Absent => group'[q] \in Pid /\ group'[group'[q]] = group'[q]
               /\ stop'[q].event \in {"fork", "exec"} => Members(q)' = {q}
               /\ stop'[q] # Absent /\ stop'[group'[q]].event = "born" => group'[q] = q
    BY <1>1, <1>2, <1>4, <1>5, <1>7, <1>8, <2>1 DEF GroupInv
  <2>2. group[p] # None /\ group[p] # thread /\ stop[group[p]].event # "born"
    BY <1>1, <1>5, <1>7, IdsAssumption, Events DEF GroupInv
  <2> QED  BY <1>1, <1>2, <1>4, <1>5, <2>1, <2>2 DEF GroupInv
<1>10. BirthInv'
  BY <1>1, <1>2, <1>4, <1>5 DEF BirthInv
<1>11. KnownInv'
  <2>1. Registered' = Registered /\ thread \notin Registered /\ Registered \subseteq Pid
    BY <1>1, <1>3, <1>5 DEF Registered, KnownInv
  <2>2. \A q \in Pid : ProcMap'[q] # None <=> stop'[q].event \notin {"absent", "born"}
    BY <1>1, <1>2, <1>3, <1>4, <1>5 DEF KnownInv
  <2>3. \A q \in Registered : group'[q] = group[q]
    BY <1>4, <2>1
  <2>4. \A q, x \in Registered : ProcMap'[q] = ProcMap'[x] <=> group'[q] = group'[x]
    BY <1>1, <1>3, <2>3 DEF KnownInv
  <2>5. GroupLeaders' = {q \in Registered : group'[q] = q}
    BY <1>1, <1>3, <2>3 DEF KnownInv
  <2> QED  BY <2>1, <2>2, <2>4, <2>5 DEF KnownInv
<1> QED  BY <1>6, <1>9, <1>10, <1>11 DEF LifeInv

LEMMA ExecLife ==
  ASSUME LifeInv, KernelTyped, NEW p \in Pid, stop[p] = Running,
         Exec(p), UNCHANGED contextVars
  PROVE  LifeInv' /\ group[p] = p
<1> DEFINE s == [Running EXCEPT !.event = "exec"]
<1>1. /\ GroupInv /\ BirthInv /\ KnownInv /\ group[p] = p /\ Members(p) = {p}
  BY Events, ActorsAreThere DEF Exec
<1>2. s.event = "exec" /\ s # Absent /\ Running.event = "running" /\ Absent.event = "absent"
  BY Events
<1>3. stop' = [stop EXCEPT ![p] = s] /\ UNCHANGED <<group, ProcMap, GroupLeaders>>
  BY DEF Exec, contextVars
<1> HIDE DEF s
<1>4. /\ \A q \in Pid : stop'[q] = IF q = p THEN s ELSE stop[q]
      /\ stop' = [q \in Pid |-> stop'[q]]
  BY <1>3 DEF LifeInv, ThreadInv
<1>5. ThreadInv'
  BY <1>2, <1>4 DEF LifeInv, ThreadInv, Event
<1>6. \A q \in Pid : stop'[q] # Absent <=> stop[q] # Absent
  BY <1>2, <1>4
<1>7. \A q \in Pid : Members(q)' = Members(q)
  BY <1>3, <1>6 DEF Members
<1>8. GroupInv'
  BY <1>1, <1>2, <1>3, <1>4, <1>6, <1>7 DEF GroupInv
<1>9. BirthInv'
  BY <1>1, <1>2, <1>3, <1>4 DEF BirthInv
<1>10. KnownInv'
  <2>1. Registered' = Registered
    BY <1>3 DEF Registered
  <2> QED  BY <1>1, <1>2, <1>3, <1>4, <2>1 DEF KnownInv
<1> QED  BY <1>1, <1>5, <1>8, <1>9, <1>10 DEF LifeInv

LEMMA ExitLife ==
  ASSUME LifeInv, KernelTyped, NEW p \in Pid, stop[p] = Running,
         Exit(p), UNCHANGED contextVars
  PROVE  LifeInv'
<1> DEFINE s == [Running EXCEPT !.event = "exit"]
<1>1. /\ GroupInv /\ BirthInv /\ KnownInv /\ p \in Members(p)
      /\ \A q \in Members(p) : stop[q].event \notin {"clone", "born"}
  BY Events, ActorsAreThere DEF Exit
<1>2. s.event = "exit" /\ s # Absent /\ Running.event = "running" /\ Absent.event = "absent"
  BY Events
<1>3. /\ stop' = [q \in Pid |-> IF q \in Members(p) THEN s ELSE stop[q]]
      /\ UNCHANGED <<group, ProcMap, GroupLeaders>>
  BY DEF Exit, contextVars
<1> HIDE DEF s
<1>4. /\ \A q \in Pid : stop'[q] = IF q \in Members(p) THEN s ELSE stop[q]
      /\ stop' = [q \in Pid |-> stop'[q]]
  BY <1>3
<1>5. ThreadInv'
  BY <1>2, <1>4 DEF LifeInv, ThreadInv, Event
<1>6. \A q \in Pid : stop'[q] # Absent <=> stop[q] # Absent
  BY <1>2, <1>4 DEF Members
<1>7. \A q \in Pid : Members(q)' = Members(q)
  BY <1>3, <1>6 DEF Members
<1>8. GroupInv'
  BY <1>1, <1>2, <1>3, <1>4, <1>6, <1>7 DEF GroupInv
<1>9. BirthInv'
  BY <1>1, <1>2, <1>3, <1>4 DEF BirthInv
<1>10. KnownInv'
  <2>1. Registered' = Registered
    BY <1>3 DEF Registered
  <2>2. \A q \in Members(p) : stop[q].event # "absent"
    BY DEF Members, LifeInv, ThreadInv
  <2>3. \A q \in Pid : ProcMap'[q] # None <=> stop'[q].event \notin {"absent", "born"}
    BY <1>1, <1>2, <1>3, <1>4, <2>2 DEF KnownInv
  <2> QED  BY <1>1, <1>3, <2>1, <2>3 DEF KnownInv
<1> QED  BY <1>5, <1>8, <1>9, <1>10 DEF LifeInv

\* The handlers of the tracer.
LEMMA HandleForkLife ==
  ASSUME LifeInv, KernelTyped, ContextTyped, NEW p \in Pid, HandleFork(p)
  PROVE  LifeInv'
<1> DEFINE c == stop[p].child
<1>1. /\ stop[p].event = "fork" /\ RegisterProcess(p, c) /\ UNCHANGED group
      /\ stop' = [stop EXCEPT ![p] = Running, ![c] = Running]
  BY DEF HandleFork
<1>2. stop[p] # Absent /\ Running.event = "running" /\ Running # Absent
  BY <1>1, Events
<1>3. /\ GroupInv /\ BirthInv /\ KnownInv /\ c \in Pid /\ stop[c].event = "born" /\ group[c] = c
  BY <1>1, <1>2, ActorsAreThere DEF BirthInv
<1>4. \A q \in Pid : stop[q].event \in {"fork", "clone"} /\ stop[q].child = c => q = p
  BY <1>1, <1>3 DEF BirthInv
<1> HIDE DEF c
<1>5. /\ \A q \in Pid : stop'[q] = IF q \in {p, c} THEN Running ELSE stop[q]
      /\ stop' = [q \in Pid |-> stop'[q]]
  BY <1>1, <1>3 DEF LifeInv, ThreadInv
<1>6. /\ NewProcState # None /\ \A q \in Pid : ProcMap[q] # NewProcState
      /\ \A q \in Pid : ProcMap'[q] = IF q = c THEN NewProcState ELSE ProcMap[q]
      /\ GroupLeaders' = GroupLeaders \cup {c}
  BY <1>1, <1>3, NewProcStateTyped DEF RegisterProcess, ContextTyped
<1>7. ThreadInv'
  BY <1>2, <1>5 DEF LifeInv, ThreadInv, Event
<1>8. stop[c] # Absent /\ p # c
  BY <1>1, <1>3, Events
<1>9. \A q \in Pid : stop'[q] # Absent <=> stop[q] # Absent
  BY <1>2, <1>5, <1>8
<1>10. \A q \in Pid : Members(q)' = Members(q)
  BY <1>1, <1>9 DEF Members
<1>11. GroupInv'
  <2>1. \A q \in Pid : stop'[q].event \in {"fork", "exec", "born"} => stop'[q] = stop[q]
    BY <1>2, <1>5
  <2>2. ASSUME NEW q \in Pid, stop[q] # Absent
        PROVE  /\ group[q] # None /\ group[q] \in Pid /\ group[group[q]] = group[q]
               /\ stop'[q].event \in {"fork", "exec"} => Members(q) = {q}
               /\ stop'[group[q]].event = "born" => group[q] = q
    BY <1>3, <2>1, <2>2 DEF GroupInv
  <2>3. \A q \in Pid : stop[q] = Absent => group[q] = None /\ stop'[q].event \notin {"fork", "exec"}
    BY <1>3, <2>1, Events DEF GroupInv
  <2> QED  BY <1>1, <1>9, <1>10, <2>2, <2>3 DEF GroupInv
<1>12. BirthInv'
  <2> SUFFICES ASSUME NEW q \in Pid, stop'[q].event \in {"fork", "clone"}
               PROVE  /\ stop'[q].child \in Pid
                      /\ stop'[stop'[q].child].event = "born"
                      /\ stop'[q].event = "fork" => group'[stop'[q].child] = stop'[q].child
                      /\ stop'[q].event = "clone" => group'[stop'[q].child] = group'[q]
                      /\ \A x \in Pid : stop'[x].event \in {"fork", "clone"}
                                         /\ stop'[x].child = stop'[q].child => q = x
    BY DEF BirthInv
  <2>1. \A x \in Pid : stop'[x].event \in {"fork", "clone"} => stop'[x] = stop[x] /\ x # p
    BY <1>2, <1>5
  <2>2. stop[q].child \in Pid /\ stop[q].child # c /\ stop[stop[q].child].event = "born"
    BY <1>3, <1>4, <2>1 DEF BirthInv
  <2>3. stop'[stop[q].child] = stop[stop[q].child]
    BY <1>1, <1>5, <2>2
  <2>4. stop'[q] = stop[q] /\ stop[q].event \in {"fork", "clone"}
    BY <2>1
  <2>5. /\ stop[q].event = "fork" => group[stop[q].child] = stop[q].child
        /\ stop[q].event = "clone" => group[stop[q].child] = group[q]
        /\ \A x \in Pid : stop[x].event \in {"fork", "clone"} /\ stop[x].child = stop[q].child => q = x
    BY <1>3, <2>4 DEF BirthInv
  <2>6. \A x \in Pid : stop'[x].event \in {"fork", "clone"} /\ stop'[x].child = stop'[q].child => q = x
    BY <2>1, <2>4, <2>5
  <2> QED  BY <1>1, <2>2, <2>3, <2>4, <2>5, <2>6
<1>13. KnownInv'
  <2>1. Registered' = Registered \cup {c} /\ c \notin Registered
    BY <1>3, <1>6 DEF Registered, KnownInv
  <2>2. \A q \in Registered : q \in Pid /\ group[q] # c /\ stop[q] # Absent
    <3>1. \A q \in Registered : q \in Pid /\ stop[q] # Absent
      BY <1>3, Events DEF Registered, KnownInv
    <3> QED  BY <1>3, <2>1, <3>1 DEF GroupInv
  <2>3. \A q \in Pid : ProcMap'[q] # None <=> stop'[q].event \notin {"absent", "born"}
    <3>1. \A q \in Pid : ProcMap[q] # None <=> stop[q].event \notin {"absent", "born"}
      BY <1>3 DEF KnownInv
    <3>2. ProcMap'[c] # None
      BY <1>3, <1>6, <2>1 DEF Registered
    <3> QED  BY <1>1, <1>2, <1>3, <1>5, <1>6, <3>1, <3>2
  <2>4. \A q, x \in Registered' : ProcMap'[q] = ProcMap'[x] <=> group[q] = group[x]
    BY <1>3, <1>6, <2>1, <2>2 DEF KnownInv
  <2>5. GroupLeaders' = {q \in Registered' : group[q] = q}
    BY <1>3, <1>6, <2>1 DEF KnownInv
  <2> QED  BY <1>1, <2>3, <2>4, <2>5 DEF KnownInv
<1> QED  BY <1>7, <1>11, <1>12, <1>13 DEF LifeInv

LEMMA HandleCloneLife ==
  ASSUME LifeInv, KernelTyped, ContextTyped, NEW p \in Pid, HandleClone(p)
  PROVE  LifeInv'
<1> DEFINE c == stop[p].child
<1>1. /\ stop[p].event = "clone" /\ RegisterThread(p, c) /\ UNCHANGED group
      /\ stop' = [stop EXCEPT ![p] = Running, ![c] = Running]
  BY DEF HandleClone
<1>2. stop[p] # Absent /\ Running.event = "running" /\ Running # Absent
  BY <1>1, Events
<1>3. /\ GroupInv /\ BirthInv /\ KnownInv /\ c \in Pid /\ stop[c].event = "born"
      /\ group[c] = group[p] /\ group[p] \in Pid
  BY <1>1, <1>2, ActorsAreThere DEF BirthInv
<1>4. \A q \in Pid : stop[q].event \in {"fork", "clone"} /\ stop[q].child = c => q = p
  BY <1>1, <1>3 DEF BirthInv
<1> HIDE DEF c
<1>5. /\ \A q \in Pid : stop'[q] = IF q \in {p, c} THEN Running ELSE stop[q]
      /\ stop' = [q \in Pid |-> stop'[q]]
  BY <1>1, <1>3 DEF LifeInv, ThreadInv
<1>6. /\ \A q \in Pid : ProcMap'[q] = IF q = c THEN ProcMap[p] ELSE ProcMap[q]
      /\ GroupLeaders' = GroupLeaders
  BY <1>1, <1>3 DEF RegisterThread, ContextTyped
<1>7. ThreadInv'
  BY <1>2, <1>5 DEF LifeInv, ThreadInv, Event
<1>8. stop[c] # Absent /\ p # c
  BY <1>1, <1>3, Events
<1>9. \A q \in Pid : stop'[q] # Absent <=> stop[q] # Absent
  BY <1>2, <1>5, <1>8
<1>10. \A q \in Pid : Members(q)' = Members(q)
  BY <1>1, <1>9 DEF Members
<1>11. GroupInv'
  <2>1. \A q \in Pid : stop'[q].event \in {"fork", "exec", "born"} => stop'[q] = stop[q]
    BY <1>2, <1>5
  <2>2. ASSUME NEW q \in Pid, stop[q] # Absent
        PROVE  /\ group[q] # None /\ group[q] \in Pid /\ group[group[q]] = group[q]
               /\ stop'[q].event \in {"fork", "exec"} => Members(q) = {q}
               /\ stop'[group[q]].event = "born" => group[q] = q
    BY <1>3, <2>1, <2>2 DEF GroupInv
  <2>3. \A q \in Pid : stop[q] = Absent => group[q] = None /\ stop'[q].event \notin {"fork", "exec"}
    BY <1>3, <2>1, Events DEF GroupInv
  <2> QED  BY <1>1, <1>9, <1>10, <2>2, <2>3 DEF GroupInv
<1>12. BirthInv'
  <2> SUFFICES ASSUME NEW q \in Pid, stop'[q].event \in {"fork", "clone"}
               PROVE  /\ stop'[q].child \in Pid
                      /\ stop'[stop'[q].child].event = "born"
                      /\ stop'[q].event = "fork" => group'[stop'[q].child] = stop'[q].child
                      /\ stop'[q].event = "clone" => group'[stop'[q].child] = group'[q]
                      /\ \A x \in Pid : stop'[x].event \in {"fork", "clone"}
                                         /\ stop'[x].child = stop'[q].child => q = x
    BY DEF BirthInv
  <2>1. \A x \in Pid : stop'[x].event \in {"fork", "clone"} => stop'[x] = stop[x] /\ x # p
    BY <1>2, <1>5
  <2>2. stop[q].child \in Pid /\ stop[q].child # c /\ stop[stop[q].child].event = "born"
    BY <1>3, <1>4, <2>1 DEF BirthInv
  <2>3. stop'[stop[q].child] = stop[stop[q].child]
    BY <1>1, <1>5, <2>2
  <2>4. stop'[q] = stop[q] /\ stop[q].event \in {"fork", "clone"}
    BY <2>1
  <2>5. /\ stop[q].event = "fork" => group[stop[q].child] = stop[q].child
        /\ stop[q].event = "clone" => group[stop[q].child] = group[q]
        /\ \A x \in Pid : stop[x].event \in {"fork", "clone"} /\ stop[x].child = stop[q].child => q = x
    BY <1>3, <2>4 DEF BirthInv
  <2>6. \A x \in Pid : stop'[x].event \in {"fork", "clone"} /\ stop'[x].child = stop'[q].child => q = x
    BY <2>1, <2>4, <2>5
  <2> QED  BY <1>1, <2>2, <2>3, <2>4, <2>5, <2>6
<1>13. KnownInv'
  <2>1. Registered' = Registered \cup {c} /\ c \notin Registered /\ p \in Registered
    BY <1>1, <1>3, <1>6 DEF Registered, KnownInv
  <2>2. group[c] # c
    BY <1>2, <1>3, <1>8 DEF GroupInv
  <2>3. \A q \in Pid : ProcMap'[q] # None <=> stop'[q].event \notin {"absent", "born"}
    <3>1. \A q \in Pid : ProcMap[q] # None <=> stop[q].event \notin {"absent", "born"}
      BY <1>3 DEF KnownInv
    <3>2. ProcMap'[c] # None
      BY <1>3, <1>6, <2>1 DEF Registered
    <3> QED  BY <1>1, <1>2, <1>3, <1>5, <1>6, <3>1, <3>2
  <2>4. \A q \in Registered : q \in Pid
    BY DEF Registered
  <2>5. \A q, x \in Registered' : ProcMap'[q] = ProcMap'[x] <=> group[q] = group[x]
    BY <1>3, <1>6, <2>1, <2>4 DEF KnownInv
  <2>6. GroupLeaders' = {q \in Registered' : group[q] = q}
    BY <1>3, <1>6, <2>1, <2>2 DEF KnownInv
  <2> QED  BY <1>1, <2>3, <2>5, <2>6 DEF KnownInv
<1> QED  BY <1>7, <1>11, <1>12, <1>13 DEF LifeInv

LEMMA HandleExecLife ==
  ASSUME LifeInv, KernelTyped, ContextTyped, NEW p \in Pid, HandleExec(p)
  PROVE  LifeInv'
<1>1. /\ stop[p].event = "exec" /\ RegisterExec(p) /\ UNCHANGED group
      /\ stop' = [stop EXCEPT ![p] = Running]
  BY DEF HandleExec, Resume
<1>2. stop[p] # Absent /\ Running.event = "running" /\ Running # Absent
  BY <1>1, Events
<1>3. /\ GroupInv /\ BirthInv /\ KnownInv /\ Members(p) = {p} /\ group[p] = p
  <2>1. GroupInv /\ BirthInv /\ KnownInv /\ group[p] \in Members(p)
    BY <1>2, ActorsAreThere
  <2> QED  BY <1>1, <2>1 DEF GroupInv
<1>4. /\ \A q \in Pid : stop'[q] = IF q = p THEN Running ELSE stop[q]
      /\ stop' = [q \in Pid |-> stop'[q]]
  BY <1>1 DEF LifeInv, ThreadInv
<1>5. /\ NewProcState # None /\ \A q \in Pid : ProcMap[q] # NewProcState
      /\ \A q \in Pid : ProcMap'[q] = IF q = p THEN NewProcState ELSE ProcMap[q]
      /\ GroupLeaders' = GroupLeaders \cup {p}
  BY <1>1, NewProcStateTyped DEF RegisterExec, ContextTyped
<1>6. ThreadInv'
  BY <1>2, <1>4 DEF LifeInv, ThreadInv, Event
<1>7. \A q \in Pid : stop'[q] # Absent <=> stop[q] # Absent
  BY <1>2, <1>4
<1>8. \A q \in Pid : Members(q)' = Members(q)
  BY <1>1, <1>7 DEF Members
<1>9. GroupInv'
  BY <1>1, <1>2, <1>3, <1>4, <1>7, <1>8 DEF GroupInv
<1>10. BirthInv'
  BY <1>1, <1>2, <1>3, <1>4 DEF BirthInv
<1>11. KnownInv'
  <2>1. Registered' = Registered /\ p \in Registered
    BY <1>1, <1>3, <1>5 DEF Registered, KnownInv
  <2>2. \A q \in Registered : q \in Pid /\ (group[q] = p => q = p)
    <3>1. \A q \in Registered : q \in Pid /\ stop[q] # Absent
      BY <1>3, Events DEF Registered, KnownInv
    <3> QED  BY <1>3, <3>1 DEF Members
  <2>3. \A q \in Pid : ProcMap'[q] # None <=> stop'[q].event \notin {"absent", "born"}
    BY <1>1, <1>2, <1>3, <1>4, <1>5 DEF KnownInv
  <2>4. \A q, x \in Registered' : ProcMap'[q] = ProcMap'[x] <=> group[q] = group[x]
    BY <1>3, <1>5, <2>1, <2>2 DEF KnownInv
  <2>5. GroupLeaders' = {q \in Registered' : group[q] = q}
    BY <1>3, <1>5, <2>1 DEF KnownInv
  <2> QED  BY <1>1, <2>3, <2>4, <2>5 DEF KnownInv
<1> QED  BY <1>6, <1>9, <1>10, <1>11 DEF LifeInv

LEMMA HandleExitLife ==
  ASSUME LifeInv, KernelTyped, ContextTyped, NEW p \in Pid, HandleExit(p)
  PROVE  LifeInv'
<1>1. /\ stop[p].event = "exit" /\ (group[p] = p => Members(p) = {p})
      /\ VanishProcess(p, OutputSize)
      /\ stop' = [stop EXCEPT ![p] = Absent]
      /\ group' = [group EXCEPT ![p] = None]
  BY DEF HandleExit
<1>2. stop[p] # Absent /\ Absent.event = "absent"
  BY <1>1, Events
<1>3. GroupInv /\ BirthInv /\ KnownInv
  BY <1>2, ActorsAreThere
<1>4. /\ \A q \in Pid : stop'[q] = IF q = p THEN Absent ELSE stop[q]
      /\ stop' = [q \in Pid |-> stop'[q]]
      /\ \A q \in Pid : group'[q] = IF q = p THEN None ELSE group[q]
  BY <1>1 DEF LifeInv, ThreadInv, KernelTyped
<1>5. /\ \A q \in Pid : ProcMap'[q] = IF q = p THEN None ELSE ProcMap[q]
      /\ GroupLeaders' = GroupLeaders \ {p}
  BY <1>1 DEF VanishProcess, ContextTyped
<1>6. ThreadInv'
  BY <1>2, <1>4 DEF LifeInv, ThreadInv, Event
<1>7. \A q \in Pid : q # p /\ stop[q] # Absent => group[q] # p
  BY <1>1, <1>3 DEF GroupInv, Members
<1>8. \A q \in Pid : q # p /\ stop[q].event \in {"fork", "exec"} => Members(q)' = {q}
  <2> SUFFICES ASSUME NEW q \in Pid, q # p, stop[q].event \in {"fork", "exec"}
               PROVE  Members(q)' = {q}
    OBVIOUS
  <2>1. Members(q) = {q} /\ stop[q] # Absent
    BY <1>3, Events DEF GroupInv
  <2>2. group[q] \in Pid
    BY <1>3, <2>1 DEF GroupInv
  <2>3. \A x \in Pid : x \in Members(q)' <=> x = q
    BY <1>4, <2>1, <2>2, IdsAssumption DEF Members
  <2> QED  BY <2>3 DEF Members
<1>9. GroupInv'
  BY <1>1, <1>2, <1>3, <1>4, <1>7, <1>8 DEF GroupInv
<1>10. BirthInv'
  BY <1>1, <1>2, <1>3, <1>4 DEF BirthInv
<1>11. KnownInv'
  <2>1. Registered' = Registered \ {p} /\ \A q \in Registered : q \in Pid
    BY <1>5 DEF Registered
  <2>2. \A q \in Pid : ProcMap'[q] # None <=> stop'[q].event \notin {"absent", "born"}
    BY <1>2, <1>3, <1>4, <1>5 DEF KnownInv
  <2>3. \A q, x \in Registered' : ProcMap'[q] = ProcMap'[x] <=> group'[q] = group'[x]
    BY <1>3, <1>4, <1>5, <2>1 DEF KnownInv
  <2>4. GroupLeaders' = {q \in Registered' : group'[q] = q}
    BY <1>3, <1>4, <1>5, <2>1 DEF KnownInv
  <2> QED  BY <2>2, <2>3, <2>4 DEF KnownInv
<1> QED  BY <1>6, <1>9, <1>10, <1>11 DEF LifeInv

------------------------------------------------------------------------------
(* What is kept of every step *)

\* A step of the traced program leaves the context alone.
LEMMA KernelStepTyped ==
  ASSUME TypedInv, UNCHANGED contextVars, KernelTyped', CallsTyped', HeldInv'
  PROVE  TypedInv'
<1>1. UNCHANGED <<ProcMap, GroupLeaders, Fds>>
  BY DEF contextVars
<1>2. length' \in [Name -> Size]
  BY LengthsAreSizes DEF KernelTyped
<1>3. ContextTyped'
  BY <1>1, <1>2 DEF TypedInv, ContextTyped
<1>4. SlottedInv'
  BY <1>1 DEF TypedInv, SlottedInv, Slotted
<1> QED  BY <1>3, <1>4 DEF TypedInv

\* A thread comes to something that is no call.
LEMMA NoCallTyped ==
  ASSUME CallsTyped, \A q \in Pid : stop'[q] = stop[q] \/ stop'[q].event # "syscall"
  PROVE  CallsTyped'
BY DEF CallsTyped, RegsTyped, WellTyped, Succeeded

LEMMA CalledTyped ==
  ASSUME TypedInv, ThreadInv, NEW p \in Pid, NEW r, Called(p, r)
  PROVE  TypedInv'
<1>1. \A q \in Pid : stop'[q] = IF q = p THEN [Running EXCEPT !.event = "syscall", !.regs = r]
                                ELSE stop[q]
  BY DEF Called, ThreadInv
<1>2. RegsTyped(r) /\ [Running EXCEPT !.event = "syscall", !.regs = r].regs = r
  BY Events DEF Called
<1>3. ASSUME NEW q \in Pid, stop'[q].event = "syscall"
      PROVE  RegsTyped(stop'[q].regs)
  BY <1>1, <1>2, <1>3 DEF TypedInv, CallsTyped
<1>4. CallsTyped'
  BY <1>3 DEF CallsTyped, RegsTyped, WellTyped, Succeeded
<1>5. HeldInv'
  BY DEF Called, Kept, HeldInv
<1> QED  BY <1>4, <1>5, KernelStepTyped DEF Called

LEMMA SplitTyped ==
  ASSUME NEW descriptions \in [Ofd -> Description], NEW copied
  PROVE  /\ Split(descriptions, copied) \in [Ofd -> Description]
         /\ \A o \in Ofd : /\ Split(descriptions, copied)[o].name = descriptions[o].name
                           /\ Split(descriptions, copied)[o].write = descriptions[o].write
                           /\ Split(descriptions, copied)[o].followed = descriptions[o].followed
                           /\ Split(descriptions, copied)[o].peak = descriptions[o].peak
<1>1. ASSUME NEW o \in Ofd
      PROVE  /\ Split(descriptions, copied)[o] \in Description
             /\ Split(descriptions, copied)[o].name = descriptions[o].name
             /\ Split(descriptions, copied)[o].write = descriptions[o].write
             /\ Split(descriptions, copied)[o].followed = descriptions[o].followed
             /\ Split(descriptions, copied)[o].peak = descriptions[o].peak
  <2> DEFINE b == descriptions[o].split \/ o \in copied
  <2>1. b \in BOOLEAN /\ Split(descriptions, copied)[o] = [descriptions[o] EXCEPT !.split = b]
    BY DEF Split
  <2>2. descriptions[o] \in Description
    OBVIOUS
  <2> HIDE DEF b
  <2> QED  BY <2>1, <2>2 DEF Description
<1> QED  BY <1>1 DEF Split

LEMMA ForkTyped ==
  ASSUME TypedInv, ThreadInv, NEW p \in Pid, NEW child \in Pid, Fork(p, child),
         UNCHANGED <<contextVars, unlinked>>
  PROVE  TypedInv'
<1> DEFINE inherited == {kfds[p][fd].ofd : fd \in {f \in Fd : Writable(p, f)}}
           s == [Running EXCEPT !.event = "fork", !.child = child]
           born == [Absent EXCEPT !.event = "born"]
<1>1. s.event = "fork" /\ born.event = "born"
  BY Events
<1>2. /\ kfds' = [kfds EXCEPT ![child] = kfds[p]]
      /\ ofds' = Split(ofds, inherited)
      /\ stop' = [stop EXCEPT ![p] = s, ![child] = born]
      /\ group' = [group EXCEPT ![child] = child]
      /\ UNCHANGED <<length, size, unlinked, use, struck>>
  BY DEF Fork, files
<1> HIDE DEF s, born, inherited
<1>3. /\ ofds' \in [Ofd -> Description]
      /\ \A o \in Ofd : ofds'[o].name = ofds[o].name
  BY <1>2, SplitTyped DEF TypedInv, KernelTyped
<1>4. KernelTyped'
  BY <1>2, <1>3 DEF TypedInv, KernelTyped
<1>5. HeldInv'
  <2>1. \A q \in Pid : kfds'[q] = IF q = child THEN kfds[p] ELSE kfds[q]
    BY <1>2 DEF TypedInv, KernelTyped
  <2>2. \A q \in Pid, fd \in Fd : kfds[q][fd].ofd \in Ofd \cup {None}
    BY DEF TypedInv, KernelTyped
  <2>3. \A q \in Pid, fd \in Fd : kfds[q][fd].ofd # None => ofds'[kfds[q][fd].ofd].name # None
    BY <1>3, <2>2 DEF TypedInv, HeldInv
  <2> QED  BY <2>1, <2>3 DEF HeldInv
<1>6. \A q \in Pid : stop'[q] = IF q = child THEN born ELSE IF q = p THEN s ELSE stop[q]
  BY <1>2 DEF ThreadInv
<1>7. \A q \in Pid : stop'[q] = stop[q] \/ stop'[q].event # "syscall"
  BY <1>1, <1>6
<1>8. CallsTyped'
  BY <1>7, NoCallTyped DEF TypedInv
<1> QED  BY <1>4, <1>5, <1>8, KernelStepTyped DEF contextVars

LEMMA CloneTyped ==
  ASSUME TypedInv, ThreadInv, NEW p \in Pid, NEW thread \in Pid, Clone(p, thread),
         group[p] \in Pid, UNCHANGED contextVars
  PROVE  TypedInv'
<1> DEFINE s == [Running EXCEPT !.event = "clone", !.child = thread]
           born == [Absent EXCEPT !.event = "born"]
<1>1. s.event = "clone" /\ born.event = "born"
  BY Events
<1>2. /\ stop' = [stop EXCEPT ![p] = s, ![thread] = born]
      /\ group' = [group EXCEPT ![thread] = group[p]]
      /\ UNCHANGED <<length, size, unlinked, use, struck, kfds, ofds>>
  BY DEF Clone, files
<1> HIDE DEF s, born
<1>3. KernelTyped' /\ HeldInv'
  BY <1>2 DEF TypedInv, KernelTyped, HeldInv
<1>4. \A q \in Pid : stop'[q] = stop[q] \/ stop'[q].event # "syscall"
  BY <1>1, <1>2 DEF ThreadInv
<1>5. CallsTyped'
  BY <1>4, NoCallTyped DEF TypedInv
<1> QED  BY <1>3, <1>5, KernelStepTyped

\* The descriptors change in a way that leaves entries that are open as they were.
LEMMA DescriptorsTyped ==
  ASSUME KernelTyped, HeldInv, NEW fds \in Entries, NEW descriptions \in [Ofd -> Description],
         SetDescriptors(fds, descriptions), UNCHANGED <<files, use, group>>, struck' \subseteq Pid,
         \A o \in Ofd : descriptions[o].name = ofds[o].name,
         \A q \in Pid, fd \in Fd : fds[q][fd].ofd # None => \E a \in Fd : fds[q][fd].ofd = kfds[q][a].ofd
  PROVE  KernelTyped' /\ HeldInv'
<1>1. /\ kfds' = fds /\ ofds' \in [Ofd -> Description]
      /\ \A q \in Pid, fd \in Fd :
           fds[q][fd].ofd # None => ofds'[fds[q][fd].ofd] = descriptions[fds[q][fd].ofd]
  BY DescriptorsSet
<1>2. KernelTyped'
  BY <1>1 DEF KernelTyped, Entries, files
<1>3. \A q \in Pid, fd \in Fd : kfds[q][fd].ofd \in Ofd \cup {None}
  BY DEF KernelTyped
<1>4. ASSUME NEW q \in Pid, NEW fd \in Fd, kfds'[q][fd].ofd # None
      PROVE  ofds'[kfds'[q][fd].ofd].name # None
  <2>1. PICK a \in Fd : fds[q][fd].ofd = kfds[q][a].ofd
    BY <1>1, <1>4
  <2>2. kfds[q][a].ofd \in Ofd /\ ofds[kfds[q][a].ofd].name # None
    BY <1>1, <1>3, <1>4, <2>1 DEF HeldInv
  <2> QED  BY <1>1, <1>4, <2>1, <2>2
<1>5. HeldInv'
  BY <1>4 DEF HeldInv
<1> QED  BY <1>2, <1>5

LEMMA ExecTyped ==
  ASSUME TypedInv, ThreadInv, NEW p \in Pid, Exec(p), UNCHANGED contextVars
  PROVE  TypedInv'
<1> DEFINE table == [fd \in Fd |-> IF kfds[p][fd].cloexec THEN Closed ELSE kfds[p][fd]]
           dups == {o \in Ofd : ofds[o].write /\ \E a, b \in Fd :
                                  a # b /\ table[a].ofd = o /\ table[b].ofd = o}
           fds == [kfds EXCEPT ![p] = table]
           descriptions == Split(ofds, dups)
<1>1. /\ SetDescriptors(fds, descriptions)
      /\ UNCHANGED <<files, use, group, struck>>
      /\ stop' = [stop EXCEPT ![p] = [Running EXCEPT !.event = "exec"]]
  BY DEF Exec
<1>2. table \in [Fd -> [ofd : Ofd \cup {None}, cloexec : BOOLEAN]]
  BY FreeTyped DEF TypedInv, KernelTyped
<1>3. \A fd \in Fd : table[fd] = kfds[p][fd] \/ table[fd].ofd = None
  BY DEF Closed
<1> HIDE DEF table, dups
<1>4. fds \in Entries
  BY <1>2 DEF TypedInv, KernelTyped, Entries
<1>5. /\ descriptions \in [Ofd -> Description]
      /\ \A o \in Ofd : descriptions[o].name = ofds[o].name
  BY SplitTyped DEF TypedInv, KernelTyped
<1>6. \A q \in Pid, fd \in Fd : fds[q][fd].ofd # None => \E a \in Fd : fds[q][fd].ofd = kfds[q][a].ofd
  BY <1>3 DEF TypedInv, KernelTyped
<1> HIDE DEF fds, descriptions
<1>7. KernelTyped' /\ HeldInv'
  BY <1>1, <1>4, <1>5, <1>6, DescriptorsTyped DEF TypedInv, KernelTyped
<1>8. \A q \in Pid : stop'[q] = stop[q] \/ stop'[q].event # "syscall"
  BY <1>1, Events DEF ThreadInv
<1>9. CallsTyped'
  BY <1>8, NoCallTyped DEF TypedInv
<1> QED  BY <1>7, <1>9, KernelStepTyped

LEMMA ExitTyped ==
  ASSUME TypedInv, ThreadInv, NEW p \in Pid, Exit(p), group[p] \in Pid, UNCHANGED contextVars
  PROVE  TypedInv'
<1> DEFINE fds == [kfds EXCEPT ![group[p]] = AllClosed]
<1>1. /\ SetDescriptors(fds, ofds)
      /\ UNCHANGED <<files, use, group>> /\ struck' \subseteq struck
      /\ \A q \in Pid : stop'[q] = stop[q] \/ stop'[q] = [Running EXCEPT !.event = "exit"]
  BY DEF Exit
<1>2. AllClosed \in [Fd -> [ofd : Ofd \cup {None}, cloexec : BOOLEAN]]
  BY FreeTyped DEF AllClosed
<1>3. \A fd \in Fd : AllClosed[fd].ofd = None
  BY DEF AllClosed, Closed
<1>4. fds \in Entries
  BY <1>2 DEF TypedInv, KernelTyped, Entries
<1>5. \A q \in Pid, fd \in Fd : fds[q][fd].ofd # None => \E a \in Fd : fds[q][fd].ofd = kfds[q][a].ofd
  BY <1>3 DEF TypedInv, KernelTyped
<1> HIDE DEF fds
<1>6. ofds \in [Ofd -> Description] /\ struck' \subseteq Pid
  BY <1>1 DEF TypedInv, KernelTyped
<1>7. KernelTyped' /\ HeldInv'
  BY <1>1, <1>4, <1>5, <1>6, DescriptorsTyped DEF TypedInv
<1>8. [Running EXCEPT !.event = "exit"].event # "syscall"
  BY Events
<1>9. \A q \in Pid : stop'[q] = stop[q] \/ stop'[q].event # "syscall"
  BY <1>1, <1>8
<1>10. CallsTyped'
  BY <1>9, NoCallTyped DEF TypedInv
<1> QED  BY <1>7, <1>10, KernelStepTyped

LEMMA ThreadExitTyped ==
  ASSUME TypedInv, ThreadInv, NEW p \in Pid, ThreadExit(p), UNCHANGED contextVars
  PROVE  TypedInv'
<1>1. /\ UNCHANGED <<length, size, unlinked, use, group, struck, kfds, ofds>>
      /\ stop' = [stop EXCEPT ![p] = [Running EXCEPT !.event = "exit"]]
  BY DEF ThreadExit, files
<1>2. KernelTyped' /\ HeldInv'
  BY <1>1 DEF TypedInv, KernelTyped, HeldInv
<1>3. \A q \in Pid : stop'[q] = stop[q] \/ stop'[q].event # "syscall"
  BY <1>1, Events DEF ThreadInv
<1>4. CallsTyped'
  BY <1>3, NoCallTyped DEF TypedInv
<1> QED  BY <1>2, <1>4, KernelStepTyped

LEMMA UnlinkTyped ==
  ASSUME TypedInv, NEW name \in Name, Unlink(name), UNCHANGED contextVars
  PROVE  TypedInv'
<1>1. /\ unlinked' = unlinked \cup {name} /\ length' = [length EXCEPT ![name] = 0]
      /\ UNCHANGED <<size, use, group, struck, kfds, ofds, stop>>
  BY DEF Unlink
<1>2. KernelTyped' /\ HeldInv'
  BY <1>1, LengthsAreSizes DEF TypedInv, KernelTyped, HeldInv
<1>3. CallsTyped'
  BY <1>1, NoCallTyped DEF TypedInv
<1> QED  BY <1>2, <1>3, KernelStepTyped


------------------------------------------------------------------------------
(* What handling a call does to the table *)

Moves == {"write", "pwrite64", "fallocate", "ftruncate", "lseek"}

Handled(r, table, new) ==
  LET cleared == Cleared(table, {r.ret})
      shared == Shared(cleared, r.fd, r.ret)
  IN  \/ r.nr \in Moves /\ new = table
      \/ /\ r.nr \in Moves /\ r.fd \in OpenSlots(table)
         /\ \E file \in TFileState : /\ file.Flags = FileAt(table, r.fd).Flags
                                     /\ new = Updated(table, r.fd, file)
      \/ r.nr \in {"F_SETFL", "F_SETFD"} /\ r.fd \notin OpenSlots(table) /\ new = table
      \/ /\ r.nr \in {"F_SETFL", "F_SETFD"} /\ r.fd \in OpenSlots(table)
         /\ \E file \in TFileState : file.Flags = r.flags /\ new = Updated(table, r.fd, file)
      \/ r.nr = "open" /\ ~Follows(r) /\ new = table
      \/ Follows(r) /\ \E file \in TFileState : file.Flags = r.flags /\ new = Opened(table, r.ret, file)
      \/ r.nr = "close" /\ new = Cleared(table, {r.fd})
      \/ r.nr \in Dups /\ r.fd = r.ret /\ new = table
      \/ r.nr \in Dups /\ r.fd # r.ret /\ r.fd \notin OpenSlots(table) /\ new = cleared
      \/ r.nr \in Dups /\ r.fd # r.ret /\ r.fd \in OpenSlots(table) /\ new = shared
      \/ /\ r.nr \in {"dup3", "F_DUPFD_CLOEXEC"} /\ r.fd # r.ret /\ r.fd \in OpenSlots(table)
         /\ \E file \in TFileState :
              /\ IsCloexecSet(file) <=> r.nr = "F_DUPFD_CLOEXEC" \/ "O_CLOEXEC" \in r.flags
              /\ new = Updated(shared, r.ret, file)

\* Such calls have succeeded.
LEMMA NumbersSucceed ==
  ASSUME NEW r, RegsTyped(r), r.nr \in NewFd \cup {"F_SETFD", "F_SETFL"}
  PROVE  Succeeded(r)
<1>1. 0 \in Fd /\ \A fd \in Fd : IntNonNegative(fd)
  BY AccountingAssumption, Zenon
<1> QED  BY <1>1 DEF RegsTyped, NewFd, Succeeded

LEMMA SetFileHandled ==
  ASSUME ContextTyped, NEW p \in Registered, NEW fd, NEW file,
         fd \in OpenSlots(Table(p)) => file \in TFileState, SetFile(p, fd, file)
  PROVE  \/ Fds' = [Fds EXCEPT ![ProcMap[p]] = Table(p)] /\ fd \notin OpenSlots(Table(p))
         \/ /\ fd \in OpenSlots(Table(p)) /\ file \in TFileState
            /\ Fds' = [Fds EXCEPT ![ProcMap[p]] = Updated(Table(p), fd, file)]
BY DEF SetFile, SetTable

LEMMA MoveHandled ==
  ASSUME ContextTyped, NEW p \in Registered, NEW r, RegsTyped(r), r.nr \in Moves, SyscallExit(p, r)
  PROVE  \E new \in SUBSET Entry :
           Fds' = [Fds EXCEPT ![ProcMap[p]] = new] /\ Handled(r, Table(p), new)
<1>1. Table(p) \in SUBSET Entry /\ ProcMap[p] \in ProcState
  BY TableOfRegistered
<1>2. CASE ~Succeeded(r)
  <2>1. Fds' = [Fds EXCEPT ![ProcMap[p]] = Table(p)]
    BY <1>1, <1>2 DEF SyscallExit, contextVars, Table, ContextTyped
  <2> QED  BY <1>1, <2>1 DEF Handled
<1>3. CASE Succeeded(r)
  <2>1. \E file : /\ SetFile(p, r.fd, file)
                  /\ r.fd \in OpenSlots(Table(p)) =>
                       file \in TFileState /\ file.Flags = FileOf(p, r.fd).Flags
    <3>1. /\ r.nr \in {"write", "lseek"} => r.ret \in Size
          /\ r.nr = "pwrite64" => r.ret \in Size /\ r.arg \in Size
          /\ r.nr \in {"fallocate", "ftruncate"} => r.arg \in Size
      BY <1>3 DEF RegsTyped, WellTyped
    <3>2. \A file \in TFileState : \A a, b :
            /\ Enroll(file, a).Flags = file.Flags
            /\ EnrollNoShift(file, a, b).Flags = file.Flags
            /\ SetCurrPos(file, a).Flags = file.Flags
      BY DEF Enroll, EnrollNoShift, SetCurrPos, TFileState
    <3>3. r.fd \in OpenSlots(Table(p)) => FileOf(p, r.fd) \in TFileState
      BY <1>1, FileAtTyped DEF FileOf
    <3>4. 0 \in Size
      BY SizeModulusAssumption DEF Size
    <3>5. CASE r.nr = "write"
      <4>1. SetFile(p, r.fd, Enroll(FileOf(p, r.fd), r.ret))
        BY <1>3, <3>5 DEF SyscallExit, OpWriteChangeOffset
      <4>2. r.fd \in OpenSlots(Table(p)) => Enroll(FileOf(p, r.fd), r.ret) \in TFileState
        BY <3>1, <3>3, <3>5, FileStateTyped
      <4> QED  BY <3>2, <3>3, <4>1, <4>2
    <3>6. CASE r.nr = "pwrite64"
      <4>1. SetFile(p, r.fd, EnrollNoShift(FileOf(p, r.fd), r.ret, r.arg))
        BY <1>3, <3>6 DEF SyscallExit, OpWriteNoOffsetChange
      <4>2. r.fd \in OpenSlots(Table(p)) =>
              EnrollNoShift(FileOf(p, r.fd), r.ret, r.arg) \in TFileState
        BY <3>1, <3>3, <3>6, FileStateTyped
      <4> QED  BY <3>2, <3>3, <4>1, <4>2
    <3>7. CASE r.nr \in {"fallocate", "ftruncate"}
      <4>1. SetFile(p, r.fd, EnrollNoShift(FileOf(p, r.fd), r.arg, 0))
        BY <1>3, <3>7 DEF SyscallExit, OpResize
      <4>2. r.fd \in OpenSlots(Table(p)) =>
              EnrollNoShift(FileOf(p, r.fd), r.arg, 0) \in TFileState
        BY <3>1, <3>3, <3>4, <3>7, FileStateTyped
      <4> QED  BY <3>2, <3>3, <4>1, <4>2
    <3>8. CASE r.nr = "lseek"
      <4>1. SetFile(p, r.fd, SetCurrPos(FileOf(p, r.fd), r.ret))
        BY <1>3, <3>8 DEF SyscallExit, OpSeek
      <4>2. r.fd \in OpenSlots(Table(p)) => SetCurrPos(FileOf(p, r.fd), r.ret) \in TFileState
        BY <3>1, <3>3, <3>8, FileStateTyped
      <4> QED  BY <3>2, <3>3, <4>1, <4>2
    <3> QED  BY <3>5, <3>6, <3>7, <3>8 DEF Moves
  <2>2. PICK file : /\ SetFile(p, r.fd, file)
                    /\ r.fd \in OpenSlots(Table(p)) =>
                         file \in TFileState /\ file.Flags = FileOf(p, r.fd).Flags
    BY <2>1
  <2>3. CASE Fds' = [Fds EXCEPT ![ProcMap[p]] = Table(p)] /\ r.fd \notin OpenSlots(Table(p))
    BY <1>1, <2>3 DEF Handled
  <2>4. CASE /\ r.fd \in OpenSlots(Table(p)) /\ file \in TFileState
             /\ Fds' = [Fds EXCEPT ![ProcMap[p]] = Updated(Table(p), r.fd, file)]
    <3>1. Updated(Table(p), r.fd, file) \in SUBSET Entry
      BY <1>1, <2>4 DEF Updated, Entry
    <3>2. Handled(r, Table(p), Updated(Table(p), r.fd, file))
      BY <2>2, <2>4 DEF Handled, FileOf
    <3> QED  BY <2>4, <3>1, <3>2
  <2> QED  BY <2>2, <2>3, <2>4, SetFileHandled
<1> QED  BY <1>2, <1>3

LEMMA FlagHandled ==
  ASSUME ContextTyped, NEW p \in Registered, NEW r, RegsTyped(r), r.nr \in {"F_SETFL", "F_SETFD"},
         SyscallExit(p, r)
  PROVE  \E new \in SUBSET Entry :
           Fds' = [Fds EXCEPT ![ProcMap[p]] = new] /\ Handled(r, Table(p), new)
<1>1. Table(p) \in SUBSET Entry /\ ProcMap[p] \in ProcState
  BY TableOfRegistered
<1>2. Succeeded(r)
  BY NumbersSucceed
<1>3. SetFile(p, r.fd, SetFlags(FileOf(p, r.fd), r.flags)) /\ r.flags \in SUBSET FlagBit
  BY <1>2 DEF SyscallExit, OpSetFlag, RegsTyped, WellTyped
<1> DEFINE file == SetFlags(FileOf(p, r.fd), r.flags)
<1>4. r.fd \in OpenSlots(Table(p)) => file \in TFileState /\ file.Flags = r.flags
  <2>1. r.fd \in OpenSlots(Table(p)) => FileOf(p, r.fd) \in TFileState
    BY <1>1, FileAtTyped DEF FileOf
  <2> QED  BY <1>3, <2>1 DEF SetFlags, TFileState
<1>5. SetFile(p, r.fd, file)
  BY <1>3
<1> HIDE DEF file
<1>6. CASE Fds' = [Fds EXCEPT ![ProcMap[p]] = Table(p)] /\ r.fd \notin OpenSlots(Table(p))
  BY <1>1, <1>6 DEF Handled
<1>7. CASE /\ r.fd \in OpenSlots(Table(p)) /\ file \in TFileState
           /\ Fds' = [Fds EXCEPT ![ProcMap[p]] = Updated(Table(p), r.fd, file)]
  <2>1. Updated(Table(p), r.fd, file) \in SUBSET Entry
    BY <1>1, <1>7 DEF Updated, Entry
  <2>2. Handled(r, Table(p), Updated(Table(p), r.fd, file))
    BY <1>4, <1>7 DEF Handled
  <2> QED  BY <1>7, <2>1, <2>2
<1> QED  BY <1>4, <1>5, <1>6, <1>7, SetFileHandled

LEMMA OpenHandled ==
  ASSUME ContextTyped, NEW p \in Registered, NEW r, RegsTyped(r), r.nr \in {"open", "creat"},
         SyscallExit(p, r)
  PROVE  \E new \in SUBSET Entry :
           Fds' = [Fds EXCEPT ![ProcMap[p]] = new] /\ Handled(r, Table(p), new)
<1>1. Table(p) \in SUBSET Entry /\ ProcMap[p] \in ProcState
  BY TableOfRegistered
<1>2. Succeeded(r)
  BY NumbersSucceed DEF NewFd
<1>3. r.ret \in Fd /\ r.name \in Name /\ r.flags \in SUBSET FlagBit
  BY <1>2 DEF RegsTyped, WellTyped
<1>4. CASE Follows(r)
  <2> DEFINE file == NewFileState(r.name, r.flags, length[r.name])
             new == Opened(Table(p), r.ret, file)
  <2>1. Fds' = [Fds EXCEPT ![ProcMap[p]] = new]
    BY <1>2, <1>4 DEF SyscallExit, OpOpenWriteFile, OpOpenFile, SetTable, Follows
  <2>2. file \in TFileState /\ file.Flags = r.flags
    BY <1>3, NewFileStateTyped DEF ContextTyped, NewFileState
  <2> HIDE DEF file
  <2>3. new \in SUBSET Entry
    BY <1>1, <1>3, <2>2, TableTyped
  <2>4. Handled(r, Table(p), new)
    BY <1>4, <2>2 DEF Handled
  <2> HIDE DEF new
  <2> QED  BY <2>1, <2>3, <2>4
<1>5. CASE ~Follows(r)
  <2>1. Fds' = [Fds EXCEPT ![ProcMap[p]] = Table(p)]
    BY <1>1, <1>2, <1>5 DEF SyscallExit, OpOpenFile, Follows, contextVars, Table, ContextTyped
  <2> QED  BY <1>1, <1>5, <2>1 DEF Handled, Follows
<1> QED  BY <1>4, <1>5

LEMMA DupHandled ==
  ASSUME ContextTyped, NEW p \in Registered, NEW r, RegsTyped(r), r.nr \in Dups, SyscallExit(p, r)
  PROVE  \E new \in SUBSET Entry :
           Fds' = [Fds EXCEPT ![ProcMap[p]] = new] /\ Handled(r, Table(p), new)
<1> DEFINE table == Table(p)
           cleared == Cleared(table, {r.ret})
           shared == Shared(cleared, r.fd, r.ret)
           flags == IF r.nr = "F_DUPFD_CLOEXEC" THEN {"O_CLOEXEC"} ELSE r.flags
           on == "O_CLOEXEC" \in flags
           file == SetCloexecFlag(FileAt(shared, r.ret), on)
           updated == Updated(shared, r.ret, file)
<1>1. table \in SUBSET Entry /\ ProcMap[p] \in ProcState
  BY TableOfRegistered
<1>2. Succeeded(r)
  BY NumbersSucceed DEF Dups
<1>3. r.ret \in Fd /\ (r.nr \in {"dup2", "dup3"} => r.arg = r.ret)
  BY DEF Dups, RegsTyped
<1>4. cleared \in SUBSET Entry
  BY <1>1, ClearedEntries
<1>5. shared \in SUBSET Entry
  <2> HIDE DEF cleared
  <2>1. \A e \in cleared : [e EXCEPT !.slots = @ \cup {r.ret}] \in Entry
    BY <1>3, <1>4 DEF Entry
  <2> QED  BY <1>4, <2>1 DEF Shared
<1>6. \/ DupOnto(p, r.fd, r.ret, shared)
      \/ r.nr \in {"dup3", "F_DUPFD_CLOEXEC"} /\ DupOnto(p, r.fd, r.ret, updated)
  <2>1. CASE r.nr \in {"dup", "F_DUPFD"}
    BY <1>2, <2>1 DEF SyscallExit, OpDup, OpDup2, Duplicated
  <2>2. CASE r.nr = "dup2"
    BY <1>2, <1>3, <2>2 DEF SyscallExit, OpDup2, Duplicated
  <2>3. CASE r.nr = "dup3"
    BY <1>2, <1>3, <2>3 DEF SyscallExit, OpDup3, Duplicated
  <2>4. CASE r.nr = "F_DUPFD_CLOEXEC"
    BY <1>2, <2>4 DEF SyscallExit, OpDup3, Duplicated
  <2> QED  BY <2>1, <2>2, <2>3, <2>4 DEF Dups, NewFd
<1>7. CASE r.fd = r.ret
  <2>1. Fds' = [Fds EXCEPT ![ProcMap[p]] = table]
    <3>1. Fds' = Fds
      BY <1>6, <1>7 DEF DupOnto, contextVars
    <3> QED  BY <1>1, <3>1 DEF Table, ContextTyped
  <2>2. Handled(r, Table(p), table)
    BY <1>7 DEF Handled
  <2> QED  BY <1>1, <2>1, <2>2
<1>8. CASE r.fd # r.ret /\ r.fd \notin OpenSlots(table)
  <2>1. r.fd \notin OpenSlots(cleared)
    BY <1>1, <1>8, ClearedSlots
  <2>2. Fds' = [Fds EXCEPT ![ProcMap[p]] = cleared]
    BY <1>6, <1>8, <2>1 DEF DupOnto, SetTable
  <2>3. Handled(r, Table(p), cleared)
    BY <1>8 DEF Handled
  <2> QED  BY <1>4, <2>2, <2>3
<1>9. CASE r.fd # r.ret /\ r.fd \in OpenSlots(table)
  <2>1. r.fd \in OpenSlots(cleared)
    BY <1>1, <1>9, ClearedSlots
  <2>2. CASE DupOnto(p, r.fd, r.ret, shared)
    <3>1. Fds' = [Fds EXCEPT ![ProcMap[p]] = shared]
      BY <1>9, <2>1, <2>2 DEF DupOnto, SetTable
    <3>2. Handled(r, Table(p), shared)
      BY <1>9 DEF Handled
    <3> QED  BY <1>5, <3>1, <3>2
  <2>3. CASE r.nr \in {"dup3", "F_DUPFD_CLOEXEC"} /\ DupOnto(p, r.fd, r.ret, updated)
    <3>1. Fds' = [Fds EXCEPT ![ProcMap[p]] = updated]
      BY <1>9, <2>1, <2>3 DEF DupOnto, SetTable
    <3>2. file \in TFileState /\ (IsCloexecSet(file) <=> on)
      <4>1. r.ret \in OpenSlots(shared)
        <5> HIDE DEF cleared
        <5> QED  BY <1>3, <1>4, <2>1, SharedSlots
      <4>2. FileAt(shared, r.ret) \in TFileState
        <5> HIDE DEF shared
        <5> QED  BY <1>5, <4>1, FileAtTyped
      <4> HIDE DEF shared
      <4> QED  BY <4>2 DEF SetCloexecFlag, TFileState, FlagBit, IsCloexecSet
    <3> HIDE DEF file
    <3>3. updated \in SUBSET Entry
      <4> HIDE DEF shared
      <4> QED  BY <1>5, <3>2 DEF Updated, Entry
    <3>4. IsCloexecSet(file) <=> r.nr = "F_DUPFD_CLOEXEC" \/ "O_CLOEXEC" \in r.flags
      BY <2>3, <3>2
    <3>5. Handled(r, Table(p), updated)
      BY <1>9, <2>3, <3>2, <3>4 DEF Handled
    <3> QED  BY <3>1, <3>3, <3>5
  <2> QED  BY <1>6, <2>2, <2>3
<1> QED  BY <1>7, <1>8, <1>9

\* What a call does to the tables.
LEMMA SyscallHandled ==
  ASSUME ContextTyped, UNCHANGED length, NEW p \in Registered, NEW r, RegsTyped(r), SyscallExit(p, r)
  PROVE  /\ ContextTyped' /\ UNCHANGED <<ProcMap, GroupLeaders>>
         /\ \E new \in SUBSET Entry :
              Fds' = [Fds EXCEPT ![ProcMap[p]] = new] /\ Handled(r, Table(p), new)
<1>1. ContextTyped' /\ UNCHANGED <<ProcMap, GroupLeaders>>
  BY SyscallExitTyped DEF RegsTyped
<1>2. r.nr \in Syscall
  BY DEF RegsTyped, WellTyped
<1>3. CASE r.nr = "close"
  <2> DEFINE new == Cleared(Table(p), {r.fd})
  <2>1. Fds' = [Fds EXCEPT ![ProcMap[p]] = new]
    BY <1>3 DEF SyscallExit, Succeeded, OpClose, SetTable
  <2>2. new \in SUBSET Entry
    BY TableOfRegistered, ClearedEntries
  <2>3. Handled(r, Table(p), new)
    BY <1>3 DEF Handled
  <2> QED  BY <1>1, <2>1, <2>2, <2>3
<1> QED
  BY <1>1, <1>2, <1>3, MoveHandled, FlagHandled, OpenHandled, DupHandled
  DEF Moves, Dups, NewFd, Syscall


\* The slots a call is about are the only ones that come to be open.
LEMMA HandledSlots ==
  ASSUME NEW r, RegsTyped(r), NEW table \in SUBSET Entry, Slotted(table), NEW new,
         Handled(r, table, new)
  PROVE  Slotted(new) /\ OpenSlots(new) \subseteq OpenSlots(table) \cup Changes(r)
<1> DEFINE cleared == Cleared(table, {r.ret})
           shared == Shared(cleared, r.fd, r.ret)
<1>1. r.nr \in Syscall /\ (r.nr \in NewFd => r.ret \in Fd)
  BY DEF RegsTyped, WellTyped
<1>2. /\ r.nr \in Moves \cup {"F_SETFL", "F_SETFD"} => r.nr \notin NewFd
      /\ Follows(r) => r.nr \in NewFd /\ Changes(r) = {r.ret}
      /\ r.nr \in Dups => r.nr \in NewFd
      /\ r.nr \in Dups /\ r.fd # r.ret => Changes(r) = {r.ret}
  BY DEF Moves, NewFd, Dups, Follows, Changes
<1>3. CASE new = table
  BY <1>3
<1>4. CASE \E file \in TFileState : new = Updated(table, r.fd, file) /\ r.fd \in OpenSlots(table)
  <2>1. PICK file \in TFileState : new = Updated(table, r.fd, file) /\ r.fd \in OpenSlots(table)
    BY <1>4
  <2>2. r.fd \in Fd
    BY <2>1 DEF OpenSlots, Entry
  <2>3. Slotted(new)
    BY <2>1, <2>2, SlottedTables
  <2>4. OpenSlots(new) = OpenSlots(table)
    BY <2>1, UpdatedSlots
  <2> QED  BY <2>3, <2>4
<1>5. CASE Follows(r) /\ \E file \in TFileState : new = Opened(table, r.ret, file)
  <2>1. PICK file \in TFileState : new = Opened(table, r.ret, file)
    BY <1>5
  <2>2. Slotted(new)
    BY <1>1, <1>2, <1>5, <2>1, SlottedTables
  <2>3. new = cleared \cup {[slots |-> {r.ret}, file |-> file]}
    BY <2>1 DEF Opened
  <2>4. OpenSlots(new) = OpenSlots(cleared) \cup {r.ret}
    <3>1. \A e : e \in new <=> e \in cleared \/ e = [slots |-> {r.ret}, file |-> file]
      BY <2>3
    <3>2. [slots |-> {r.ret}, file |-> file].slots = {r.ret}
      OBVIOUS
    <3> HIDE DEF cleared
    <3>3. \A a : a \in OpenSlots(new) <=> a \in OpenSlots(cleared) \/ a = r.ret
      BY <3>1, <3>2 DEF OpenSlots
    <3> QED  BY <3>3
  <2>5. OpenSlots(cleared) = OpenSlots(table) \ {r.ret}
    BY ClearedSlots
  <2> QED  BY <1>2, <1>5, <2>2, <2>4, <2>5
<1>6. CASE r.nr = "close" /\ new = Cleared(table, {r.fd})
  <2>1. r.fd \in Fd
    BY <1>6 DEF RegsTyped
  <2>2. Slotted(new)
    BY <1>6, <2>1, SlottedTables
  <2>3. OpenSlots(new) = OpenSlots(table) \ {r.fd}
    BY <1>6, ClearedSlots
  <2> QED  BY <2>2, <2>3
<1>7. ASSUME r.nr \in Dups, r.fd # r.ret
      PROVE  /\ Slotted(cleared) /\ cleared \in SUBSET Entry
             /\ OpenSlots(cleared) = OpenSlots(table) \ {r.ret}
             /\ r.fd \in OpenSlots(table) =>
                  r.fd \in OpenSlots(cleared) /\ r.ret \notin OpenSlots(cleared)
  <2>1. OpenSlots(cleared) = OpenSlots(table) \ {r.ret}
    BY ClearedSlots
  <2>2. Slotted(cleared)
    BY <1>1, <1>2, <1>7, SlottedTables
  <2>3. cleared \in SUBSET Entry
    BY ClearedEntries
  <2> QED  BY <1>7, <2>1, <2>2, <2>3
<1> HIDE DEF cleared
<1>8. ASSUME r.nr \in Dups, r.fd # r.ret, r.fd \in OpenSlots(table)
      PROVE  /\ Slotted(shared) /\ shared \in SUBSET Entry
             /\ OpenSlots(shared) = OpenSlots(table) \cup {r.ret}
  <2>1. Slotted(shared)
    BY <1>1, <1>2, <1>7, <1>8, SlottedTables
  <2>2. OpenSlots(shared) = OpenSlots(cleared) \cup {r.ret}
    BY <1>1, <1>2, <1>7, <1>8, SharedSlots
  <2>3. shared \in SUBSET Entry
    <3>1. r.ret \in Fd
      BY <1>1, <1>2, <1>8
    <3>2. \A e \in cleared : [e EXCEPT !.slots = @ \cup {r.ret}] \in Entry
      BY <1>7, <1>8, <3>1 DEF Entry
    <3> QED  BY <1>7, <1>8, <3>2 DEF Shared
  <2> QED  BY <1>7, <1>8, <2>1, <2>2, <2>3
<1> HIDE DEF shared
<1>9. CASE r.nr \in Dups /\ r.fd # r.ret /\ new = cleared
  BY <1>7, <1>9
<1>10. CASE r.nr \in Dups /\ r.fd # r.ret /\ r.fd \in OpenSlots(table) /\ new = shared
  BY <1>2, <1>8, <1>10
<1>11. CASE /\ r.nr \in Dups /\ r.fd # r.ret /\ r.fd \in OpenSlots(table)
            /\ \E file \in TFileState : new = Updated(shared, r.ret, file)
  <2>1. PICK file \in TFileState : new = Updated(shared, r.ret, file)
    BY <1>11
  <2>2. Slotted(new)
    BY <1>1, <1>2, <1>8, <1>11, <2>1, SlottedTables
  <2>3. OpenSlots(new) = OpenSlots(shared)
    BY <1>8, <1>11, <2>1, UpdatedSlots
  <2> QED  BY <1>2, <1>8, <1>11, <2>2, <2>3
<1>12. \/ new = table
       \/ \E file \in TFileState : new = Updated(table, r.fd, file) /\ r.fd \in OpenSlots(table)
       \/ Follows(r) /\ \E file \in TFileState : new = Opened(table, r.ret, file)
       \/ r.nr = "close" /\ new = Cleared(table, {r.fd})
       \/ r.nr \in Dups /\ r.fd # r.ret /\ new = cleared
       \/ r.nr \in Dups /\ r.fd # r.ret /\ r.fd \in OpenSlots(table) /\ new = shared
       \/ /\ r.nr \in Dups /\ r.fd # r.ret /\ r.fd \in OpenSlots(table)
          /\ \E file \in TFileState : new = Updated(shared, r.ret, file)
  <2>1. {"dup3", "F_DUPFD_CLOEXEC"} \subseteq Dups
    BY DEF Dups, NewFd
  <2> QED  BY <2>1 DEF Handled, cleared, shared
<1> QED  BY <1>3, <1>4, <1>5, <1>6, <1>9, <1>10, <1>11, <1>12

LEMMA FitsMore ==
  ASSUME NEW table, NEW fds, NEW writable, NEW busy, NEW flags, NEW busier, NEW more,
         Fits(table, fds, writable, busy, flags), busy \subseteq busier, flags \subseteq more
  PROVE  Fits(table, fds, writable, busier, more)
BY DEF Fits

\* writable holds descriptors that are open, and all of one description.
Sound(fds, writable) ==
  /\ writable \subseteq Fd /\ \A a \in writable : fds[a].ofd # None
  /\ \A a \in writable, b \in Fd : fds[a].ofd = fds[b].ofd => b \in writable

LEMMA HandledFits ==
  ASSUME NEW r, RegsTyped(r), NEW table \in SUBSET Entry, Slotted(table), NEW new,
         Handled(r, table, new), NEW fds, NEW writable, NEW busy, NEW flags,
         Fits(table, fds, writable, busy, flags), busy \subseteq flags,
         Done(r, table, fds, writable), Sound(fds, writable), Agreeing(fds),
         Slots(r) \cap busy \subseteq Changes(r),
         Slots(r) \cap flags \subseteq Changes(r) \cup Flagged(r)
  PROVE  Fits(new, fds, writable, busy \ Changes(r), flags \ (Changes(r) \cup Flagged(r)))
<1> DEFINE cleared == Cleared(table, {r.ret})
           shared == Shared(cleared, r.fd, r.ret)
           F == flags \ (Changes(r) \cup Flagged(r))
           SetsFlag == r.nr \in {"F_SETFL", "F_SETFD"}
<1>1. /\ r.nr \in NewFd => r.ret \in Fd
      /\ r.nr \notin {"open", "creat"} => r.fd \in Fd /\ r.fd \in Slots(r)
      /\ OpenSlots(table) \subseteq Fd
  BY DEF RegsTyped, Slots, OpenSlots, Entry
<1>2. CASE r.nr \in Moves
  <2>1. Changes(r) = {} /\ Flagged(r) = {} /\ ~Follows(r) /\ r.nr \notin Dups
    BY <1>2 DEF Moves, Changes, Flagged, NewFd, Follows, Dups
  <2>2. Fits(new, fds, writable, busy, flags)
    <3>1. CASE new = table
      BY <3>1
    <3>2. CASE \E file \in TFileState : /\ file.Flags = FileAt(table, r.fd).Flags
                                        /\ new = Updated(table, r.fd, file)
                                        /\ r.fd \in OpenSlots(table)
      BY <3>2, FitsMoved
    <3> QED  BY <1>2, <2>1, <3>1, <3>2 DEF Handled, Moves, Dups, NewFd
  <2> QED  BY <2>1, <2>2
<1>3. CASE SetsFlag
  <2>1. /\ Changes(r) = {} /\ Flagged(r) \subseteq {r.fd} /\ ~Follows(r)
        /\ r.nr \notin Dups \cup Moves /\ r.nr \notin {"open", "creat", "close"}
    BY <1>3 DEF Moves, Changes, Flagged, NewFd, Follows, Dups
  <2>2. r.fd \notin busy
    BY <1>1, <2>1
  <2>3. busy \ Changes(r) = busy /\ flags \ {r.fd} \subseteq F /\ busy \ {r.fd} \subseteq busy
    BY <2>1
  <2>4. "O_CLOEXEC" \notin r.flags /\ ~fds[r.fd].cloexec
    BY <1>3 DEF Done
  <2>5. CASE r.fd \notin OpenSlots(table) /\ new = table
    <3>1. r.fd \notin writable
      BY <1>1, <2>1, <2>2, <2>5 DEF Fits
    <3>2. Fits(table, fds, writable, busy \ {r.fd}, flags \ {r.fd})
      BY <2>5, <3>1, FitsUntouched
    <3> HIDE DEF F
    <3> QED  BY <2>3, <2>5, <3>2, FitsMore DEF F
  <2>6. CASE /\ r.fd \in OpenSlots(table)
             /\ \E file \in TFileState : file.Flags = r.flags /\ new = Updated(table, r.fd, file)
    <3>1. PICK file \in TFileState : file.Flags = r.flags /\ new = Updated(table, r.fd, file)
      BY <2>6
    <3>2. r.fd \in writable /\ fds[r.fd].ofd # None
      BY <1>1, <2>1, <2>2, <2>6 DEF Fits, Sound
    <3>3. IsCloexecSet(file) <=> fds[r.fd].cloexec
      BY <2>4, <3>1 DEF IsCloexecSet
    <3>4. Fits(new, fds, writable, busy, flags \ {r.fd})
      BY <2>2, <2>6, <3>1, <3>2, <3>3, FitsFlagged
    <3> HIDE DEF F
    <3> QED  BY <2>3, <3>4, FitsMore DEF F
  <2> QED  BY <1>3, <2>1, <2>5, <2>6 DEF Handled
<1>4. CASE r.nr \in {"open", "creat"}
  <2>1. /\ Changes(r) = {r.ret} /\ Flagged(r) = {}
        /\ r.nr \notin Dups \cup Moves /\ r.nr \notin {"F_SETFL", "F_SETFD", "close"}
    BY <1>4 DEF Moves, Changes, Flagged, NewFd, Dups
  <2>2. r.ret \in Fd /\ r.ret \notin OpenSlots(table) /\ (Follows(r) <=> r.ret \in writable)
    BY <1>1, <1>4 DEF Done, NewFd
  <2>3. CASE ~Follows(r)
    <3>1. new = table
      BY <1>4, <2>1, <2>3 DEF Handled, Follows
    <3>2. Fits(table, fds, writable, busy \ {r.ret}, flags \ {r.ret})
      BY <2>2, <2>3, FitsUntouched
    <3> QED  BY <2>1, <3>1, <3>2
  <2>4. CASE Follows(r)
    <3>1. PICK file \in TFileState : file.Flags = r.flags /\ new = Opened(table, r.ret, file)
      BY <1>4, <2>1, <2>4 DEF Handled
    <3>2. IsCloexecSet(file) <=> fds[r.ret].cloexec
      BY <1>4, <3>1 DEF IsCloexecSet, Done
    <3>3. Fits(new, fds, writable, busy \ {r.ret}, flags \ {r.ret})
      BY <2>2, <2>4, <3>1, <3>2, FitsOpened
    <3> QED  BY <2>1, <3>3
  <2> QED  BY <2>3, <2>4
<1>5. CASE r.nr = "close"
  <2>1. Changes(r) = {r.fd} /\ Flagged(r) = {}
    BY <1>5 DEF Changes, Flagged, Dups, NewFd
  <2>2. new = Cleared(table, {r.fd})
    BY <1>5 DEF Handled, Moves, Dups, NewFd, Follows
  <2>3. r.fd \notin writable
    BY <1>5 DEF Done, Sound
  <2>4. Fits(new, fds, writable, busy \ {r.fd}, flags \ {r.fd})
    BY <2>2, <2>3, FitsClosed
  <2> QED  BY <2>1, <2>4
<1>6. CASE r.nr \in Dups /\ r.fd = r.ret
  <2>1. Changes(r) = {} /\ Flagged(r) = {}
    BY <1>6 DEF Changes, Flagged, Dups, NewFd
  <2>2. new = table
    BY <1>6 DEF Handled, Moves, Dups, NewFd, Follows
  <2> QED  BY <2>1, <2>2
<1>7. CASE r.nr \in Dups /\ r.fd # r.ret
  <2>1. /\ Changes(r) = {r.ret} /\ Flagged(r) = {} /\ ~Follows(r) /\ r.nr \in NewFd
        /\ r.nr \notin Moves /\ r.nr \notin {"F_SETFL", "F_SETFD", "close", "open", "creat"}
    BY <1>7 DEF Changes, Flagged, Dups, NewFd, Follows, Moves
  <2>2. r.fd \in Fd /\ r.ret \in Fd /\ r.fd \notin busy /\ r.fd \notin flags
    BY <1>1, <1>7, <2>1
  <2>3. /\ fds[r.fd].ofd # None /\ fds[r.ret].ofd = fds[r.fd].ofd
        /\ r.nr = "F_DUPFD_CLOEXEC" => fds[r.ret].cloexec
        /\ r.nr = "dup3" => (fds[r.ret].cloexec <=> "O_CLOEXEC" \in r.flags)
    BY <1>7 DEF Done
  <2>4. (r.fd \in OpenSlots(table) <=> r.fd \in writable) /\ (r.fd \in writable <=> r.ret \in writable)
    BY <2>2, <2>3 DEF Fits, Sound
  <2>5. CASE r.fd \notin OpenSlots(table) /\ new = cleared
    BY <2>1, <2>4, <2>5, FitsClosed
  <2>6. ASSUME r.fd \in OpenSlots(table)
        PROVE  /\ Fits(shared, fds, writable, busy \ {r.ret}, flags \ {r.ret})
               /\ shared \in SUBSET Entry /\ r.ret \in OpenSlots(shared)
    <3>1. cleared \in SUBSET Entry /\ OpenSlots(cleared) = OpenSlots(table) \ {r.ret}
      BY ClearedEntries, ClearedSlots
    <3>2. Fits(cleared, fds, writable \ {r.ret}, busy \ {r.ret}, flags \ {r.ret})
      BY FitsCleared
    <3> HIDE DEF cleared
    <3>3. r.fd \in OpenSlots(cleared) /\ r.ret \notin OpenSlots(cleared)
      BY <1>7, <2>6, <3>1
    <3>4. /\ busy \ {r.ret} \subseteq flags \ {r.ret} /\ r.ret \notin flags \ {r.ret}
          /\ r.fd \notin flags \ {r.ret}
      BY <2>2
    <3>5. r.ret \in writable
      BY <2>4, <2>6
    <3>6. Fits(shared, fds, writable, busy \ {r.ret}, flags \ {r.ret})
      BY <2>2, <2>3, <3>1, <3>2, <3>3, <3>4, <3>5, FitsShared
    <3>7. OpenSlots(shared) = OpenSlots(cleared) \cup {r.ret}
      BY <2>2, <3>1, <3>3, SharedSlots
    <3>8. shared \in SUBSET Entry
      <4>1. \A e \in cleared : [e EXCEPT !.slots = @ \cup {r.ret}] \in Entry
        BY <2>2, <3>1 DEF Entry
      <4> QED  BY <3>1, <4>1 DEF Shared
    <3> QED  BY <3>6, <3>7, <3>8
  <2> HIDE DEF shared, cleared
  <2>7. CASE r.fd \in OpenSlots(table) /\ new = shared
    BY <2>1, <2>6, <2>7
  <2>8. CASE /\ r.nr \in {"dup3", "F_DUPFD_CLOEXEC"} /\ r.fd \in OpenSlots(table)
             /\ \E file \in TFileState :
                  /\ IsCloexecSet(file) <=> r.nr = "F_DUPFD_CLOEXEC" \/ "O_CLOEXEC" \in r.flags
                  /\ new = Updated(shared, r.ret, file)
    <3>1. PICK file \in TFileState :
                  /\ IsCloexecSet(file) <=> r.nr = "F_DUPFD_CLOEXEC" \/ "O_CLOEXEC" \in r.flags
                  /\ new = Updated(shared, r.ret, file)
      BY <2>8
    <3>2. /\ Fits(shared, fds, writable, busy \ {r.ret}, flags \ {r.ret})
          /\ shared \in SUBSET Entry /\ r.ret \in OpenSlots(shared)
      BY <2>6, <2>8
    <3>3. IsCloexecSet(file) <=> fds[r.ret].cloexec
      <4>1. r.nr = "F_DUPFD_CLOEXEC" => fds[r.ret].cloexec /\ IsCloexecSet(file)
        BY <2>3, <3>1
      <4>2. r.nr = "dup3" => /\ fds[r.ret].cloexec <=> "O_CLOEXEC" \in r.flags
                             /\ IsCloexecSet(file) <=> "O_CLOEXEC" \in r.flags
        BY <2>3, <3>1
      <4>3. CASE r.nr = "dup3"
        BY <4>2, <4>3
      <4>4. CASE r.nr = "F_DUPFD_CLOEXEC"
        BY <4>1, <4>4
      <4> QED  BY <2>8, <4>3, <4>4
    <3>4. r.ret \notin busy \ {r.ret} /\ fds[r.ret].ofd # None /\ busy \ {r.ret} \subseteq flags \ {r.ret}
      BY <2>3
    <3>5. Fits(new, fds, writable, busy \ {r.ret}, (flags \ {r.ret}) \ {r.ret})
      BY <3>1, <3>2, <3>3, <3>4, FitsFlagged
    <3> QED  BY <2>1, <3>5
  <2> QED  BY <1>7, <2>1, <2>5, <2>7, <2>8 DEF Handled, shared, cleared
<1>8. r.nr \in Moves \cup Dups \cup {"F_SETFL", "F_SETFD", "open", "creat", "close"}
  BY DEF RegsTyped, WellTyped, Syscall, Moves, Dups, NewFd
<1> QED  BY <1>2, <1>3, <1>4, <1>5, <1>6, <1>7, <1>8


------------------------------------------------------------------------------
(* What the handlers keep *)

LEMMA AsReadTyped ==
  ASSUME KernelTyped, HeldInv, NEW p \in Pid, group[p] \in Pid, NEW r, RegsTyped(r),
         Follows(r) => IsOpen(p, r.ret)
  PROVE  /\ RegsTyped(AsRead(p, r))
         /\ \A table, new : Handled(AsRead(p, r), table, new) => Handled(r, table, new)
<1>1. CASE ~Follows(r)
  BY <1>1 DEF AsRead
<1>2. CASE Follows(r)
  <2> DEFINE ar == [nr |-> r.nr, ret |-> r.ret, name |-> At(p, r.ret).name, flags |-> r.flags]
  <2>1. AsRead(p, r) = ar
    BY <1>2 DEF AsRead
  <2>2. ar.nr = r.nr /\ ar.ret = r.ret /\ ar.name = At(p, r.ret).name /\ ar.flags = r.flags
    OBVIOUS
  <2>3. r.nr \in {"open", "creat"} /\ r.ret \in Fd /\ r.ret \in Int
    BY <1>2 DEF Follows, RegsTyped, NewFd
  <2>4. At(p, r.ret).name \in Name
    BY <1>2, <2>3, OpenAt
  <2>5. Succeeded(r)
    BY <2>3, NumbersSucceed DEF NewFd
  <2>6. r.flags \subseteq FlagBit
    BY <2>3, <2>5 DEF RegsTyped, WellTyped
  <2> HIDE DEF ar
  <2>7. WellTyped(ar)
    BY <2>2, <2>3, <2>4, <2>6 DEF WellTyped, Syscall
  <2>8. RegsTyped(ar)
    BY <2>2, <2>3, <2>7 DEF RegsTyped, NewFd
  <2>9. /\ Follows(ar)
        /\ ar.nr \notin Moves \cup Dups \cup
                       {"F_SETFL", "F_SETFD", "close", "dup3", "F_DUPFD_CLOEXEC"}
    BY <1>2, <2>2, <2>3 DEF Follows, Moves, Dups, NewFd
  <2>10. ASSUME NEW table, NEW new, Handled(ar, table, new)
         PROVE  Handled(r, table, new)
    <3>1. \E file \in TFileState : file.Flags = ar.flags /\ new = Opened(table, ar.ret, file)
      BY <2>9, <2>10 DEF Handled
    <3> QED  BY <1>2, <2>2, <3>1 DEF Handled
  <2> QED  BY <2>1, <2>8, <2>10
<1> QED  BY <1>1, <1>2

\* A call is handled: the table of the process becomes new.
Answered(p, new) ==
  LET r == stop[p].regs
  IN  /\ stop[p].event = "syscall" /\ RegsTyped(r)
      /\ stop' = [stop EXCEPT ![p] = Running]
      /\ struck' = struck \cup ProcessInterruptionTarget(p, r)
      /\ UNCHANGED <<ProcMap, GroupLeaders, group>>
      /\ new \in SUBSET Entry /\ Fds' = [Fds EXCEPT ![ProcMap[p]] = new]
      /\ Handled(r, Table(p), new)

LEMMA SyscallAnswered ==
  ASSUME TypedInv, LifeInv, NEW p \in Pid, HandleSyscall(p), UNCHANGED <<files, use, kfds, ofds>>
  PROVE  \/ Over' /\ UNCHANGED <<contextVars, group, struck>> /\ stop' = [q \in Pid |-> Absent]
         \/ ContextTyped' /\ \E new : Answered(p, new)
<1> DEFINE r == stop[p].regs
<1>1. stop[p].event = "syscall" /\ RegsTyped(r)
  BY DEF HandleSyscall, TypedInv, CallsTyped
<1>2. stop[p] # Absent /\ group[p] \in Pid
  BY <1>1, Events, ActorsAreThere DEF TypedInv
<1>3. p \in Registered
  BY <1>1, <1>2, ActorsAreThere DEF TypedInv, KnownInv, Registered
<1>4. CASE Follows(r) /\ ~IsOpen(p, r.ret)
  BY <1>4 DEF HandleSyscall, Over
<1>5. CASE ~(Follows(r) /\ ~IsOpen(p, r.ret))
  <2>1. /\ SyscallExit(p, AsRead(p, r)) /\ stop' = [stop EXCEPT ![p] = Running]
        /\ struck' = struck \cup ProcessInterruptionTarget(p, r)
        /\ UNCHANGED group
    BY <1>5 DEF HandleSyscall, Resume
  <2>2. /\ RegsTyped(AsRead(p, r))
        /\ \A table, new : Handled(AsRead(p, r), table, new) => Handled(r, table, new)
    BY <1>1, <1>2, <1>5, AsReadTyped DEF TypedInv
  <2>3. UNCHANGED length /\ ContextTyped
    BY DEF files, TypedInv
  <2>4. /\ ContextTyped' /\ UNCHANGED <<ProcMap, GroupLeaders>>
        /\ \E new \in SUBSET Entry :
             Fds' = [Fds EXCEPT ![ProcMap[p]] = new] /\ Handled(AsRead(p, r), Table(p), new)
    BY <1>3, <2>1, <2>2, <2>3, SyscallHandled
  <2> QED  BY <1>1, <2>1, <2>2, <2>4 DEF Answered
<1> QED  BY <1>4, <1>5

LEMMA OverKeeps ==
  ASSUME TypedInv, LifeInv, UNCHANGED <<files, use, kfds, ofds, contextVars, group, struck>>,
         Over', stop' = [q \in Pid |-> Absent]
  PROVE  TypedInv' /\ LifeInv'
<1>1. KernelTyped' /\ HeldInv'
  BY DEF TypedInv, KernelTyped, HeldInv, files
<1>2. \A q \in Pid : stop'[q] = stop[q] \/ stop'[q].event # "syscall"
  BY Events
<1>3. CallsTyped'
  BY <1>2, NoCallTyped DEF TypedInv
<1>4. TypedInv'
  BY <1>1, <1>3, KernelStepTyped
<1>5. ThreadInv'
  BY Events DEF ThreadInv, Event
<1> QED  BY <1>4, <1>5 DEF LifeInv

\* The table of a process that is registered becomes table, and it may come to
\* be at another address.
LEMMA TableSlotted ==
  ASSUME SlottedInv, Fds \in [ProcState -> SUBSET Entry], NEW s, NEW table, Slotted(table),
         Fds' = [Fds EXCEPT ![s] = table]
  PROVE  SlottedInv'
BY DEF SlottedInv, Slotted

LEMMA AnsweredKeeps ==
  ASSUME TypedInv, LifeInv, NEW p \in Pid, NEW new, Answered(p, new), ContextTyped',
         UNCHANGED <<files, use, kfds, ofds>>
  PROVE  TypedInv' /\ LifeInv' /\ Slotted(Table(p)) /\ Slotted(new) /\ p \in Registered
<1> DEFINE r == stop[p].regs
<1>1. /\ stop[p].event = "syscall" /\ RegsTyped(r) /\ stop' = [stop EXCEPT ![p] = Running]
      /\ UNCHANGED <<ProcMap, GroupLeaders, group>>
      /\ Fds' = [Fds EXCEPT ![ProcMap[p]] = new] /\ Handled(r, Table(p), new)
      /\ struck' = struck \cup ProcessInterruptionTarget(p, r)
  BY DEF Answered
<1>2. stop[p] # Absent /\ group[p] \in Pid
  BY <1>1, Events, ActorsAreThere DEF TypedInv
<1>3. p \in Registered
  BY <1>1, <1>2, ActorsAreThere DEF TypedInv, KnownInv, Registered
<1>4. Table(p) \in SUBSET Entry /\ ProcMap[p] \in ProcState
  BY <1>3, TableOfRegistered DEF TypedInv
<1>5. Slotted(Table(p))
  BY <1>4 DEF TypedInv, SlottedInv, Table
<1>6. Slotted(new)
  BY <1>1, <1>4, <1>5, HandledSlots
<1>7. SlottedInv'
  BY <1>1, <1>6, TableSlotted DEF TypedInv, ContextTyped
<1>8. KernelTyped' /\ HeldInv'
  <2>1. struck' \subseteq Pid
    BY <1>1, <1>2 DEF TypedInv, KernelTyped, ProcessInterruptionTarget
  <2> QED  BY <1>1, <2>1 DEF TypedInv, KernelTyped, HeldInv, files
<1>9. CallsTyped'
  <2>1. \A q \in Pid : stop'[q] = stop[q] \/ stop'[q].event # "syscall"
    BY <1>1, Events DEF LifeInv, ThreadInv
  <2> QED  BY <2>1, NoCallTyped DEF TypedInv
<1>10. LifeInv'
  BY <1>1, Events, GoesOnLife DEF TypedInv
<1> QED  BY <1>3, <1>5, <1>6, <1>7, <1>8, <1>9, <1>10 DEF TypedInv

LEMMA HandleForkKeeps ==
  ASSUME TypedInv, LifeInv, NEW p \in Pid, HandleFork(p), UNCHANGED <<files, use, kfds, ofds>>
  PROVE  /\ TypedInv' /\ LifeInv' /\ p \in Registered
         /\ NewProcState \in ProcState /\ \A q \in Pid : ProcMap[q] # NewProcState
<1>1. /\ stop[p].event = "fork" /\ RegisterProcess(p, stop[p].child)
      /\ stop' = [stop EXCEPT ![p] = Running, ![stop[p].child] = Running]
      /\ UNCHANGED <<group, struck>>
  BY DEF HandleFork
<1>2. stop[p] # Absent
  BY <1>1, Events
<1>3. p \in Registered /\ stop[p].child \in Pid
  BY <1>1, <1>2, ActorsAreThere DEF TypedInv, KnownInv, BirthInv, Registered
<1>4. UNCHANGED length /\ ContextTyped
  BY DEF files, TypedInv
<1>5. ContextTyped'
  BY <1>1, <1>3, <1>4, RegisterTyped
<1>6. NewProcState \in ProcState /\ \A q \in Pid : ProcMap[q] # NewProcState
  BY <1>1, NewProcStateTyped DEF RegisterProcess
<1>7. SlottedInv'
  <2>1. Fds' = [Fds EXCEPT ![NewProcState] = Copied(Table(p), OpenSlots(Table(p)))]
    BY <1>1 DEF RegisterProcess
  <2>2. Slotted(Copied(Table(p), OpenSlots(Table(p))))
    BY CopiedSlots
  <2> QED  BY <1>4, <2>1, <2>2, TableSlotted DEF TypedInv, ContextTyped
<1>8. KernelTyped' /\ HeldInv'
  BY <1>1 DEF TypedInv, KernelTyped, HeldInv, files
<1>9. CallsTyped'
  <2>1. \A q \in Pid : stop'[q] = stop[q] \/ stop'[q].event # "syscall"
    BY <1>1, Events DEF LifeInv, ThreadInv
  <2> QED  BY <2>1, NoCallTyped DEF TypedInv
<1>10. LifeInv'
  BY HandleForkLife DEF TypedInv
<1> QED  BY <1>3, <1>5, <1>6, <1>7, <1>8, <1>9, <1>10 DEF TypedInv

LEMMA HandleCloneKeeps ==
  ASSUME TypedInv, LifeInv, NEW p \in Pid, HandleClone(p), UNCHANGED <<files, use, kfds, ofds>>
  PROVE  TypedInv' /\ LifeInv' /\ p \in Registered
<1>1. /\ stop[p].event = "clone" /\ RegisterThread(p, stop[p].child)
      /\ stop' = [stop EXCEPT ![p] = Running, ![stop[p].child] = Running]
      /\ UNCHANGED <<group, struck>>
  BY DEF HandleClone
<1>2. stop[p] # Absent
  BY <1>1, Events
<1>3. p \in Registered /\ stop[p].child \in Pid
  BY <1>1, <1>2, ActorsAreThere DEF TypedInv, KnownInv, BirthInv, Registered
<1>4. UNCHANGED length /\ ContextTyped
  BY DEF files, TypedInv
<1>5. ContextTyped'
  BY <1>1, <1>3, <1>4, RegisterTyped
<1>6. SlottedInv'
  BY <1>1 DEF RegisterThread, TypedInv, SlottedInv, Slotted
<1>7. KernelTyped' /\ HeldInv'
  BY <1>1 DEF TypedInv, KernelTyped, HeldInv, files
<1>8. CallsTyped'
  <2>1. \A q \in Pid : stop'[q] = stop[q] \/ stop'[q].event # "syscall"
    BY <1>1, Events DEF LifeInv, ThreadInv
  <2> QED  BY <2>1, NoCallTyped DEF TypedInv
<1>9. LifeInv'
  BY HandleCloneLife DEF TypedInv
<1> QED  BY <1>3, <1>5, <1>6, <1>7, <1>8, <1>9 DEF TypedInv

LEMMA TornDownIs ==
  ASSUME ContextTyped, SlottedInv, NEW p \in Registered
  PROVE  /\ TornDown(p) \in [ProcState -> SUBSET Entry]
         /\ \A s \in ProcState : s # ProcMap[p] => TornDown(p)[s] = Fds[s]
         /\ \A s \in ProcState : Slotted(TornDown(p)[s])
<1>1. ProcMap[p] \in ProcState /\ Slotted({})
  BY TableOfRegistered DEF Slotted
<1> QED  BY <1>1 DEF TornDown, ContextTyped, SlottedInv

LEMMA HandleExecKeeps ==
  ASSUME TypedInv, LifeInv, NEW p \in Pid, HandleExec(p), UNCHANGED <<files, use, kfds, ofds>>
  PROVE  /\ TypedInv' /\ LifeInv' /\ p \in Registered
         /\ NewProcState \in ProcState /\ \A q \in Pid : ProcMap[q] # NewProcState
<1>1. /\ stop[p].event = "exec" /\ RegisterExec(p)
      /\ stop' = [stop EXCEPT ![p] = Running]
      /\ UNCHANGED <<group, struck>>
  BY DEF HandleExec, Resume
<1>2. stop[p] # Absent
  BY <1>1, Events
<1>3. p \in Registered
  BY <1>1, <1>2, ActorsAreThere DEF TypedInv, KnownInv, Registered
<1>4. UNCHANGED length /\ ContextTyped
  BY DEF files, TypedInv
<1>5. ContextTyped'
  BY <1>1, <1>3, <1>4, RegisterExecTyped
<1>6. NewProcState \in ProcState /\ \A q \in Pid : ProcMap[q] # NewProcState
  BY <1>1, NewProcStateTyped DEF RegisterExec
<1>7. SlottedInv'
  <2>1. PICK kept : Fds' = [TornDown(p) EXCEPT ![NewProcState] = Copied(Table(p), kept)]
    BY <1>1 DEF RegisterExec
  <2>2. Slotted(Copied(Table(p), kept))
    BY CopiedSlots
  <2>3. \A s \in ProcState : Slotted(TornDown(p)[s])
    BY <1>3, TornDownIs DEF TypedInv
  <2>4. TornDown(p) \in [ProcState -> SUBSET Entry]
    BY <1>3, TornDownIs DEF TypedInv
  <2>5. \A s \in ProcState : Slotted(Fds'[s])
    BY <2>1, <2>2, <2>3, <2>4
  <2> QED  BY <2>5 DEF SlottedInv, Slotted
<1>8. KernelTyped' /\ HeldInv'
  BY <1>1 DEF TypedInv, KernelTyped, HeldInv, files
<1>9. CallsTyped'
  <2>1. \A q \in Pid : stop'[q] = stop[q] \/ stop'[q].event # "syscall"
    BY <1>1, Events DEF LifeInv, ThreadInv
  <2> QED  BY <2>1, NoCallTyped DEF TypedInv
<1>10. LifeInv'
  BY HandleExecLife DEF TypedInv
<1> QED  BY <1>3, <1>5, <1>6, <1>7, <1>8, <1>9, <1>10 DEF TypedInv

LEMMA HandleExitKeeps ==
  ASSUME TypedInv, LifeInv, NEW p \in Pid, HandleExit(p), UNCHANGED <<files, use, kfds, ofds>>
  PROVE  TypedInv' /\ LifeInv' /\ p \in Registered
<1>1. /\ stop[p].event = "exit" /\ VanishProcess(p, OutputSize)
      /\ stop' = [stop EXCEPT ![p] = Absent] /\ group' = [group EXCEPT ![p] = None]
      /\ UNCHANGED struck
  BY DEF HandleExit
<1>2. stop[p] # Absent
  BY <1>1, Events
<1>3. p \in Registered
  BY <1>1, <1>2, ActorsAreThere DEF TypedInv, KnownInv, Registered
<1>4. UNCHANGED length /\ ContextTyped
  BY DEF files, TypedInv
<1>5. ContextTyped'
  BY <1>1, <1>3, <1>4, VanishTyped
<1>6. SlottedInv'
  <2>1. Fds' = TornDown(p)
    BY <1>1 DEF VanishProcess
  <2>2. \A s \in ProcState : Slotted(TornDown(p)[s])
    BY <1>3, TornDownIs DEF TypedInv
  <2>3. \A s \in ProcState : Slotted(Fds'[s])
    BY <2>1, <2>2
  <2> QED  BY <2>3 DEF SlottedInv, Slotted
<1>7. KernelTyped' /\ HeldInv'
  BY <1>1 DEF TypedInv, KernelTyped, HeldInv, files
<1>8. CallsTyped'
  <2>1. \A q \in Pid : stop'[q] = stop[q] \/ stop'[q].event # "syscall"
    BY <1>1, Events DEF LifeInv, ThreadInv
  <2> QED  BY <2>1, NoCallTyped DEF TypedInv
<1>9. LifeInv'
  BY HandleExitLife DEF TypedInv
<1> QED  BY <1>3, <1>5, <1>6, <1>7, <1>8, <1>9 DEF TypedInv


------------------------------------------------------------------------------
(* The tables and the descriptors *)

\* Nothing has become of the descriptors of the process.
Same(g) == kfds'[g] = kfds[g] /\ Followed(g)' = Followed(g)

\* Nothing has become of the process, and of what it has under way.
Aside(g) ==
  /\ Same(g)
  /\ Calls(g)' = Calls(g)
  /\ \A q \in Calls(g) : stop'[q] = stop[q] /\ Table(q)' = Table(q)
  /\ Live(g)' => Live(g) /\ Table(g)' = Table(g)

LEMMA BusyIs ==
  ASSUME NEW g
  PROVE  /\ \A fd : fd \in Busy(g) <=> \E q \in Calls(g) : fd \in Changes(stop[q].regs)
         /\ \A fd : fd \in BusyFlags(g) <=>
                      \E q \in Calls(g) : fd \in Changes(stop[q].regs) \cup Flagged(stop[q].regs)
         /\ Busy(g) \subseteq BusyFlags(g)
BY DEF Busy, BusyFlags

LEMMA AsideAgrees ==
  ASSUME NEW g \in Pid, AgreesOn(g), Aside(g)
  PROVE  AgreesOn(g)'
<1>1. /\ kfds'[g] = kfds[g] /\ Followed(g)' = Followed(g)
      /\ Calls(g)' = Calls(g)
      /\ \A q \in Calls(g) : stop'[q] = stop[q] /\ Table(q)' = Table(q)
      /\ Live(g)' => Live(g) /\ Table(g)' = Table(g)
  BY DEF Aside, Same
<1>2. \A p, q \in Calls(g)' : p # q => Apart(stop'[p].regs, stop'[q].regs)
  BY <1>1 DEF AgreesOn
<1>3. \A q \in Calls(g)' : Done(stop'[q].regs, Table(q)', kfds'[g], Followed(g)')
  BY <1>1 DEF AgreesOn
<1>4. ASSUME Live(g)'
      PROVE  Agrees(Table(g), g)'
  <2>1. Agrees(Table(g), g) /\ Table(g)' = Table(g)
    BY <1>1, <1>4 DEF AgreesOn
  <2>2. Busy(g)' = Busy(g) /\ BusyFlags(g)' = BusyFlags(g)
    BY <1>1 DEF Busy, BusyFlags
  <2> QED  BY <1>1, <2>1, <2>2 DEF Agrees
<1> QED  BY <1>2, <1>3, <1>4 DEF AgreesOn

\* Where the descriptors are as they were, and so is how the descriptions were opened.
LEMMA KeptIsSame ==
  ASSUME NEW p, Kept(p), NEW g \in Pid, kfds'[g] = kfds[g]
  PROVE  Same(g)
<1>1. \A fd \in Fd : fd \in Followed(g)' <=> fd \in Followed(g)
  BY DEF Kept, Followed
<1>2. Followed(g)' \subseteq Fd /\ Followed(g) \subseteq Fd
  BY DEF Followed
<1> QED  BY <1>1, <1>2 DEF Same

\* A process that has calls under way or goes on is one the context knows.
LEMMA LeadersAreKnown ==
  ASSUME LifeInv, KernelTyped, NEW p \in Pid, stop[p] # Absent, stop[p].event # "born"
  PROVE  /\ p \in Registered /\ group[p] \in Registered /\ ProcMap[group[p]] = ProcMap[p]
         /\ Table(group[p]) = Table(p)
         /\ \A q \in Registered : ProcMap[q] = ProcMap[p] <=> group[q] = group[p]
<1>1. /\ GroupInv /\ KnownInv /\ group[p] \in Pid /\ group[group[p]] = group[p]
      /\ stop[group[p]] # Absent
  BY ActorsAreThere
<1>2. \A q \in Pid : stop[q].event = "absent" => stop[q] = Absent
  BY DEF LifeInv, ThreadInv
<1>3. stop[group[p]].event # "born"
  BY <1>1 DEF GroupInv
<1>4. p \in Registered /\ group[p] \in Registered
  BY <1>1, <1>2, <1>3 DEF KnownInv, Registered
<1> QED  BY <1>1, <1>4 DEF KnownInv, Table

\* A process that has come to fork or execve has one thread.
LEMMA LonersAre ==
  ASSUME LifeInv, KernelTyped, NEW p \in Pid, stop[p] # Absent, Members(p) = {p}
  PROVE  /\ group[p] = p
         /\ \A q \in Pid : stop[q] # Absent /\ group[q] = p => q = p
<1>1. group[p] \in Members(p)
  BY ActorsAreThere
<1> QED  BY <1>1 DEF Members

\* The child of a fork, before it is handled, is a process of its own.
LEMMA ChildrenAre ==
  ASSUME LifeInv, KernelTyped, NEW p \in Pid, stop[p].event = "fork"
  PROVE  /\ group[p] = p /\ stop[p].child \in Pid /\ stop[p].child # p
         /\ group[stop[p].child] = stop[p].child /\ stop[stop[p].child].event = "born"
         /\ \A q \in Pid : stop[q] # Absent /\ group[q] = p => q = p
         /\ \A q \in Pid : stop[q] # Absent /\ group[q] = stop[p].child => q = stop[p].child
<1>1. stop[p] # Absent
  BY Events
<1>2. GroupInv /\ BirthInv
  BY <1>1, ActorsAreThere
<1>3. Members(p) = {p}
  BY <1>2 DEF GroupInv
<1>4. group[p] = p /\ \A q \in Pid : stop[q] # Absent /\ group[q] = p => q = p
  BY <1>1, <1>3, LonersAre
<1>5. /\ stop[p].child \in Pid /\ stop[stop[p].child].event = "born"
      /\ group[stop[p].child] = stop[p].child
  BY <1>2 DEF BirthInv
<1> QED  BY <1>2, <1>4, <1>5 DEF GroupInv

\* Steps that change the descriptors of one process, g, and start or end no
\* program, keep what is said of processes that fork or execve.
LEMMA OthersWait ==
  ASSUME LifeInv, KernelTyped, ForksAgree, ExecsAgree, NEW D,
         \A q \in Pid \ D : Same(q),
         \A q \in Pid : stop'[q].event \in {"fork", "exec"} =>
           stop'[q] = stop[q] /\ q \notin D /\ Table(q)' = Table(q),
         \A q \in Pid : stop'[q].event = "fork" => stop[q].child \notin D
  PROVE  ForksAgree' /\ ExecsAgree'
<1>1. ASSUME NEW q \in Pid, stop'[q].event = "fork"
      PROVE  kfds'[stop'[q].child] = kfds'[q]
  <2>1. stop'[q] = stop[q] /\ q \notin D /\ stop[q].child \notin D
    BY <1>1
  <2>2. stop[q].child \in Pid
    BY <1>1, <2>1, ChildrenAre
  <2> QED  BY <1>1, <2>1, <2>2 DEF Same, ForksAgree
<1>2. ASSUME NEW q \in Pid, stop'[q].event = "exec"
      PROVE  \A fd \in Fd :
               /\ ~kfds'[q][fd].cloexec
               /\ fd \in Followed(q)' <=>
                    fd \in OpenSlots(Table(q)') /\ ~IsCloexecSet(FileAt(Table(q)', fd))
  <2>1. stop'[q] = stop[q] /\ q \notin D /\ Table(q)' = Table(q)
    BY <1>2
  <2>2. kfds'[q] = kfds[q] /\ Followed(q)' = Followed(q)
    BY <2>1 DEF Same
  <2> QED  BY <1>2, <2>1, <2>2 DEF ExecsAgree
<1> QED  BY <1>1, <1>2 DEF ForksAgree, ExecsAgree


LEMMA ApartSlots ==
  ASSUME NEW a, NEW b, Apart(a, b)
  PROVE  /\ (Changes(a) \cup Flagged(a)) \cap Slots(b) = {}
         /\ (Changes(b) \cup Flagged(b)) \cap Slots(a) = {}
         /\ Apart(b, a)
<1>1. ASSUME NEW r PROVE Changes(r) \cup Flagged(r) \subseteq Slots(r)
  <2>1. CASE r.nr = "close"
    BY <2>1 DEF Changes, Flagged, Slots, NewFd, Dups
  <2>2. CASE r.nr \in {"open", "creat"}
    BY <2>2 DEF Changes, Flagged, Slots, NewFd, Dups
  <2>3. CASE r.nr \in Dups
    BY <2>3 DEF Changes, Flagged, Slots, NewFd, Dups
  <2>4. CASE r.nr \notin Dups \cup {"open", "creat", "close"}
    BY <2>4 DEF Changes, Flagged, Slots, NewFd, Dups
  <2> QED  BY <2>1, <2>2, <2>3, <2>4
<1>2. ASSUME NEW r, r.nr = "write" PROVE Changes(r) \cup Flagged(r) = {}
  BY <1>2 DEF Changes, Flagged, NewFd, Dups
<1>3. CASE Slots(a) \cap Slots(b) = {}
  BY <1>1, <1>3 DEF Apart
<1>4. CASE a.nr = "write" /\ b.nr = "write"
  BY <1>2, <1>4 DEF Apart
<1> QED  BY <1>3, <1>4 DEF Apart

\* The slots Done looks at are those of the call.
LEMMA DoneAt ==
  ASSUME NEW r, NEW table, NEW fds, NEW writable, Done(r, table, fds, writable),
         NEW newtable, NEW newfds, NEW newwritable,
         \A fd \in Slots(r) : /\ newfds[fd] = fds[fd]
                              /\ fd \in newwritable <=> fd \in writable
                              /\ fd \in OpenSlots(newtable) => fd \in OpenSlots(table)
  PROVE  Done(r, newtable, newfds, newwritable)
<1>1. /\ r.nr \notin {"open", "creat"} => r.fd \in Slots(r)
      /\ r.nr \in NewFd => r.ret \in Slots(r)
  BY DEF Slots, NewFd
<1>2. r.nr = "close" => newfds[r.fd].ofd = None
  BY <1>1 DEF Done
<1>3. r.nr \in {"open", "creat"} =>
       /\ newfds[r.ret].ofd # None
       /\ Follows(r) <=> r.ret \in newwritable
       /\ newfds[r.ret].cloexec <=> "O_CLOEXEC" \in r.flags
       /\ r.ret \notin OpenSlots(newtable)
  BY <1>1 DEF Done, NewFd
<1>4. r.nr \in Dups =>
       /\ newfds[r.fd].ofd # None /\ newfds[r.ret].ofd = newfds[r.fd].ofd
       /\ r.nr = "F_DUPFD_CLOEXEC" => newfds[r.ret].cloexec
       /\ r.nr = "dup3" => (newfds[r.ret].cloexec <=> "O_CLOEXEC" \in r.flags)
  BY <1>1 DEF Done, Dups, NewFd
<1>5. r.nr \in {"F_SETFD", "F_SETFL"} =>
       "O_CLOEXEC" \notin r.flags /\ ~newfds[r.fd].cloexec
  BY <1>1 DEF Done
<1> QED  BY <1>2, <1>3, <1>4, <1>5 DEF Done

\* A call is made: what its process has under way.
LEMMA CalledAgrees ==
  ASSUME TypedInv, LifeInv, NEW p \in Pid, NEW r, Called(p, r), NEW g \in Pid, group[p] = g,
         AgreesOn(g), "race" \notin quirks', "cloexec" \notin quirks'
  PROVE  AgreesOn(g)'
<1> DEFINE s == [Running EXCEPT !.event = "syscall", !.regs = r]
<1>1. /\ stop[p] = Running /\ UNCHANGED <<contextVars, use, group>>
      /\ stop' = [stop EXCEPT ![p] = s]
      /\ ~Races(p, r) /\ RegsTyped(r)
      /\ \A fd \in Fd \ Changes(r) : kfds'[g][fd].ofd = kfds[g][fd].ofd
      /\ \A fd \in Fd \ (Changes(r) \cup Flagged(r)) : kfds'[g][fd] = kfds[g][fd]
      /\ Kept(p) /\ Carried(p, r)
  BY DEF Called
<1>2. s.event = "syscall" /\ s.regs = r /\ stop[p].event = "running" /\ stop[p] # Absent
  BY <1>1, Events
<1> HIDE DEF s
<1>3. /\ \A q \in Pid : stop'[q] = IF q = p THEN s ELSE stop[q]
      /\ group' = group /\ ProcMap' = ProcMap /\ Fds' = Fds
  BY <1>1 DEF LifeInv, ThreadInv, contextVars
<1>4. /\ group[g] = g /\ p \in Registered /\ Table(g) = Table(p) /\ Table(p) \in SUBSET Entry
      /\ Table(p)' = Table(p) /\ Table(g)' = Table(g)
  BY <1>2, <1>3, ActorsAreThere, LeadersAreKnown, TableOfRegistered DEF TypedInv, Table
<1>5. Calls(g)' = Calls(g) \cup {p} /\ p \notin Calls(g)
  BY <1>2, <1>3 DEF Calls
<1>6. \A q \in Calls(g) : q \in Pid /\ q # p /\ group[q] = g /\ stop'[q] = stop[q]
                          /\ RegsTyped(stop[q].regs) /\ Table(q)' = Table(q)
  BY <1>3, <1>5 DEF Calls, TypedInv, CallsTyped, Table
<1>7. \A q \in Calls(g) : Apart(stop[q].regs, r)
  <2> SUFFICES ASSUME NEW q \in Calls(g)
               PROVE  Apart(stop[q].regs, r)
    OBVIOUS
  <2>1. q \in Members(p) \ {p} /\ stop[q].event = "syscall"
    BY <1>6, Events DEF Members, Calls
  <2>2. ~Conflict(p, r, stop[q].regs)
    BY <1>1, <2>1 DEF Races
  <2>3. Slots(r) \cap Slots(stop[q].regs) = {} \/ {r.nr, stop[q].regs.nr} = {"write"}
    BY <2>2 DEF Conflict
  <2> QED  BY <2>3 DEF Apart
<1>8. Live(g)
  BY <1>2, <1>4 DEF Live
<1>9. /\ \A fd \in Fd \ Changes(r) : fd \in Followed(g)' <=> fd \in Followed(g)
      /\ \A fd \in Fd : fd \in Followed(g)' <=>
                          kfds'[g][fd].ofd # None /\ ofds'[kfds'[g][fd].ofd].followed
  BY <1>1 DEF Kept, Followed
<1>10. \A a, b \in Calls(g)' : a # b => Apart(stop'[a].regs, stop'[b].regs)
  <2>1. \A a, b \in Calls(g) : a # b => Apart(stop[a].regs, stop[b].regs)
    BY DEF AgreesOn
  <2>2. \A a \in Calls(g) : Apart(r, stop[a].regs)
    BY <1>7, ApartSlots
  <2> QED  BY <1>2, <1>3, <1>5, <1>6, <1>7, <2>1, <2>2
<1>11. \A q \in Calls(g) : Done(stop'[q].regs, Table(q)', kfds'[g], Followed(g)')
  <2> SUFFICES ASSUME NEW q \in Calls(g)
               PROVE  Done(stop[q].regs, Table(q), kfds'[g], Followed(g)')
    BY <1>6
  <2>1. Done(stop[q].regs, Table(q), kfds[g], Followed(g))
    BY DEF AgreesOn
  <2>2. (Changes(r) \cup Flagged(r)) \cap Slots(stop[q].regs) = {}
    BY <1>7, ApartSlots
  <2>3. Slots(stop[q].regs) \subseteq Fd
    BY <1>6 DEF RegsTyped, Slots
  <2>4. \A fd \in Slots(stop[q].regs) : /\ kfds'[g][fd] = kfds[g][fd]
                                        /\ fd \in Followed(g)' <=> fd \in Followed(g)
    BY <1>1, <1>9, <2>2, <2>3
  <2> QED  BY <2>1, <2>4, DoneAt
<1>12. Done(r, Table(p), kfds'[g], Followed(g)')
  <2>1. ASSUME r.nr \in {"open", "creat"}
        PROVE  r.ret \notin OpenSlots(Table(p)) /\ r.ret \in Fd
    <3>1. r.ret \in Fd /\ r.ret \in Slots(r)
      BY <1>1, <2>1 DEF RegsTyped, NewFd, Slots
    <3>2. r.ret \notin Busy(g)
      BY <1>7, <3>1, BusyIs, ApartSlots
    <3>3. kfds[g][r.ret].ofd = None
      BY <1>1, <2>1 DEF Carried
    <3>4. r.ret \notin Followed(g)
      BY <3>3 DEF Followed
    <3> QED  BY <1>4, <1>8, <3>1, <3>2, <3>4 DEF AgreesOn, Agrees, Fits
  <2>2. r.nr \in {"open", "creat"} => (Follows(r) <=> r.ret \in Followed(g)')
    BY <1>1, <1>9, <2>1 DEF Carried
  <2> QED  BY <1>1, <2>1, <2>2 DEF Carried, Done, Dups
<1>13. \A q \in Calls(g)' : Done(stop'[q].regs, Table(q)', kfds'[g], Followed(g)')
  BY <1>2, <1>3, <1>4, <1>5, <1>11, <1>12
<1>14. Fits(Table(g), kfds'[g], Followed(g)', Busy(g)', BusyFlags(g)')
  <2>1. Agrees(Table(g), g)
    BY <1>8 DEF AgreesOn
  <2>2. /\ \A fd : fd \in Busy(g)' <=> fd \in Busy(g) \/ fd \in Changes(r)
        /\ \A fd : fd \in BusyFlags(g)' <=> fd \in BusyFlags(g) \/ fd \in Changes(r) \cup Flagged(r)
    <3>1. /\ \A fd : fd \in Busy(g)' <=> \E q \in Calls(g)' : fd \in Changes(stop'[q].regs)
          /\ \A fd : fd \in BusyFlags(g)' <=>
                       \E q \in Calls(g)' : fd \in Changes(stop'[q].regs) \cup Flagged(stop'[q].regs)
      BY DEF Busy, BusyFlags
    <3>2. stop'[p].regs = r /\ \A q \in Calls(g) : stop'[q].regs = stop[q].regs
      BY <1>2, <1>3, <1>6
    <3>3. /\ \A fd : fd \in Busy(g) <=> \E q \in Calls(g) : fd \in Changes(stop[q].regs)
          /\ \A fd : fd \in BusyFlags(g) <=>
                       \E q \in Calls(g) : fd \in Changes(stop[q].regs) \cup Flagged(stop[q].regs)
      BY BusyIs
    <3> QED  BY <1>5, <3>1, <3>2, <3>3
  <2>3. \A e \in Table(g) : e.slots \subseteq Fd
    BY <1>4 DEF Entry
  <2>4. \A fd \in Fd \ Busy(g)' : fd \in OpenSlots(Table(g)) <=> fd \in Followed(g)'
    BY <1>9, <2>1, <2>2 DEF Agrees, Fits
  <2>5. ASSUME NEW e \in Table(g), NEW a \in e.slots \ Busy(g)', NEW b \in e.slots \ Busy(g)'
        PROVE  kfds'[g][a].ofd = kfds'[g][b].ofd
    BY <1>1, <2>1, <2>2, <2>3 DEF Agrees, Fits
  <2>6. ASSUME NEW e \in Table(g), NEW a \in e.slots \ BusyFlags(g)'
        PROVE  IsCloexecSet(e.file) <=> kfds'[g][a].cloexec
    BY <1>1, <2>1, <2>2, <2>3 DEF Agrees, Fits
  <2> QED  BY <2>4, <2>5, <2>6 DEF Fits
<1>15. Live(g)' => Agrees(Table(g), g)'
  BY <1>4, <1>14 DEF Agrees
<1> QED  BY <1>10, <1>13, <1>15 DEF AgreesOn


\* Who is at a fork or an execve has no other thread, and its child waits.
LEMMA LonersAreApart ==
  ASSUME LifeInv, KernelTyped, NEW p \in Pid, stop[p] # Absent, stop[p].event # "born",
         NEW q \in Pid, stop[q].event \in {"fork", "exec"}, q # p
  PROVE  /\ q # group[p] /\ group[q] # group[p]
         /\ stop[q].event = "fork" => stop[q].child # group[p] /\ stop[q].child # p
<1>1. stop[q] # Absent /\ Members(q) = {q}
  BY ActorsAreThere, Events DEF GroupInv
<1>2. group[q] = q /\ \A x \in Pid : stop[x] # Absent /\ group[x] = q => x = q
  BY <1>1, LonersAre
<1>3. stop[q].event = "fork" =>
        /\ stop[stop[q].child].event = "born"
        /\ \A x \in Pid : stop[x] # Absent /\ group[x] = stop[q].child => x = stop[q].child
  BY ChildrenAre
<1> QED  BY <1>2, <1>3

LEMMA CalledKeepsAgree ==
  ASSUME TypedInv, LifeInv, AgreeInv, NEW p \in Pid, NEW r, Called(p, r),
         "race" \notin quirks', "cloexec" \notin quirks'
  PROVE  AgreeInv'
<1> DEFINE s == [Running EXCEPT !.event = "syscall", !.regs = r]
<1>1. s.event = "syscall" /\ Running.event = "running" /\ Running # Absent
  BY Events
<1>2. /\ stop[p] = Running /\ UNCHANGED <<contextVars, group>>
      /\ stop' = [stop EXCEPT ![p] = s] /\ Kept(p)
      /\ \A q \in Pid : q # group[p] => kfds'[q] = kfds[q]
      /\ ~MixedCloexec(kfds) => ~MixedCloexec(kfds')
  BY DEF Called
<1>3. group[p] \in Pid
  BY <1>1, <1>2, ActorsAreThere DEF TypedInv
<1> HIDE DEF s
<1>4. /\ \A q \in Pid : stop'[q] = IF q = p THEN s ELSE stop[q]
      /\ group' = group /\ ProcMap' = ProcMap /\ Fds' = Fds
  BY <1>2 DEF LifeInv, ThreadInv, contextVars
<1>5. ~MixedCloexec(kfds)'
  BY <1>2 DEF AgreeInv, MixedCloexec
<1>6. \A g \in Pid : g # group[p] => Same(g)
  BY <1>2, KeptIsSame
<1>7. ASSUME NEW g \in Pid
      PROVE  AgreesOn(g)'
  <2>1. AgreesOn(g)
    BY DEF AgreeInv
  <2>2. CASE g = group[p]
    BY <2>1, <2>2, CalledAgrees
  <2>3. CASE g # group[p]
    <3>1. Calls(g)' = Calls(g)
      BY <1>4, <2>3 DEF Calls
    <3>2. \A q \in Calls(g) : stop'[q] = stop[q] /\ Table(q)' = Table(q)
      BY <1>4, <2>3 DEF Calls, Table
    <3>3. Live(g)' => Live(g) /\ Table(g)' = Table(g)
      BY <1>4, <2>3 DEF Live, Table
    <3>4. Aside(g)
      BY <1>6, <2>3, <3>1, <3>2, <3>3 DEF Aside
    <3> QED  BY <2>1, <3>4, AsideAgrees
  <2> QED  BY <2>2, <2>3
<1>8. ForksAgree' /\ ExecsAgree'
  <2>1. ASSUME NEW q \in Pid, stop'[q].event \in {"fork", "exec"}
        PROVE  /\ stop'[q] = stop[q] /\ q # group[p] /\ Table(q)' = Table(q)
               /\ stop'[q].event = "fork" => stop[q].child # group[p]
    <3>1. q # p /\ stop'[q] = stop[q]
      BY <1>1, <1>4, <2>1
    <3> QED  BY <1>1, <1>2, <1>4, <2>1, <3>1, LonersAreApart DEF TypedInv, Table
  <2>2. /\ \A q \in Pid \ {group[p]} : Same(q)
        /\ \A q \in Pid : stop'[q].event \in {"fork", "exec"} =>
             stop'[q] = stop[q] /\ q \notin {group[p]} /\ Table(q)' = Table(q)
        /\ \A q \in Pid : stop'[q].event = "fork" => stop[q].child \notin {group[p]}
    BY <1>6, <2>1
  <2> QED  BY <2>2, OthersWait DEF TypedInv, AgreeInv
<1> QED  BY <1>5, <1>7, <1>8 DEF AgreeInv

\* A call is handled: what its process has under way.
LEMMA AnsweredAgrees ==
  ASSUME TypedInv, LifeInv, NEW p \in Pid, NEW new, Answered(p, new), ContextTyped',
         UNCHANGED <<kfds, ofds>>, NEW g \in Pid, group[p] = g, AgreesOn(g),
         ~MixedCloexec(kfds), Slotted(Table(p)), Slotted(new)
  PROVE  AgreesOn(g)'
<1> DEFINE r == stop[p].regs
<1>1. /\ stop[p].event = "syscall" /\ RegsTyped(r)
      /\ stop' = [stop EXCEPT ![p] = Running]
      /\ UNCHANGED <<ProcMap, GroupLeaders, group>>
      /\ new \in SUBSET Entry /\ Fds' = [Fds EXCEPT ![ProcMap[p]] = new]
      /\ Handled(r, Table(p), new)
  BY DEF Answered
<1>2. Running.event = "running" /\ stop[p] # Absent /\ stop[p].event # "born"
  BY <1>1, Events
<1>3. /\ \A q \in Pid : stop'[q] = IF q = p THEN Running ELSE stop[q]
      /\ group' = group /\ ProcMap' = ProcMap
  BY <1>1 DEF LifeInv, ThreadInv
<1>4. /\ group[g] = g /\ p \in Registered /\ g \in Registered /\ Table(g) = Table(p)
      /\ Table(p) \in SUBSET Entry /\ ProcMap[g] = ProcMap[p]
      /\ \A q \in Registered : ProcMap[q] = ProcMap[p] <=> group[q] = g
  BY <1>2, ActorsAreThere, LeadersAreKnown, TableOfRegistered DEF TypedInv
<1>5. \A q : Table(q)' = Fds'[ProcMap'[q]]
  BY DEF Table
<1>6. ProcMap[p] \in ProcState
  BY <1>4, TableOfRegistered DEF TypedInv
<1>7. \A q \in Registered : group[q] = g => Table(q)' = new /\ Table(q) = Table(p)
  BY <1>1, <1>3, <1>4, <1>5, <1>6 DEF TypedInv, ContextTyped, Table
<1>8. Calls(g)' = Calls(g) \ {p} /\ p \in Calls(g)
  BY <1>1, <1>2, <1>3 DEF Calls
<1>9. ASSUME NEW q \in Calls(g), q # p
      PROVE  /\ q \in Registered /\ stop'[q] = stop[q] /\ Table(q)' = new /\ Table(q) = Table(p)
             /\ Apart(r, stop[q].regs)
  <2>1. q \in Pid /\ group[q] = g /\ stop[q].event = "syscall"
    BY <1>9 DEF Calls
  <2>2. stop[q] # Absent /\ stop[q].event # "born"
    BY <2>1, Events
  <2>3. q \in Registered
    BY <2>1, <2>2, LeadersAreKnown DEF TypedInv
  <2> QED  BY <1>3, <1>7, <1>8, <1>9, <2>1, <2>3 DEF AgreesOn
<1>10. \A a, b \in Calls(g)' : a # b => Apart(stop'[a].regs, stop'[b].regs)
  BY <1>8, <1>9 DEF AgreesOn
<1>11. Done(r, Table(p), kfds[g], Followed(g))
  BY <1>8 DEF AgreesOn
<1>12. kfds' = kfds /\ Followed(g)' = Followed(g)
  BY DEF Followed
<1>13. \A q \in Calls(g)' : Done(stop'[q].regs, Table(q)', kfds'[g], Followed(g)')
  <2> SUFFICES ASSUME NEW q \in Calls(g), q # p
               PROVE  Done(stop[q].regs, new, kfds[g], Followed(g))
    BY <1>8, <1>9, <1>12
  <2>1. Done(stop[q].regs, Table(p), kfds[g], Followed(g))
    BY <1>9 DEF AgreesOn
  <2>2. Changes(r) \cap Slots(stop[q].regs) = {}
    BY <1>9, ApartSlots
  <2>3. OpenSlots(new) \subseteq OpenSlots(Table(p)) \cup Changes(r)
    BY <1>1, <1>4, HandledSlots
  <2> QED  BY <2>1, <2>2, <2>3, DoneAt
<1>14. Live(g)
  BY <1>1, <1>4 DEF Live
<1>15. Fits(new, kfds[g], Followed(g),
            Busy(g) \ Changes(r), BusyFlags(g) \ (Changes(r) \cup Flagged(r)))
  <2>1. Fits(Table(p), kfds[g], Followed(g), Busy(g), BusyFlags(g))
    BY <1>4, <1>14 DEF AgreesOn, Agrees
  <2>2. Busy(g) \subseteq BusyFlags(g)
    BY BusyIs
  <2>3. Sound(kfds[g], Followed(g))
    BY DEF Sound, Followed
  <2>4. Agreeing(kfds[g])
    <3>1. \A fd \in Fd : kfds[g][fd].cloexec \in BOOLEAN
      BY DEF TypedInv, KernelTyped
    <3> QED  BY <3>1 DEF Agreeing, MixedCloexec
  <2>5. /\ Slots(r) \cap Busy(g) \subseteq Changes(r)
        /\ Slots(r) \cap BusyFlags(g) \subseteq Changes(r) \cup Flagged(r)
    <3>1. \A q \in Calls(g) : q # p =>
            (Changes(stop[q].regs) \cup Flagged(stop[q].regs)) \cap Slots(r) = {}
      BY <1>9, ApartSlots
    <3>2. \A fd : fd \in Busy(g) <=> \E q \in Calls(g) : fd \in Changes(stop[q].regs)
      BY BusyIs
    <3>3. \A fd : fd \in BusyFlags(g) <=>
                    \E q \in Calls(g) : fd \in Changes(stop[q].regs) \cup Flagged(stop[q].regs)
      BY BusyIs
    <3> QED  BY <3>1, <3>2, <3>3
  <2> QED  BY <1>1, <1>4, <1>11, <2>1, <2>2, <2>3, <2>4, <2>5, HandledFits
<1>16. /\ Busy(g) \ Changes(r) \subseteq Busy(g)'
       /\ BusyFlags(g) \ (Changes(r) \cup Flagged(r)) \subseteq BusyFlags(g)'
  <2>1. /\ \A fd : fd \in Busy(g)' <=> \E q \in Calls(g)' : fd \in Changes(stop'[q].regs)
        /\ \A fd : fd \in BusyFlags(g)' <=>
                     \E q \in Calls(g)' : fd \in Changes(stop'[q].regs) \cup Flagged(stop'[q].regs)
    BY DEF Busy, BusyFlags
  <2>2. /\ \A fd : fd \in Busy(g) <=> \E q \in Calls(g) : fd \in Changes(stop[q].regs)
        /\ \A fd : fd \in BusyFlags(g) <=>
                     \E q \in Calls(g) : fd \in Changes(stop[q].regs) \cup Flagged(stop[q].regs)
    BY BusyIs
  <2>3. \A q \in Calls(g) : q # p => q \in Calls(g)' /\ stop'[q] = stop[q]
    BY <1>8, <1>9
  <2> QED  BY <2>1, <2>2, <2>3
<1>17. Fits(new, kfds[g], Followed(g), Busy(g)', BusyFlags(g)')
  BY <1>15, <1>16, FitsMore
<1>18. Table(g)' = new
  BY <1>4, <1>7
<1>19. Live(g)' => Agrees(Table(g), g)'
  BY <1>12, <1>17, <1>18 DEF Agrees
<1> QED  BY <1>10, <1>13, <1>19 DEF AgreesOn

LEMMA AnsweredKeepsAgree ==
  ASSUME TypedInv, LifeInv, AgreeInv, NEW p \in Pid, NEW new, Answered(p, new), ContextTyped',
         UNCHANGED <<files, use, kfds, ofds>>
  PROVE  AgreeInv'
<1>1. /\ stop[p].event = "syscall"
      /\ stop' = [stop EXCEPT ![p] = Running]
      /\ UNCHANGED <<ProcMap, GroupLeaders, group>>
      /\ Fds' = [Fds EXCEPT ![ProcMap[p]] = new]
  BY DEF Answered
<1>2. Running.event = "running" /\ stop[p] # Absent /\ stop[p].event # "born"
  BY <1>1, Events
<1>3. /\ \A q \in Pid : stop'[q] = IF q = p THEN Running ELSE stop[q]
      /\ group' = group /\ ProcMap' = ProcMap
  BY <1>1 DEF LifeInv, ThreadInv
<1>4. /\ p \in Registered /\ group[p] \in Pid
      /\ \A q \in Registered : ProcMap[q] = ProcMap[p] <=> group[q] = group[p]
  BY <1>2, ActorsAreThere, LeadersAreKnown DEF TypedInv
<1>5. \A q \in Registered : group[q] # group[p] => Table(q)' = Table(q)
  <2>1. \A q \in Registered : ProcMap[q] \in ProcState
    BY TableOfRegistered DEF TypedInv
  <2> QED  BY <1>1, <1>3, <1>4, <2>1 DEF TypedInv, ContextTyped, Table
<1>6. \A q \in Pid : stop[q] # Absent /\ stop[q].event # "born" =>
        q \in Registered /\ (group[q] = q \/ group[q] # q)
  BY LeadersAreKnown DEF TypedInv
<1>7. \A g : Same(g)
  BY DEF Same, Followed
<1>8. ASSUME NEW g \in Pid
      PROVE  AgreesOn(g)'
  <2>1. AgreesOn(g)
    BY DEF AgreeInv
  <2>2. CASE g = group[p]
    <3>1. Slotted(Table(p)) /\ Slotted(new)
      BY AnsweredKeeps
    <3> QED  BY <2>1, <2>2, <3>1, AnsweredAgrees DEF AgreeInv
  <2>3. CASE g # group[p]
    <3>1. Calls(g)' = Calls(g)
      BY <1>3, <2>3 DEF Calls
    <3>2. ASSUME NEW q \in Calls(g)
          PROVE  stop'[q] = stop[q] /\ Table(q)' = Table(q)
      <4>1. q \in Pid /\ group[q] = g /\ stop[q].event = "syscall"
        BY <3>2 DEF Calls
      <4>2. q \in Registered
        BY <1>6, <4>1, Events
      <4> QED  BY <1>3, <1>5, <2>3, <4>1, <4>2
    <3>3. ASSUME Live(g)'
          PROVE  Live(g) /\ Table(g)' = Table(g)
      <4>1. Live(g)
        BY <1>3, <2>3, <3>3 DEF Live
      <4>2. PICK q \in Pid : group[q] = g /\ stop[q].event \in {"running", "syscall", "fork", "clone"}
        BY <4>1 DEF Live
      <4>3. stop[q] # Absent /\ stop[q].event # "born"
        BY <4>2, Events
      <4>4. g \in Registered /\ group[g] = g
        BY <4>1, <4>2, <4>3, LeadersAreKnown DEF TypedInv, Live
      <4> QED  BY <1>5, <2>3, <4>1, <4>4
    <3>4. Aside(g)
      BY <1>7, <3>1, <3>2, <3>3 DEF Aside
    <3> QED  BY <2>1, <3>4, AsideAgrees
  <2> QED  BY <2>2, <2>3
<1>9. ForksAgree' /\ ExecsAgree'
  <2>1. ASSUME NEW q \in Pid, stop'[q].event \in {"fork", "exec"}
        PROVE  stop'[q] = stop[q] /\ Table(q)' = Table(q)
    <3>1. q # p /\ stop'[q] = stop[q]
      BY <1>2, <1>3, <2>1
    <3>2. group[q] # group[p]
      BY <1>2, <2>1, <3>1, LonersAreApart DEF TypedInv
    <3>3. q \in Registered
      BY <1>6, <2>1, <3>1, Events
    <3> QED  BY <1>5, <3>1, <3>2, <3>3
  <2> DEFINE D == {}
  <2>2. /\ \A q \in Pid \ D : Same(q)
        /\ \A q \in Pid : stop'[q].event \in {"fork", "exec"} =>
             stop'[q] = stop[q] /\ q \notin D /\ Table(q)' = Table(q)
        /\ \A q \in Pid : stop'[q].event = "fork" => stop[q].child \notin D
    BY <1>7, <2>1
  <2> HIDE DEF D
  <2> QED  BY <2>2, OthersWait DEF TypedInv, AgreeInv
<1> QED  BY <1>8, <1>9 DEF AgreeInv, MixedCloexec


LEMMA KernelAside ==
  ASSUME UNCHANGED contextVars, NEW g, Same(g),
         \A q \in Pid : q \in Calls(g)' <=> q \in Calls(g),
         \A q \in Calls(g) : stop'[q] = stop[q], Live(g)' => Live(g)
  PROVE  Aside(g)
<1>1. Calls(g)' = Calls(g)
  BY DEF Calls
<1>2. \A q : Table(q)' = Table(q)
  BY DEF contextVars, Table
<1> QED  BY <1>1, <1>2 DEF Aside

\* Where no thread is yet, none belongs to it.
LEMMA NobodyYet ==
  ASSUME LifeInv, KernelTyped, NEW child \in Pid, stop[child] = Absent
  PROVE  \A q \in Pid : stop[q] # Absent => group[q] # child
BY ActorsAreThere

LEMMA ForkKeepsAgree ==
  ASSUME TypedInv, LifeInv, AgreeInv, NEW p \in Pid, NEW child \in Pid, stop[p] = Running,
         Fork(p, child), UNCHANGED contextVars
  PROVE  AgreeInv'
<1> DEFINE inherited == {kfds[p][fd].ofd : fd \in {f \in Fd : Writable(p, f)}}
           s == [Running EXCEPT !.event = "fork", !.child = child]
           born == [Absent EXCEPT !.event = "born"]
<1>1. /\ s.event = "fork" /\ s.child = child /\ born.event = "born" /\ Running.event = "running"
      /\ Absent.event = "absent" /\ Running # Absent
  BY Events
<1>2. /\ kfds' = [kfds EXCEPT ![child] = kfds[p]] /\ ofds' = Split(ofds, inherited)
      /\ stop' = [stop EXCEPT ![p] = s, ![child] = born]
      /\ group' = [group EXCEPT ![child] = child]
      /\ stop[child] = Absent /\ Members(p) = {p}
  BY DEF Fork
<1> HIDE DEF s, born, inherited
<1>3. /\ \A q \in Pid : stop'[q] = IF q = child THEN born ELSE IF q = p THEN s ELSE stop[q]
      /\ \A q \in Pid : group'[q] = IF q = child THEN child ELSE group[q]
      /\ \A q \in Pid : kfds'[q] = IF q = child THEN kfds[p] ELSE kfds[q]
      /\ \A q : Table(q)' = Table(q)
      /\ p # child
  BY <1>1, <1>2 DEF LifeInv, ThreadInv, TypedInv, KernelTyped, contextVars, Table
<1>4. \A q \in Pid : stop[q] # Absent => group[q] # child
  BY <1>2, NobodyYet DEF TypedInv
<1>5. group[p] = p
  BY <1>1, <1>2, LonersAre DEF TypedInv
<1>6. \A o \in Ofd : ofds'[o].followed = ofds[o].followed
  BY <1>2, SplitTyped DEF TypedInv, KernelTyped
<1>7. \A q \in Pid, fd \in Fd : kfds[q][fd].ofd \in Ofd \cup {None}
  BY DEF TypedInv, KernelTyped
<1>8. ASSUME NEW q \in Pid, q # child
      PROVE  Same(q)
  <2>1. \A fd \in Fd : fd \in Followed(q)' <=> fd \in Followed(q)
    BY <1>3, <1>6, <1>7, <1>8 DEF Followed
  <2>2. Followed(q)' \subseteq Fd /\ Followed(q) \subseteq Fd
    BY DEF Followed
  <2> QED  BY <1>3, <1>8, <2>1, <2>2 DEF Same
<1>9. ~MixedCloexec(kfds)'
  <2>1. ~MixedCloexec(kfds)
    BY DEF AgreeInv
  <2> QED  BY <1>3, <2>1 DEF MixedCloexec
<1>10. ASSUME NEW g \in Pid, g # child
       PROVE  AgreesOn(g)'
  <2>1. ASSUME NEW q \in Pid
        PROVE  q \in Calls(g)' <=> q \in Calls(g)
    <3>1. CASE q = child
      BY <1>1, <1>2, <1>3, <1>10, <3>1 DEF Calls
    <3>2. CASE q = p
      BY <1>1, <1>2, <1>3, <3>2 DEF Calls
    <3>3. CASE q # child /\ q # p
      BY <1>3, <3>3 DEF Calls
    <3> QED  BY <3>1, <3>2, <3>3
  <2>2. \A q \in Calls(g) : stop'[q] = stop[q]
    BY <1>1, <1>2, <1>3 DEF Calls
  <2>3. Live(g)' => Live(g)
    BY <1>1, <1>2, <1>3, <1>10 DEF Live
  <2>4. Aside(g)
    BY <1>8, <1>10, <2>1, <2>2, <2>3, KernelAside
  <2> QED  BY <2>4, AsideAgrees DEF AgreeInv
<1>11. AgreesOn(child)'
  <2>1. \A q \in Pid : q # child => group'[q] = group[q] /\ (group[q] = child => stop[q] = Absent)
    BY <1>3, <1>4
  <2>2. \A q \in Pid : group'[q] = child => stop'[q].event \in {"absent", "born"}
    <3> SUFFICES ASSUME NEW q \in Pid, group'[q] = child, q # child
                 PROVE  stop'[q].event = "absent"
      BY <1>1, <1>3
    <3>1. stop[q] = Absent
      BY <2>1
    <3>2. q # p
      BY <1>1, <3>1
    <3> QED  BY <1>1, <1>3, <3>1, <3>2
  <2>3. Calls(child)' = {}
    BY <2>2 DEF Calls
  <2>4. ~Live(child)'
    BY <2>2 DEF Live
  <2> QED  BY <2>3, <2>4 DEF AgreesOn
<1>12. ASSUME NEW q \in Pid, stop'[q].event = "fork"
       PROVE  kfds'[stop'[q].child] = kfds'[q]
  <2>1. CASE q = p
    BY <1>1, <1>3, <2>1
  <2>2. CASE q # p
    <3>1. q # child /\ stop'[q] = stop[q] /\ stop[q].event = "fork"
      BY <1>1, <1>3, <1>12, <2>2
    <3>2. stop[q].child \in Pid /\ stop[q].child # child
      BY <1>1, <1>2, <3>1, ChildrenAre DEF TypedInv
    <3> QED  BY <1>3, <3>1, <3>2 DEF AgreeInv, ForksAgree
  <2> QED  BY <2>1, <2>2
<1>13. ASSUME NEW q \in Pid, stop'[q].event = "exec"
       PROVE  \A fd \in Fd :
                /\ ~kfds'[q][fd].cloexec
                /\ fd \in Followed(q)' <=>
                     fd \in OpenSlots(Table(q)') /\ ~IsCloexecSet(FileAt(Table(q)', fd))
  <2>1. q # child /\ q # p /\ stop'[q] = stop[q] /\ stop[q].event = "exec"
    BY <1>1, <1>3, <1>13
  <2>2. kfds'[q] = kfds[q] /\ Followed(q)' = Followed(q) /\ Table(q)' = Table(q)
    BY <1>3, <1>8, <2>1 DEF Same
  <2> QED  BY <2>1, <2>2 DEF AgreeInv, ExecsAgree
<1> QED  BY <1>9, <1>10, <1>11, <1>12, <1>13 DEF AgreeInv, ForksAgree, ExecsAgree

LEMMA CloneKeepsAgree ==
  ASSUME TypedInv, LifeInv, AgreeInv, NEW p \in Pid, NEW thread \in Pid, stop[p] = Running,
         Clone(p, thread), UNCHANGED contextVars
  PROVE  AgreeInv'
<1> DEFINE s == [Running EXCEPT !.event = "clone", !.child = thread]
           born == [Absent EXCEPT !.event = "born"]
<1>1. /\ s.event = "clone" /\ s.child = thread /\ born.event = "born" /\ Running.event = "running"
      /\ Absent.event = "absent" /\ Running # Absent
  BY Events
<1>2. /\ stop' = [stop EXCEPT ![p] = s, ![thread] = born]
      /\ group' = [group EXCEPT ![thread] = group[p]]
      /\ stop[thread] = Absent /\ kfds' = kfds /\ ofds' = ofds
  BY DEF Clone
<1> HIDE DEF s, born
<1>3. /\ \A q \in Pid : stop'[q] = IF q = thread THEN born ELSE IF q = p THEN s ELSE stop[q]
      /\ \A q \in Pid : group'[q] = IF q = thread THEN group[p] ELSE group[q]
      /\ \A q : Table(q)' = Table(q)
      /\ p # thread
  BY <1>1, <1>2 DEF LifeInv, ThreadInv, TypedInv, KernelTyped, contextVars, Table
<1>4. group[p] # thread
  BY <1>1, <1>2, NobodyYet DEF TypedInv
<1>5. \A q : Same(q)
  BY <1>2 DEF Same, Followed
<1>6. ASSUME NEW g \in Pid
      PROVE  AgreesOn(g)'
  <2>1. \A q \in Pid : q \in Calls(g)' <=> q \in Calls(g)
    <3> SUFFICES ASSUME NEW q \in Pid PROVE q \in Calls(g)' <=> q \in Calls(g)
      OBVIOUS
    <3>1. CASE q \in {p, thread}
      <4>1. stop[q].event # "syscall" /\ stop'[q].event # "syscall"
        BY <1>1, <1>2, <1>3, <3>1
      <4> QED  BY <4>1 DEF Calls
    <3>2. CASE q \notin {p, thread}
      <4>1. stop'[q] = stop[q] /\ group'[q] = group[q]
        BY <1>3, <3>2
      <4> QED  BY <4>1 DEF Calls
    <3> QED  BY <3>1, <3>2
  <2>2. \A q \in Calls(g) : stop'[q] = stop[q]
    <3>1. \A q \in Calls(g) : q \in Pid /\ stop[q].event = "syscall"
      BY DEF Calls
    <3> QED  BY <1>1, <1>2, <1>3, <3>1
  <2>3. Live(g)' => Live(g)
    BY <1>1, <1>2, <1>3, <1>4 DEF Live
  <2>4. Aside(g)
    BY <1>5, <2>1, <2>2, <2>3, KernelAside
  <2> QED  BY <2>4, AsideAgrees DEF AgreeInv
<1>7. ForksAgree' /\ ExecsAgree'
  <2> DEFINE D == {}
  <2>1. /\ \A q \in Pid \ D : Same(q)
        /\ \A q \in Pid : stop'[q].event \in {"fork", "exec"} =>
             stop'[q] = stop[q] /\ q \notin D /\ Table(q)' = Table(q)
        /\ \A q \in Pid : stop'[q].event = "fork" => stop[q].child \notin D
    BY <1>1, <1>3, <1>5
  <2> HIDE DEF D
  <2> QED  BY <2>1, OthersWait DEF TypedInv, AgreeInv
<1> QED  BY <1>2, <1>6, <1>7 DEF AgreeInv, MixedCloexec

LEMMA ExecKeepsAgree ==
  ASSUME TypedInv, LifeInv, AgreeInv, NEW p \in Pid, stop[p] = Running,
         Exec(p), UNCHANGED contextVars
  PROVE  AgreeInv'
<1> DEFINE table == [fd \in Fd |-> IF kfds[p][fd].cloexec THEN Closed ELSE kfds[p][fd]]
           dups == {o \in Ofd : ofds[o].write /\ \E a, b \in Fd :
                                  a # b /\ table[a].ofd = o /\ table[b].ofd = o}
           fds == [kfds EXCEPT ![p] = table]
           descriptions == Split(ofds, dups)
           s == [Running EXCEPT !.event = "exec"]
<1>1. s.event = "exec" /\ Running.event = "running" /\ Absent.event = "absent" /\ Running # Absent
  BY Events
<1>2. /\ SetDescriptors(fds, descriptions) /\ group' = group /\ Members(p) = {p}
      /\ stop' = [stop EXCEPT ![p] = s]
  BY DEF Exec
<1>3. table \in [Fd -> [ofd : Ofd \cup {None}, cloexec : BOOLEAN]]
  BY FreeTyped DEF TypedInv, KernelTyped
<1>4. \A fd \in Fd : /\ ~table[fd].cloexec
                     /\ table[fd] = kfds[p][fd] \/ (kfds[p][fd].cloexec /\ table[fd].ofd = None)
                     /\ kfds[p][fd].cloexec => table[fd].ofd = None
  BY DEF Closed
<1> HIDE DEF table, dups, s
<1>5. fds \in Entries /\ \A q \in Pid : fds[q] = IF q = p THEN table ELSE kfds[q]
  BY <1>3 DEF TypedInv, KernelTyped, Entries
<1>6. /\ descriptions \in [Ofd -> Description]
      /\ \A o \in Ofd : descriptions[o].followed = ofds[o].followed
  BY SplitTyped DEF TypedInv, KernelTyped
<1> HIDE DEF fds, descriptions
<1>7. /\ kfds' = fds
      /\ \A q \in Pid, fd \in Fd :
           fds[q][fd].ofd # None => ofds'[fds[q][fd].ofd] = descriptions[fds[q][fd].ofd]
  BY <1>2, <1>5, <1>6, DescriptorsSet
<1>8. \A q \in Pid, fd \in Fd : fds[q][fd].ofd \in Ofd \cup {None}
  BY <1>5 DEF Entries
<1>9. \A q \in Pid, fd \in Fd : fds[q][fd].ofd # None =>
        ofds'[fds[q][fd].ofd].followed = ofds[fds[q][fd].ofd].followed
  BY <1>6, <1>7, <1>8
<1>10. /\ \A q \in Pid : stop'[q] = IF q = p THEN s ELSE stop[q]
       /\ \A q : Table(q)' = Table(q)
  BY <1>2 DEF LifeInv, ThreadInv, contextVars, Table
<1>11. group[p] = p /\ \A q \in Pid : stop[q] # Absent /\ group[q] = p => q = p
  BY <1>1, <1>2, LonersAre DEF TypedInv
<1>12. ASSUME NEW q \in Pid, q # p
       PROVE  Same(q)
  <2>1. \A fd \in Fd : fd \in Followed(q)' <=> fd \in Followed(q)
    BY <1>5, <1>7, <1>9, <1>12 DEF Followed
  <2>2. Followed(q)' \subseteq Fd /\ Followed(q) \subseteq Fd
    BY DEF Followed
  <2> QED  BY <1>5, <1>7, <1>12, <2>1, <2>2 DEF Same
<1>13. ~MixedCloexec(kfds)'
  <2>1. \A q \in Pid, fd \in Fd : kfds'[q][fd] = kfds[q][fd] \/ kfds'[q][fd].ofd = None
    BY <1>4, <1>5, <1>7
  <2> QED  BY <2>1 DEF MixedCloexec, AgreeInv
<1>14. ASSUME NEW g \in Pid
       PROVE  AgreesOn(g)'
  <2>1. CASE g = p
    <3>1. \A q \in Pid : group'[q] = p => stop'[q].event \in {"absent", "exec"}
      BY <1>1, <1>2, <1>10, <1>11
    <3>2. Calls(p)' = {} /\ ~Live(p)'
      BY <3>1 DEF Calls, Live
    <3> QED  BY <2>1, <3>2 DEF AgreesOn
  <2>2. CASE g # p
    <3>1. \A q \in Pid : q \in Calls(g)' <=> q \in Calls(g)
      BY <1>1, <1>2, <1>10, <1>11, <2>2 DEF Calls
    <3>2. \A q \in Calls(g) : stop'[q] = stop[q]
      BY <1>1, <1>10, <1>11, <2>2 DEF Calls
    <3>3. Live(g)' => Live(g)
      BY <1>1, <1>2, <1>10 DEF Live
    <3>4. Aside(g)
      BY <1>12, <2>2, <3>1, <3>2, <3>3, KernelAside
    <3> QED  BY <3>4, AsideAgrees DEF AgreeInv
  <2> QED  BY <2>1, <2>2
<1>15. ForksAgree'
  <2> SUFFICES ASSUME NEW q \in Pid, stop'[q].event = "fork"
               PROVE  kfds'[stop'[q].child] = kfds'[q]
    BY DEF ForksAgree
  <2>1. q # p /\ stop'[q] = stop[q] /\ stop[q].event = "fork"
    BY <1>1, <1>10
  <2>2. stop[q].child \in Pid /\ stop[q].child # p
    BY <1>1, <2>1, ChildrenAre DEF TypedInv
  <2> QED  BY <1>12, <2>1, <2>2 DEF AgreeInv, ForksAgree, Same
<1>16. ASSUME NEW fd \in Fd
       PROVE  /\ ~kfds'[p][fd].cloexec
              /\ fd \in Followed(p)' <=>
                   fd \in OpenSlots(Table(p)') /\ ~IsCloexecSet(FileAt(Table(p)', fd))
  <2>1. Live(p)
    BY <1>1, <1>11 DEF Live
  <2>2. Calls(p) = {}
    BY <1>1, <1>11 DEF Calls
  <2>3. Busy(p) = {} /\ BusyFlags(p) = {}
    BY <2>2 DEF Busy, BusyFlags
  <2>4. Fits(Table(p), kfds[p], Followed(p), {}, {})
    BY <2>1, <2>3 DEF AgreeInv, AgreesOn, Agrees
  <2>5. fd \in OpenSlots(Table(p)) <=> fd \in Followed(p)
    BY <2>4 DEF Fits
  <2>6. fd \in OpenSlots(Table(p)) => (IsCloexecSet(FileAt(Table(p), fd)) <=> kfds[p][fd].cloexec)
    <3> SUFFICES ASSUME fd \in OpenSlots(Table(p))
                 PROVE  IsCloexecSet(FileAt(Table(p), fd)) <=> kfds[p][fd].cloexec
      OBVIOUS
    <3>1. PICK e \in Table(p) : fd \in e.slots
      BY DEF OpenSlots
    <3>2. p \in Registered
      BY <1>1, LeadersAreKnown DEF TypedInv
    <3>3. Slotted(Table(p))
      BY <3>2, TableOfRegistered DEF TypedInv, SlottedInv, Table
    <3>4. FileAt(Table(p), fd) = e.file
      BY <3>1, <3>3, FileAtIs
    <3> QED  BY <2>4, <3>1, <3>4 DEF Fits
  <2>7. fd \in Followed(p)' <=> fd \in Followed(p) /\ ~kfds[p][fd].cloexec
    BY <1>4, <1>5, <1>7, <1>9 DEF Followed
  <2> QED  BY <1>4, <1>5, <1>7, <1>10, <2>5, <2>6, <2>7
<1>17. ASSUME NEW q \in Pid, q # p, stop'[q].event = "exec", NEW fd \in Fd
       PROVE  /\ ~kfds'[q][fd].cloexec
              /\ fd \in Followed(q)' <=>
                   fd \in OpenSlots(Table(q)') /\ ~IsCloexecSet(FileAt(Table(q)', fd))
  <2>1. kfds'[q] = kfds[q] /\ Followed(q)' = Followed(q) /\ Table(q)' = Table(q) /\ stop'[q] = stop[q]
    BY <1>10, <1>12, <1>17 DEF Same
  <2> QED  BY <1>17, <2>1 DEF AgreeInv, ExecsAgree
<1>18. ExecsAgree'
  BY <1>16, <1>17 DEF ExecsAgree
<1> QED  BY <1>13, <1>14, <1>15, <1>18 DEF AgreeInv


LEMMA ExitKeepsAgree ==
  ASSUME TypedInv, LifeInv, AgreeInv, NEW p \in Pid, stop[p] = Running,
         Exit(p), UNCHANGED contextVars
  PROVE  AgreeInv'
<1> DEFINE fds == [kfds EXCEPT ![group[p]] = AllClosed]
           s == [Running EXCEPT !.event = "exit"]
<1>1. s.event = "exit" /\ Running.event = "running" /\ Absent.event = "absent" /\ Running # Absent
  BY Events
<1>2. /\ SetDescriptors(fds, ofds) /\ group' = group
      /\ stop' = [q \in Pid |-> IF q \in Members(p) THEN s ELSE stop[q]]
  BY DEF Exit
<1>3. group[p] \in Pid
  BY <1>1, ActorsAreThere DEF TypedInv
<1>4. /\ AllClosed \in [Fd -> [ofd : Ofd \cup {None}, cloexec : BOOLEAN]]
      /\ \A fd \in Fd : AllClosed[fd].ofd = None
  BY FreeTyped DEF AllClosed, Closed
<1> HIDE DEF s
<1>5. fds \in Entries /\ \A q \in Pid : fds[q] = IF q = group[p] THEN AllClosed ELSE kfds[q]
  BY <1>3, <1>4 DEF TypedInv, KernelTyped, Entries
<1> HIDE DEF fds
<1>6. /\ kfds' = fds
      /\ \A q \in Pid, fd \in Fd : fds[q][fd].ofd # None => ofds'[fds[q][fd].ofd] = ofds[fds[q][fd].ofd]
  <2>1. ofds \in [Ofd -> Description]
    BY DEF TypedInv, KernelTyped
  <2> QED  BY <1>2, <1>5, <2>1, DescriptorsSet
<1>7. \A q \in Pid : stop'[q] = IF stop[q] # Absent /\ group[q] = group[p] THEN s ELSE stop[q]
  BY <1>2 DEF Members
<1>8. \A q : Table(q)' = Table(q)
  BY DEF contextVars, Table
<1>9. ASSUME NEW q \in Pid, q # group[p]
      PROVE  Same(q)
  <2>1. \A fd \in Fd : fd \in Followed(q)' <=> fd \in Followed(q)
    BY <1>5, <1>6, <1>9 DEF Followed
  <2>2. Followed(q)' \subseteq Fd /\ Followed(q) \subseteq Fd
    BY DEF Followed
  <2> QED  BY <1>5, <1>6, <1>9, <2>1, <2>2 DEF Same
<1>10. ~MixedCloexec(kfds)'
  <2>1. \A q \in Pid, fd \in Fd : kfds'[q][fd] = kfds[q][fd] \/ kfds'[q][fd].ofd = None
    BY <1>4, <1>5, <1>6
  <2> QED  BY <2>1 DEF MixedCloexec, AgreeInv
<1>11. ASSUME NEW g \in Pid
       PROVE  AgreesOn(g)'
  <2>1. CASE g = group[p]
    <3>1. \A q \in Pid : group'[q] = g => stop'[q].event \in {"absent", "exit"}
      BY <1>1, <1>2, <1>7, <2>1
    <3>2. Calls(g)' = {} /\ ~Live(g)'
      BY <3>1 DEF Calls, Live
    <3> QED  BY <3>2 DEF AgreesOn
  <2>2. CASE g # group[p]
    <3>1. \A q \in Pid : q \in Calls(g)' <=> q \in Calls(g)
      BY <1>2, <1>7, <2>2 DEF Calls
    <3>2. \A q \in Calls(g) : stop'[q] = stop[q]
      BY <1>7, <2>2 DEF Calls
    <3>3. Live(g)' => Live(g)
      BY <1>2, <1>7, <2>2 DEF Live
    <3>4. Aside(g)
      BY <1>9, <2>2, <3>1, <3>2, <3>3, KernelAside
    <3> QED  BY <3>4, AsideAgrees DEF AgreeInv
  <2> QED  BY <2>1, <2>2
<1>12. ForksAgree' /\ ExecsAgree'
  <2> DEFINE D == {group[p]}
  <2>1. ASSUME NEW q \in Pid, stop'[q].event \in {"fork", "exec"}
        PROVE  /\ stop'[q] = stop[q] /\ q # group[p] /\ Table(q)' = Table(q)
               /\ stop'[q].event = "fork" => stop[q].child # group[p]
    <3>1. stop'[q] = stop[q] /\ q # p
      BY <1>1, <1>7, <2>1
    <3> QED  BY <1>1, <1>8, <2>1, <3>1, LonersAreApart DEF TypedInv
  <2>2. /\ \A q \in Pid \ D : Same(q)
        /\ \A q \in Pid : stop'[q].event \in {"fork", "exec"} =>
             stop'[q] = stop[q] /\ q \notin D /\ Table(q)' = Table(q)
        /\ \A q \in Pid : stop'[q].event = "fork" => stop[q].child \notin D
    BY <1>9, <2>1
  <2> HIDE DEF D
  <2> QED  BY <2>2, OthersWait DEF TypedInv, AgreeInv
<1> QED  BY <1>10, <1>11, <1>12 DEF AgreeInv

LEMMA ThreadExitKeepsAgree ==
  ASSUME TypedInv, LifeInv, AgreeInv, NEW p \in Pid, stop[p] = Running,
         ThreadExit(p), UNCHANGED contextVars
  PROVE  AgreeInv'
<1> DEFINE s == [Running EXCEPT !.event = "exit"]
<1>1. s.event = "exit" /\ Running.event = "running"
  BY Events
<1>2. group' = group /\ kfds' = kfds /\ ofds' = ofds /\ stop' = [stop EXCEPT ![p] = s]
  BY DEF ThreadExit
<1> HIDE DEF s
<1>3. /\ \A q \in Pid : stop'[q] = IF q = p THEN s ELSE stop[q]
      /\ \A q : Table(q)' = Table(q) /\ Same(q)
  BY <1>2 DEF LifeInv, ThreadInv, contextVars, Table, Same, Followed
<1>4. ASSUME NEW g \in Pid
      PROVE  AgreesOn(g)'
  <2>1. \A q \in Pid : q \in Calls(g)' <=> q \in Calls(g)
    BY <1>1, <1>2, <1>3 DEF Calls
  <2>2. \A q \in Calls(g) : stop'[q] = stop[q]
    BY <1>1, <1>3 DEF Calls
  <2>3. Live(g)' => Live(g)
    BY <1>1, <1>2, <1>3 DEF Live
  <2>4. Aside(g)
    BY <1>3, <2>1, <2>2, <2>3, KernelAside
  <2> QED  BY <2>4, AsideAgrees DEF AgreeInv
<1>5. ForksAgree' /\ ExecsAgree'
  <2> DEFINE D == {}
  <2>1. /\ \A q \in Pid \ D : Same(q)
        /\ \A q \in Pid : stop'[q].event \in {"fork", "exec"} =>
             stop'[q] = stop[q] /\ q \notin D /\ Table(q)' = Table(q)
        /\ \A q \in Pid : stop'[q].event = "fork" => stop[q].child \notin D
    BY <1>1, <1>3
  <2> HIDE DEF D
  <2> QED  BY <2>1, OthersWait DEF TypedInv, AgreeInv
<1> QED  BY <1>2, <1>4, <1>5 DEF AgreeInv, MixedCloexec

\* The steps that concern neither descriptors nor threads.
LEMMA UnconcernedKeeps ==
  ASSUME UNCHANGED <<contextVars, group, kfds, ofds, stop>>
  PROVE  (LifeInv => LifeInv') /\ (AgreeInv => AgreeInv')
<1>1. UNCHANGED <<ProcMap, GroupLeaders, Fds, group, kfds, ofds, stop>>
  BY DEF contextVars
<1>2. LifeInv => LifeInv'
  <2>1. ThreadInv => ThreadInv'
    BY <1>1 DEF ThreadInv
  <2>2. Over' <=> Over
    BY <1>1 DEF Over
  <2>3. GroupInv => GroupInv'
    BY <1>1 DEF GroupInv, Members
  <2>4. BirthInv => BirthInv'
    BY <1>1 DEF BirthInv
  <2>5. KnownInv => KnownInv'
    BY <1>1 DEF KnownInv, Registered
  <2> QED  BY <2>1, <2>2, <2>3, <2>4, <2>5 DEF LifeInv
<1>3. /\ \A g : Calls(g)' = Calls(g) /\ Followed(g)' = Followed(g) /\ Table(g)' = Table(g)
      /\ \A g : Live(g)' <=> Live(g)
  BY <1>1 DEF Calls, Followed, Table, Live
<1>4. \A g : Aside(g)
  BY <1>1, <1>3 DEF Aside, Same
<1>5. AgreeInv => \A g \in Pid : AgreesOn(g)'
  BY <1>4, AsideAgrees DEF AgreeInv
<1>6. AgreeInv => ForksAgree' /\ ExecsAgree'
  BY <1>1, <1>3 DEF AgreeInv, ForksAgree, ExecsAgree
<1> QED  BY <1>1, <1>2, <1>5, <1>6 DEF AgreeInv, MixedCloexec

LEMMA HandleForkKeepsAgree ==
  ASSUME TypedInv, LifeInv, AgreeInv, NEW p \in Pid, HandleFork(p),
         UNCHANGED <<files, use, kfds, ofds>>
  PROVE  AgreeInv'
<1> DEFINE child == stop[p].child
<1>1. /\ stop[p].event = "fork" /\ RegisterProcess(p, child)
      /\ stop' = [stop EXCEPT ![p] = Running, ![child] = Running]
      /\ group' = group
  BY DEF HandleFork
<1>2. Running.event = "running" /\ Absent.event = "absent" /\ stop[p] # Absent
  BY <1>1, Events
<1>3. /\ group[p] = p /\ child \in Pid /\ child # p
      /\ group[child] = child /\ stop[child].event = "born"
      /\ \A q \in Pid : stop[q] # Absent /\ group[q] = p => q = p
      /\ \A q \in Pid : stop[q] # Absent /\ group[q] = child => q = child
  BY <1>1, ChildrenAre DEF TypedInv
<1>4. PICK c \in Pid : c = child
  BY <1>3
<1> HIDE DEF child
<1>5. /\ p \in Registered /\ NewProcState \in ProcState /\ \A q \in Pid : ProcMap[q] # NewProcState
  BY HandleForkKeeps
<1>6. PICK new \in ProcState : new = NewProcState
  BY <1>5
<1>7. /\ ProcMap' = [ProcMap EXCEPT ![c] = new]
      /\ Fds' = [Fds EXCEPT ![new] = Copied(Table(p), OpenSlots(Table(p)))]
  BY <1>1, <1>4, <1>6 DEF RegisterProcess
<1>8. /\ \A q \in Pid : stop'[q] = IF q \in {p, c} THEN Running ELSE stop[q]
      /\ \A q \in Pid : ProcMap'[q] = IF q = c THEN new ELSE ProcMap[q]
  BY <1>1, <1>4, <1>7 DEF LifeInv, ThreadInv, TypedInv, ContextTyped
<1>9. /\ \A q \in Pid : q # c => Table(q)' = Table(q)
      /\ Table(c)' = Copied(Table(p), OpenSlots(Table(p)))
  BY <1>5, <1>6, <1>7, <1>8 DEF TypedInv, ContextTyped, Table
<1>10. \A q : Same(q)
  BY DEF Same, Followed
<1>11. ASSUME NEW g \in Pid
       PROVE  \A q \in Pid : q \in Calls(g)' <=> q \in Calls(g)
  <2> TAKE q \in Pid
  <2>1. CASE q \in {p, c}
    <3>1. stop[q].event # "syscall" /\ stop'[q].event # "syscall"
      BY <1>1, <1>2, <1>3, <1>4, <1>8, <2>1
    <3> QED  BY <3>1 DEF Calls
  <2>2. CASE q \notin {p, c}
    <3>1. stop'[q] = stop[q] /\ group'[q] = group[q]
      BY <1>1, <1>8, <2>2
    <3> QED  BY <3>1 DEF Calls
  <2> QED  BY <2>1, <2>2
<1>12. ASSUME NEW g \in Pid, g # c
       PROVE  AgreesOn(g)'
  <2>1. Calls(g)' = Calls(g)
    BY <1>11 DEF Calls
  <2>2. \A q \in Calls(g) : stop'[q] = stop[q] /\ Table(q)' = Table(q)
    BY <1>1, <1>3, <1>4, <1>8, <1>9 DEF Calls
  <2>3. Live(g)' => Live(g) /\ Table(g)' = Table(g)
    BY <1>1, <1>3, <1>4, <1>8, <1>9, <1>12 DEF Live
  <2>4. Aside(g)
    BY <1>10, <2>1, <2>2, <2>3 DEF Aside
  <2> QED  BY <2>4, AsideAgrees DEF AgreeInv
<1>13. AgreesOn(c)'
  <2>1. Calls(c)' = {}
    <3>1. \A q \in Pid : group'[q] = c => stop'[q].event # "syscall"
      BY <1>1, <1>2, <1>3, <1>4, <1>8
    <3> QED  BY <3>1 DEF Calls
  <2>2. Busy(c)' = {} /\ BusyFlags(c)' = {}
    BY <2>1 DEF Busy, BusyFlags
  <2>3. Live(p) /\ Calls(p) = {}
    BY <1>1, <1>2, <1>3, Events DEF Live, Calls
  <2>4. Busy(p) = {} /\ BusyFlags(p) = {}
    BY <2>3 DEF Busy, BusyFlags
  <2>5. Fits(Table(p), kfds[p], Followed(p), {}, {})
    BY <2>3, <2>4 DEF AgreeInv, AgreesOn, Agrees
  <2>6. kfds[c] = kfds[p] /\ Followed(c) = Followed(p)
    BY <1>1, <1>4 DEF AgreeInv, ForksAgree, Followed, child
  <2>7. Table(p) \in SUBSET Entry /\ Slotted(Table(p)) /\ OpenSlots(Table(p)) \in SUBSET Fd
    <3>1. Table(p) \in SUBSET Entry /\ ProcMap[p] \in ProcState
      BY <1>5, TableOfRegistered DEF TypedInv
    <3> QED  BY <3>1 DEF TypedInv, SlottedInv, Table, OpenSlots, Entry
  <2>8. \A fd \in Fd : fd \in OpenSlots(Table(p)) <=> fd \in Followed(p)
    BY <2>5 DEF Fits
  <2>9. ASSUME NEW fd \in OpenSlots(Table(p))
        PROVE  /\ FileAt(Table(p), fd) \in TFileState
               /\ IsCloexecSet(FileAt(Table(p), fd)) <=> kfds[p][fd].cloexec
    <3>1. PICK e \in Table(p) : fd \in e.slots
      BY DEF OpenSlots
    <3>2. FileAt(Table(p), fd) = e.file
      BY <2>7, <3>1, FileAtIs
    <3>3. FileAt(Table(p), fd) \in TFileState
      BY <2>7, FileAtTyped
    <3> QED  BY <2>5, <3>1, <3>2, <3>3 DEF Fits
  <2>10. Fits(Copied(Table(p), OpenSlots(Table(p))), kfds[p], Followed(p), {}, {})
    BY <2>7, <2>8, <2>9, FitsCopied
  <2>11. kfds'[c] = kfds[p] /\ Followed(c)' = Followed(p)
    BY <1>10, <2>6 DEF Same
  <2>12. Live(c)' => Agrees(Table(c), c)'
    BY <1>9, <2>2, <2>10, <2>11 DEF Agrees
  <2> QED  BY <2>1, <2>12 DEF AgreesOn
<1>14. ForksAgree' /\ ExecsAgree'
  <2> DEFINE D == {}
  <2>1. /\ \A q \in Pid \ D : Same(q)
        /\ \A q \in Pid : stop'[q].event \in {"fork", "exec"} =>
             stop'[q] = stop[q] /\ q \notin D /\ Table(q)' = Table(q)
        /\ \A q \in Pid : stop'[q].event = "fork" => stop[q].child \notin D
    BY <1>2, <1>8, <1>9, <1>10
  <2> HIDE DEF D
  <2> QED  BY <2>1, OthersWait DEF TypedInv, AgreeInv
<1> QED  BY <1>12, <1>13, <1>14 DEF AgreeInv, MixedCloexec


\* A process that goes on has threads, and the first of them is known.
LEMMA LiveAreKnown ==
  ASSUME LifeInv, KernelTyped, NEW g \in Pid, Live(g)
  PROVE  g \in Registered /\ group[g] = g
<1>1. PICK q \in Pid : group[q] = g /\ stop[q].event \in {"running", "syscall", "fork", "clone"}
  BY DEF Live
<1>2. stop[q] # Absent /\ stop[q].event # "born"
  BY <1>1, Events
<1> QED  BY <1>1, <1>2, LeadersAreKnown DEF Live

LEMMA CallersAreKnown ==
  ASSUME LifeInv, KernelTyped, NEW g, NEW q \in Calls(g)
  PROVE  q \in Registered /\ group[q] = g /\ stop[q].event = "syscall"
<1>1. q \in Pid /\ group[q] = g /\ stop[q].event = "syscall"
  BY DEF Calls
<1>2. stop[q] # Absent /\ stop[q].event # "born"
  BY <1>1, Events
<1> QED  BY <1>1, <1>2, LeadersAreKnown

LEMMA HandleCloneKeepsAgree ==
  ASSUME TypedInv, LifeInv, AgreeInv, NEW p \in Pid, HandleClone(p),
         UNCHANGED <<files, use, kfds, ofds>>
  PROVE  AgreeInv'
<1>1. /\ stop[p].event = "clone" /\ RegisterThread(p, stop[p].child)
      /\ stop' = [stop EXCEPT ![p] = Running, ![stop[p].child] = Running]
      /\ group' = group
  BY DEF HandleClone
<1>2. Running.event = "running" /\ Absent.event = "absent" /\ stop[p] # Absent
  BY <1>1, Events
<1>3. GroupInv /\ BirthInv /\ KnownInv /\ group[p] \in Pid /\ group[group[p]] = group[p]
  BY <1>2, ActorsAreThere DEF TypedInv
<1>4. PICK c \in Pid : c = stop[p].child /\ stop[c].event = "born" /\ group[c] = group[p]
  BY <1>1, <1>3 DEF BirthInv
<1>5. c # p /\ c # group[p]
  <2>1. c # p
    BY <1>1, <1>4
  <2>2. stop[group[p]].event = "born" => group[p] = p
    BY <1>2, <1>3 DEF GroupInv
  <2> QED  BY <1>1, <1>4, <2>1, <2>2
<1>6. /\ \A q \in Pid : stop'[q] = IF q \in {p, c} THEN Running ELSE stop[q]
      /\ \A q \in Pid : q # c => Table(q)' = Table(q)
  BY <1>1, <1>4 DEF LifeInv, ThreadInv, TypedInv, ContextTyped, RegisterThread, Table
<1>7. \A q : Same(q)
  BY DEF Same, Followed
<1>8. ASSUME NEW g \in Pid
      PROVE  AgreesOn(g)'
  <2>1. Calls(g)' = Calls(g)
    <3>1. \A q \in Pid : q \in Calls(g)' <=> q \in Calls(g)
      BY <1>1, <1>2, <1>4, <1>6 DEF Calls
    <3> QED  BY <3>1 DEF Calls
  <2>2. \A q \in Calls(g) : stop'[q] = stop[q] /\ Table(q)' = Table(q)
    BY <1>1, <1>4, <1>6 DEF Calls
  <2>3. Live(g)' => Live(g)
    BY <1>1, <1>3, <1>4, <1>6 DEF Live
  <2>4. Live(g) => g # c
    BY <1>3, <1>4, <1>5 DEF Live
  <2>5. Aside(g)
    BY <1>6, <1>7, <2>1, <2>2, <2>3, <2>4 DEF Aside
  <2> QED  BY <2>5, AsideAgrees DEF AgreeInv
<1>9. ForksAgree' /\ ExecsAgree'
  <2> DEFINE D == {}
  <2>1. /\ \A q \in Pid \ D : Same(q)
        /\ \A q \in Pid : stop'[q].event \in {"fork", "exec"} =>
             stop'[q] = stop[q] /\ q \notin D /\ Table(q)' = Table(q)
        /\ \A q \in Pid : stop'[q].event = "fork" => stop[q].child \notin D
    BY <1>2, <1>6, <1>7
  <2> HIDE DEF D
  <2> QED  BY <2>1, OthersWait DEF TypedInv, AgreeInv
<1> QED  BY <1>8, <1>9 DEF AgreeInv, MixedCloexec

LEMMA HandleExecKeepsAgree ==
  ASSUME TypedInv, LifeInv, AgreeInv, NEW p \in Pid, HandleExec(p),
         UNCHANGED <<files, use, kfds, ofds>>
  PROVE  AgreeInv'
<1> DEFINE kept == {fd \in OpenSlots(Table(p)) : ~IsCloexecSet(FileAt(Table(p), fd))}
<1>1. /\ stop[p].event = "exec" /\ RegisterExec(p)
      /\ stop' = [stop EXCEPT ![p] = Running] /\ group' = group
  BY DEF HandleExec, Resume
<1>2. Running.event = "running" /\ Absent.event = "absent" /\ stop[p] # Absent /\ stop[p].event # "born"
  BY <1>1, Events
<1>3. Members(p) = {p} /\ KnownInv
  BY <1>1, <1>2, ActorsAreThere DEF TypedInv, GroupInv
<1>4. group[p] = p /\ \A q \in Pid : stop[q] # Absent /\ group[q] = p => q = p
  BY <1>2, <1>3, LonersAre DEF TypedInv
<1>5. /\ p \in Registered /\ NewProcState \in ProcState /\ \A q \in Pid : ProcMap[q] # NewProcState
  BY HandleExecKeeps
<1>6. PICK new \in ProcState : new = NewProcState
  BY <1>5
<1>7. /\ ProcMap' = [ProcMap EXCEPT ![p] = new]
      /\ Fds' = [TornDown(p) EXCEPT ![new] = Copied(Table(p), kept)]
  BY <1>1, <1>6 DEF RegisterExec
<1>8. /\ TornDown(p) \in [ProcState -> SUBSET Entry]
      /\ \A s \in ProcState : s # ProcMap[p] => TornDown(p)[s] = Fds[s]
  BY <1>5, TornDownIs DEF TypedInv
<1>9. /\ \A q \in Pid : stop'[q] = IF q = p THEN Running ELSE stop[q]
      /\ \A q \in Pid : ProcMap'[q] = IF q = p THEN new ELSE ProcMap[q]
  BY <1>1, <1>7 DEF LifeInv, ThreadInv, TypedInv, ContextTyped
<1> HIDE DEF kept
<1>10. Table(p)' = Copied(Table(p), kept)
  BY <1>6, <1>7, <1>8, <1>9 DEF Table
<1>11. \A q \in Registered : group[q] # p => Table(q)' = Table(q)
  <2>1. \A q \in Registered : q \in Pid /\ ProcMap[q] \in ProcState
    BY TableOfRegistered DEF TypedInv
  <2>2. \A q \in Registered : group[q] # p => ProcMap[q] # ProcMap[p]
    BY <1>3, <1>4, <1>5 DEF KnownInv
  <2> QED  BY <1>4, <1>5, <1>6, <1>7, <1>8, <1>9, <2>1, <2>2 DEF Table
<1>12. \A q : Same(q)
  BY DEF Same, Followed
<1>13. ASSUME NEW g \in Pid, g # p
       PROVE  AgreesOn(g)'
  <2>1. Calls(g)' = Calls(g)
    <3>1. \A q \in Pid : q \in Calls(g)' <=> q \in Calls(g)
      BY <1>1, <1>2, <1>9 DEF Calls
    <3> QED  BY <3>1 DEF Calls
  <2>2. ASSUME NEW q \in Calls(g)
        PROVE  stop'[q] = stop[q] /\ Table(q)' = Table(q)
    <3>1. q \in Registered /\ group[q] = g /\ stop[q].event = "syscall" /\ q \in Pid
      BY <2>2, CallersAreKnown DEF TypedInv, Calls
    <3> QED  BY <1>1, <1>9, <1>11, <1>13, <3>1
  <2>3. Live(g)' => Live(g)
    BY <1>1, <1>4, <1>9, <1>13 DEF Live
  <2>4. Live(g) => Table(g)' = Table(g)
    BY <1>11, <1>13, LiveAreKnown DEF TypedInv
  <2>5. Aside(g)
    BY <1>12, <2>1, <2>2, <2>3, <2>4 DEF Aside
  <2> QED  BY <2>5, AsideAgrees DEF AgreeInv
<1>14. AgreesOn(p)'
  <2>1. Calls(p)' = {}
    <3>1. \A q \in Pid : group'[q] = p => stop'[q].event # "syscall"
      BY <1>1, <1>2, <1>4, <1>9
    <3> QED  BY <3>1 DEF Calls
  <2>2. Busy(p)' = {} /\ BusyFlags(p)' = {}
    BY <2>1 DEF Busy, BusyFlags
  <2>3. \A fd \in Fd : /\ ~kfds[p][fd].cloexec
                       /\ fd \in Followed(p) <=>
                            fd \in OpenSlots(Table(p)) /\ ~IsCloexecSet(FileAt(Table(p), fd))
    BY <1>1 DEF AgreeInv, ExecsAgree
  <2>4. Table(p) \in SUBSET Entry /\ OpenSlots(Table(p)) \in SUBSET Fd
    <3>1. Table(p) \in SUBSET Entry
      BY <1>5, TableOfRegistered DEF TypedInv
    <3> QED  BY <3>1 DEF OpenSlots, Entry
  <2>5. kept \in SUBSET Fd /\ \A fd \in Fd : fd \in kept <=> fd \in Followed(p)
    BY <2>3, <2>4 DEF kept
  <2>6. \A fd \in kept : /\ FileAt(Table(p), fd) \in TFileState
                         /\ IsCloexecSet(FileAt(Table(p), fd)) <=> kfds[p][fd].cloexec
    <3> SUFFICES ASSUME NEW fd \in kept
                 PROVE  /\ FileAt(Table(p), fd) \in TFileState
                        /\ IsCloexecSet(FileAt(Table(p), fd)) <=> kfds[p][fd].cloexec
      OBVIOUS
    <3>1. fd \in OpenSlots(Table(p)) /\ ~IsCloexecSet(FileAt(Table(p), fd)) /\ fd \in Fd
      BY <2>4 DEF kept
    <3>2. FileAt(Table(p), fd) \in TFileState
      BY <2>4, <3>1, FileAtTyped
    <3> QED  BY <2>3, <3>1, <3>2
  <2>7. Fits(Copied(Table(p), kept), kfds[p], Followed(p), {}, {})
    BY <2>5, <2>6, FitsCopied
  <2>8. kfds'[p] = kfds[p] /\ Followed(p)' = Followed(p)
    BY <1>12 DEF Same
  <2>9. Live(p)' => Agrees(Table(p), p)'
    BY <1>10, <2>2, <2>7, <2>8 DEF Agrees
  <2> QED  BY <2>1, <2>9 DEF AgreesOn
<1>15. ForksAgree' /\ ExecsAgree'
  <2> DEFINE D == {}
  <2>1. ASSUME NEW q \in Pid, stop'[q].event \in {"fork", "exec"}
        PROVE  stop'[q] = stop[q] /\ Table(q)' = Table(q)
    <3>1. q # p /\ stop'[q] = stop[q]
      BY <1>2, <1>9, <2>1
    <3>2. stop[q] # Absent /\ stop[q].event # "born"
      BY <2>1, <3>1, Events
    <3>3. q \in Registered /\ group[q] # p
      BY <1>4, <3>1, <3>2, LeadersAreKnown DEF TypedInv
    <3> QED  BY <1>11, <3>1, <3>3
  <2>2. /\ \A q \in Pid \ D : Same(q)
        /\ \A q \in Pid : stop'[q].event \in {"fork", "exec"} =>
             stop'[q] = stop[q] /\ q \notin D /\ Table(q)' = Table(q)
        /\ \A q \in Pid : stop'[q].event = "fork" => stop[q].child \notin D
    BY <1>12, <2>1
  <2> HIDE DEF D
  <2> QED  BY <2>2, OthersWait DEF TypedInv, AgreeInv
<1> QED  BY <1>13, <1>14, <1>15 DEF AgreeInv, MixedCloexec

LEMMA HandleExitKeepsAgree ==
  ASSUME TypedInv, LifeInv, AgreeInv, NEW p \in Pid, HandleExit(p),
         UNCHANGED <<files, use, kfds, ofds>>
  PROVE  AgreeInv'
<1>1. /\ stop[p].event = "exit" /\ VanishProcess(p, OutputSize)
      /\ group[p] = p => Members(p) = {p}
      /\ stop' = [stop EXCEPT ![p] = Absent] /\ group' = [group EXCEPT ![p] = None]
  BY DEF HandleExit
<1>2. Absent.event = "absent" /\ stop[p] # Absent /\ stop[p].event # "born"
  BY <1>1, Events
<1>3. KnownInv /\ group[p] \in Pid /\ group[group[p]] = group[p]
  BY <1>2, ActorsAreThere DEF TypedInv
<1>4. /\ p \in Registered /\ group[p] \in Registered /\ ProcMap[group[p]] = ProcMap[p]
      /\ \A q \in Registered : ProcMap[q] = ProcMap[p] <=> group[q] = group[p]
  BY <1>2, LeadersAreKnown DEF TypedInv
<1>5. /\ ProcMap' = [ProcMap EXCEPT ![p] = None] /\ Fds' = TornDown(p)
  BY <1>1 DEF VanishProcess
<1>6. /\ \A q \in Pid : stop'[q] = IF q = p THEN Absent ELSE stop[q]
      /\ \A q \in Pid : group'[q] = IF q = p THEN None ELSE group[q]
      /\ \A q \in Pid : ProcMap'[q] = IF q = p THEN None ELSE ProcMap[q]
  BY <1>1, <1>5 DEF LifeInv, ThreadInv, TypedInv, ContextTyped, KernelTyped
<1>7. ASSUME NEW q \in Registered, q # p, stop[q] # Absent
      PROVE  Table(q)' = Table(q)
  <2>1. q \in Pid /\ ProcMap[q] \in ProcState
    BY <1>7, TableOfRegistered DEF TypedInv
  <2>2. CASE group[q] # group[p]
    <3>1. \A s \in ProcState : s # ProcMap[p] => TornDown(p)[s] = Fds[s]
      BY <1>4, TornDownIs DEF TypedInv
    <3> QED  BY <1>4, <1>5, <1>6, <1>7, <2>1, <2>2, <3>1 DEF Table
  <2>3. CASE group[q] = group[p]
    <3>1. group[p] # p
      BY <1>1, <1>7, <2>1, <2>3 DEF Members
    <3>2. p \notin GroupLeaders
      BY <1>3, <3>1 DEF KnownInv
    <3>3. group[p] \in Pid \ {p} /\ ProcMap[group[p]] = ProcMap[p]
      BY <1>3, <1>4, <3>1
    <3>4. Fds' = Fds
      BY <1>5, <3>2, <3>3 DEF TornDown
    <3> QED  BY <1>6, <1>7, <2>1, <3>4 DEF Table
  <2> QED  BY <2>2, <2>3
<1>8. \A q : Same(q)
  BY DEF Same, Followed
<1>9. ASSUME NEW g \in Pid
      PROVE  AgreesOn(g)'
  <2>1. Calls(g)' = Calls(g)
    <3>1. \A q \in Pid : q \in Calls(g)' <=> q \in Calls(g)
      BY <1>1, <1>2, <1>6, IdsAssumption DEF Calls
    <3> QED  BY <3>1 DEF Calls
  <2>2. ASSUME NEW q \in Calls(g)
        PROVE  stop'[q] = stop[q] /\ Table(q)' = Table(q)
    <3>1. q \in Registered /\ group[q] = g /\ stop[q].event = "syscall" /\ q \in Pid
      BY <2>2, CallersAreKnown DEF TypedInv, Calls
    <3>2. stop[q] # Absent /\ q # p
      BY <1>1, <1>2, <3>1
    <3> QED  BY <1>6, <1>7, <3>1, <3>2
  <2>3. Live(g)' => Live(g) /\ g # p
    BY <1>2, <1>6, IdsAssumption DEF Live
  <2>4. Live(g) /\ g # p => Table(g)' = Table(g)
    <3> SUFFICES ASSUME Live(g), g # p
                 PROVE  Table(g)' = Table(g)
      OBVIOUS
    <3>1. g \in Registered
      BY LiveAreKnown DEF TypedInv
    <3>2. stop[g].event # "absent"
      BY <1>3, <3>1 DEF KnownInv, Registered
    <3> QED  BY <1>2, <1>7, <3>1, <3>2
  <2>5. Aside(g)
    BY <1>8, <2>1, <2>2, <2>3, <2>4 DEF Aside
  <2> QED  BY <2>5, AsideAgrees DEF AgreeInv
<1>10. ForksAgree' /\ ExecsAgree'
  <2> DEFINE D == {}
  <2>1. ASSUME NEW q \in Pid, stop'[q].event \in {"fork", "exec"}
        PROVE  stop'[q] = stop[q] /\ Table(q)' = Table(q)
    <3>1. q # p /\ stop'[q] = stop[q]
      BY <1>2, <1>6, <2>1
    <3>2. stop[q] # Absent /\ stop[q].event # "born"
      BY <2>1, <3>1, Events
    <3>3. q \in Registered
      BY <3>2, LeadersAreKnown DEF TypedInv
    <3> QED  BY <1>7, <3>1, <3>2, <3>3
  <2>2. /\ \A q \in Pid \ D : Same(q)
        /\ \A q \in Pid : stop'[q].event \in {"fork", "exec"} =>
             stop'[q] = stop[q] /\ q \notin D /\ Table(q)' = Table(q)
        /\ \A q \in Pid : stop'[q].event = "fork" => stop[q].child \notin D
    BY <1>8, <2>1
  <2> HIDE DEF D
  <2> QED  BY <2>2, OthersWait DEF TypedInv, AgreeInv
<1> QED  BY <1>9, <1>10 DEF AgreeInv, MixedCloexec


(***************************************************************************)
(* At the start one process runs, and the table is made from what it has   *)
(* inherited.                                                              *)
(***************************************************************************)
LEMMA TraceeRegistered ==
  ASSUME NEW fds \in SUBSET Fd, NEW inherited \in [fds -> Name],
         length \in [Name -> Size], RegisterTracee(TraceePid, inherited)
  PROVE  /\ ContextTyped /\ SlottedInv
         /\ \A p \in Pid : ProcMap[p] # None <=> p = TraceePid
         /\ GroupLeaders = {TraceePid}
         /\ Table(TraceePid) = FillFds(inherited)
<1> DEFINE new == CHOOSE s \in ProcState : TRUE
<1>1. TraceePid \in Pid
  BY AccountingAssumption, Zenon
<1>2. new \in ProcState /\ new # None
  BY ContextAssumption
<1>3. /\ ProcMap = [p \in Pid |-> IF p = TraceePid THEN new ELSE None]
      /\ GroupLeaders = {TraceePid}
      /\ Fds = [s \in ProcState |-> IF s = new THEN FillFds(inherited) ELSE {}]
  BY DEF RegisterTracee
<1>4. ContextTyped
  BY <1>1, RegisterTraceeTyped
<1>5. Slotted(FillFds(inherited)) /\ Slotted({})
  BY DEF Slotted, FillFds
<1>6. SlottedInv
  BY <1>3, <1>5 DEF SlottedInv
<1> HIDE DEF new
<1> QED  BY <1>1, <1>2, <1>3, <1>4, <1>6 DEF Table

\* Where it stands, whatever it has inherited.
LEMMA StartIsAlive ==
  ASSUME stop = [p \in Pid |-> IF p = TraceePid THEN Running ELSE Absent],
         group = [p \in Pid |-> IF p = TraceePid THEN p ELSE None],
         \A p \in Pid : ProcMap[p] # None <=> p = TraceePid,
         GroupLeaders = {TraceePid}
  PROVE  LifeInv /\ CallsTyped /\ ForksAgree /\ ExecsAgree /\ \A g : Calls(g) = {}
<1>1. TraceePid \in Pid
  BY AccountingAssumption, Zenon
<1>2. /\ \A p \in Pid : stop[p] = IF p = TraceePid THEN Running ELSE Absent
      /\ \A p \in Pid : group[p] = IF p = TraceePid THEN p ELSE None
      /\ stop = [p \in Pid |-> stop[p]]
  OBVIOUS
<1>3. /\ Running.event = "running" /\ Absent.event = "absent" /\ Running # Absent
      /\ \A p \in Pid : p # None
  BY Events, IdsAssumption
<1>4. ThreadInv
  BY <1>2, <1>3 DEF ThreadInv, Event
<1>5. GroupInv
  BY <1>1, <1>2, <1>3 DEF GroupInv
<1>6. BirthInv
  BY <1>2, <1>3 DEF BirthInv
<1>7. KnownInv
  BY <1>1, <1>2, <1>3 DEF KnownInv, Registered
<1>8. CallsTyped /\ ForksAgree /\ ExecsAgree
  BY <1>2, <1>3 DEF CallsTyped, ForksAgree, ExecsAgree
<1>9. \A g : Calls(g) = {}
  BY <1>2, <1>3 DEF Calls
<1> QED  BY <1>4, <1>5, <1>6, <1>7, <1>8, <1>9 DEF LifeInv

LEMMA StartAgrees ==
  ASSUME Init
  PROVE  /\ TypedInv /\ LifeInv
         /\ Without({"cloexec", "race"}) => AgreeInv
<1>1. /\ TraceePid \in Pid /\ 0 \in Fd /\ None \notin Ofd /\ None \notin Name
      /\ use \in Uses /\ use.lengths \subseteq 0 .. MaxLength
      /\ use.ofds \subseteq Ofd /\ use.ofds # {}
      /\ \A i \in use.inherited \ {None} :
           /\ i.file \in Description /\ i.file.name # None
           /\ i.file.peak = 0 /\ i.cloexec \in BOOLEAN
  BY AccountingAssumption, Zenon DEF Init
<1>2. /\ length \in [Name -> 0 .. MaxLength] /\ size = length /\ unlinked = {} /\ struck = {}
      /\ stop = [p \in Pid |-> IF p = TraceePid THEN Running ELSE Absent]
      /\ group = [p \in Pid |-> IF p = TraceePid THEN p ELSE None]
  BY <1>1 DEF Init
<1>3. length \in [Name -> Size]
  BY <1>2, LengthsAreSizes
<1>4. PICK i \in use.inherited :
        IF i = None
        THEN /\ RegisterTracee(TraceePid, << >>)
             /\ kfds = [p \in Pid |-> AllClosed]
             /\ ofds = [o \in Ofd |-> Free]
             /\ quirks = {}
        ELSE LET o == Min(use.ofds)
             IN  /\ RegisterTracee(TraceePid, [fd \in {0} |-> i.file.name])
                 /\ kfds = [p \in Pid |-> IF p = TraceePid
                                          THEN [AllClosed EXCEPT ![0] = [ofd |-> o, cloexec |-> i.cloexec]]
                                          ELSE AllClosed]
                 /\ ofds = [d \in Ofd |-> IF d = o THEN [i.file EXCEPT !.init = length[i.file.name],
                                                                  !.followed = TRUE]
                                                   ELSE Free]
                 /\ quirks = Kind("cloexec", i.cloexec) \cup
                             Kind("inherited", i.file.append \/ i.file.pos # 0)
  BY DEF Init
<1>5. /\ Closed \in [ofd : Ofd \cup {None}, cloexec : BOOLEAN] /\ Free \in Description
      /\ Closed.ofd = None /\ ~Closed.cloexec
      /\ AllClosed \in [Fd -> [ofd : Ofd \cup {None}, cloexec : BOOLEAN]]
      /\ \A fd \in Fd : AllClosed[fd] = Closed
  BY FreeTyped DEF AllClosed, Closed
<1>6. group \in [Pid -> Pid \cup {None}] /\ use \in Uses
  BY <1>1, <1>2
<1>7. CASE i = None
  <2>1. /\ RegisterTracee(TraceePid, << >>)
        /\ kfds = [p \in Pid |-> AllClosed] /\ ofds = [o \in Ofd |-> Free]
    BY <1>4, <1>7
  <2> DEFINE none == [fd \in {} |-> None]
  <2>2. RegisterTracee(TraceePid, none) /\ none \in [{} -> Name] /\ FillFds(none) = {}
    BY <2>1 DEF FillFds
  <2> HIDE DEF none
  <2> DEFINE E == {}
  <2>3. E \in SUBSET Fd /\ none \in [E -> Name]
    BY <2>2
  <2> HIDE DEF E
  <2>4. /\ ContextTyped /\ SlottedInv /\ Table(TraceePid) = FillFds(none)
        /\ \A p \in Pid : ProcMap[p] # None <=> p = TraceePid
        /\ GroupLeaders = {TraceePid}
    BY <1>3, <2>2, <2>3, TraceeRegistered
  <2>5. LifeInv /\ CallsTyped /\ ForksAgree /\ ExecsAgree /\ \A g : Calls(g) = {}
    BY <1>2, <2>4, StartIsAlive
  <2>6. \A p \in Pid, fd \in Fd : kfds[p][fd] = Closed
    BY <1>5, <2>1
  <2>7. KernelTyped /\ HeldInv
    BY <1>2, <1>5, <1>6, <2>1, <2>6 DEF KernelTyped, HeldInv
  <2>8. ~MixedCloexec(kfds)
    BY <1>5, <2>6 DEF MixedCloexec
  <2>9. ASSUME NEW g \in Pid
        PROVE  AgreesOn(g)
    <3>1. Followed(g) = {} /\ Calls(g) = {}
      BY <1>5, <2>5, <2>6 DEF Followed
    <3>2. Live(g) => g = TraceePid
      BY <1>2, Events DEF Live
    <3>3. Live(g) => Table(g) = {} /\ OpenSlots(Table(g)) = {}
      BY <2>2, <2>4, <3>2 DEF OpenSlots
    <3> QED  BY <3>1, <3>3 DEF AgreesOn, Agrees, Fits
  <2> QED  BY <2>4, <2>5, <2>7, <2>8, <2>9 DEF TypedInv, AgreeInv
<1>8. CASE i # None
  <2> DEFINE o == Min(use.ofds)
             only == [fd \in {0} |-> i.file.name]
             first == [AllClosed EXCEPT ![0] = [ofd |-> o, cloexec |-> i.cloexec]]
             file == [i.file EXCEPT !.init = length[i.file.name], !.followed = TRUE]
  <2>1. /\ RegisterTracee(TraceePid, only)
        /\ kfds = [p \in Pid |-> IF p = TraceePid THEN first ELSE AllClosed]
        /\ ofds = [d \in Ofd |-> IF d = o THEN file ELSE Free]
        /\ quirks = Kind("cloexec", i.cloexec) \cup
                    Kind("inherited", i.file.append \/ i.file.pos # 0)
    BY <1>4, <1>8
  <2>2. /\ i.file \in Description /\ i.file.name # None /\ i.file.name \in Name
        /\ i.cloexec \in BOOLEAN
    BY <1>1, <1>8 DEF Description
  <2>3. o \in Ofd /\ o # None
    <3>1. use.ofds \subseteq Nat
      BY <1>1, FdsAreNumbers
    <3>2. \E x \in use.ofds : x = Min(use.ofds)
      BY <1>1, <3>1, LowestIsIn
    <3> QED  BY <1>1, <3>2
  <2>4. file \in Description /\ file.name = i.file.name /\ file.followed
    BY <1>2, <2>2 DEF Description
  <2>5. only \in [{0} -> Name] /\ {0} \in SUBSET Fd
    BY <1>1, <2>2
  <2>6. FillFds(only) = {[slots |-> {0}, file |-> NewFileState(i.file.name, {}, length[i.file.name])]}
    BY DEF FillFds
  <2>7. first \in [Fd -> [ofd : Ofd \cup {None}, cloexec : BOOLEAN]]
    BY <1>5, <2>2, <2>3
  <2>8. first[0].ofd = o /\ first[0].cloexec = i.cloexec /\ \A fd \in Fd \ {0} : first[fd] = Closed
    BY <1>1, <1>5
  <2> HIDE DEF o, only, first, file
  <2>9. /\ ContextTyped /\ SlottedInv /\ Table(TraceePid) = FillFds(only)
        /\ \A p \in Pid : ProcMap[p] # None <=> p = TraceePid
        /\ GroupLeaders = {TraceePid}
    BY <1>3, <2>1, <2>5, TraceeRegistered
  <2>10. LifeInv /\ CallsTyped /\ ForksAgree /\ ExecsAgree /\ \A g : Calls(g) = {}
    BY <1>2, <2>9, StartIsAlive
  <2>11. /\ \A p \in Pid : kfds[p] = IF p = TraceePid THEN first ELSE AllClosed
         /\ \A d \in Ofd : ofds[d] = IF d = o THEN file ELSE Free
    BY <2>1
  <2>12. \A p \in Pid, fd \in Fd : kfds[p][fd].ofd # None => p = TraceePid /\ fd = 0
    BY <1>5, <2>8, <2>11
  <2>13. kfds[TraceePid][0].ofd = o /\ ofds[o] = file
    BY <1>1, <2>3, <2>8, <2>11
  <2>14. HeldInv
    BY <2>2, <2>4, <2>12, <2>13 DEF HeldInv
  <2>15. ofds \in [Ofd -> Description]
    BY <1>5, <2>1, <2>4
  <2>16. kfds \in [Pid -> [Fd -> [ofd : Ofd \cup {None}, cloexec : BOOLEAN]]]
    BY <1>5, <2>1, <2>7
  <2>17. KernelTyped
    BY <1>2, <1>6, <2>15, <2>16 DEF KernelTyped
  <2>18. ~MixedCloexec(kfds)
    BY <2>12 DEF MixedCloexec
  <2>19. Without({"cloexec", "race"}) => ~i.cloexec
    BY <2>1 DEF Without, Kind
  <2>20. ASSUME NEW g \in Pid, ~i.cloexec
         PROVE  AgreesOn(g)
    <3>1. Live(g) => g = TraceePid
      BY <1>2, Events DEF Live
    <3> SUFFICES Live(g) => Agrees(Table(g), g)
      BY <2>10 DEF AgreesOn
    <3> SUFFICES ASSUME g = TraceePid
                 PROVE  Fits(Table(g), kfds[g], Followed(g), Busy(g), BusyFlags(g))
      BY <3>1 DEF Agrees
    <3>2. Followed(g) = {0}
      BY <1>1, <2>3, <2>4, <2>12, <2>13, <2>20 DEF Followed
    <3>3. OpenSlots(Table(g)) = {0}
      BY <2>6, <2>9 DEF OpenSlots
    <3>4. \A e \in Table(g) : e.slots = {0} /\ ~IsCloexecSet(e.file)
      BY <2>6, <2>9 DEF IsCloexecSet, NewFileState
    <3>5. ~kfds[g][0].cloexec
      BY <1>1, <2>2, <2>8, <2>11, <2>20
    <3> QED  BY <3>2, <3>3, <3>4, <3>5 DEF Fits
  <2> QED  BY <2>9, <2>10, <2>14, <2>17, <2>18, <2>19, <2>20 DEF TypedInv, AgreeInv
<1> QED  BY <1>7, <1>8


------------------------------------------------------------------------------
(* The specification *)

\* What a step keeps: optrace may also end, and with it what it traces.
Keeps ==
  /\ TypedInv' /\ LifeInv'
  /\ use' = use /\ unlinked \subseteq unlinked' /\ quirks \subseteq quirks'
  /\ AgreeInv /\ ~Over' /\ "race" \notin quirks' /\ "cloexec" \notin quirks' => AgreeInv'

\* Every system call about descriptors is one.
LEMMA CallsAreCalled ==
  ASSUME NEW p, Runs(p), ProcessStep(p)
  PROVE  \/ \E r : Called(p, r)
         \/ \E name \in Name : Unlink(name)
         \/ \E child \in Pid : Fork(p, child)
         \/ "clone" \in use.calls /\ \E thread \in Pid : Clone(p, thread)
         \/ Exec(p) \/ Exit(p) \/ ThreadExit(p)
<1>1. CASE \E nr \in use.calls \cap {"open", "creat"}, name \in Name, flags \in use.flags,
              trunc \in BOOLEAN, mode \in {{}, {"O_APPEND"}} : Open(p, nr, name, flags, trunc, mode)
  BY <1>1, OpenIsCalled
<1>2. ASSUME NEW nr \in use.calls, NEW fd \in Fd,
             \/ nr = "write" /\ Write(p, fd)
             \/ nr = "pwrite64" /\ \E offset \in 0 .. MaxLength : Pwrite(p, fd, offset)
             \/ nr = "pwrite64" /\ PwriteHere(p, fd)
             \/ nr \in {"ftruncate", "fallocate"}
                /\ \E to \in 0 .. MaxLength, keep \in BOOLEAN : Resize(p, nr, fd, to, keep)
             \/ nr = "lseek" /\ \E pos \in 0 .. MaxLength : Seek(p, fd, pos)
             \/ nr = "close" /\ Close(p, fd)
             \/ nr \in {"dup", "F_DUPFD", "F_DUPFD_CLOEXEC"} /\ Dup(p, nr, fd)
             \/ nr \in {"dup2", "dup3"}
                /\ \E new \in Fd, flags \in {{}, {"O_CLOEXEC"}} : DupTo(p, nr, fd, new, flags)
             \/ nr = "F_SETFD" /\ \E on \in BOOLEAN : SetFdFlag(p, fd, on)
             \/ nr = "F_SETFL" /\ \E append \in BOOLEAN : SetStatusFlags(p, fd, append)
      PROVE  \E r : Called(p, r)
  <2>1. CASE Write(p, fd)
    BY <2>1, WriteIsCalled
  <2>2. CASE (\E offset \in 0 .. MaxLength : Pwrite(p, fd, offset)) \/ PwriteHere(p, fd)
    <3>1. 0 \in 0 .. MaxLength
      BY LengthsAreSizes
    <3> QED  BY <2>2, <3>1, PwriteIsCalled
  <2>3. CASE /\ nr \in {"ftruncate", "fallocate"}
             /\ \E to \in 0 .. MaxLength, keep \in BOOLEAN : Resize(p, nr, fd, to, keep)
    BY <2>3, ResizeIsCalled
  <2>4. CASE \E pos \in 0 .. MaxLength : Seek(p, fd, pos)
    BY <2>4, SeekIsCalled
  <2>5. CASE Close(p, fd)
    BY <2>5, CloseIsCalled
  <2>6. CASE nr \in {"dup", "F_DUPFD", "F_DUPFD_CLOEXEC"} /\ Dup(p, nr, fd)
    BY <2>6, DupIsCalled
  <2>7. CASE /\ nr \in {"dup2", "dup3"}
             /\ \E new \in Fd, flags \in {{}, {"O_CLOEXEC"}} : DupTo(p, nr, fd, new, flags)
    BY <2>7, DupToIsCalled
  <2>8. CASE \E on \in BOOLEAN : SetFdFlag(p, fd, on)
    BY <2>8, SetFdFlagIsCalled
  <2>9. CASE \E append \in BOOLEAN : SetStatusFlags(p, fd, append)
    BY <2>9, SetStatusFlagsIsCalled
  <2> QED  BY <1>2, <2>1, <2>2, <2>3, <2>4, <2>5, <2>6, <2>7, <2>8, <2>9, Zenon
<1> QED  BY <1>1, <1>2, Zenon DEF ProcessStep

LEMMA CalledKeeps ==
  ASSUME TypedInv, LifeInv, NEW p \in Pid, NEW r, Called(p, r)
  PROVE  Keeps
<1>1. TypedInv'
  BY CalledTyped DEF LifeInv
<1>2. stop[p].event = "running" /\ [Running EXCEPT !.event = "syscall", !.regs = r].event = "syscall"
  BY Events DEF Called
<1>3. LifeInv'
  <2> DEFINE s == [Running EXCEPT !.event = "syscall", !.regs = r]
  <2>1. /\ stop' = [stop EXCEPT ![p] = s] /\ UNCHANGED <<group, ProcMap, GroupLeaders>>
        /\ s.event = "syscall"
    BY <1>2 DEF Called, contextVars
  <2> HIDE DEF s
  <2> QED  BY <1>2, <2>1, GoesOnLife DEF TypedInv
<1>4. use' = use /\ unlinked \subseteq unlinked' /\ quirks \subseteq quirks'
  BY DEF Called
<1> QED  BY <1>1, <1>3, <1>4, CalledKeepsAgree DEF Keeps

LEMMA ExitKeeps ==
  ASSUME TypedInv, LifeInv, NEW p \in Pid, stop[p] = Running, Exit(p), UNCHANGED contextVars
  PROVE  Keeps
<1>1. group[p] \in Pid
  BY Events, ActorsAreThere DEF TypedInv
<1>2. TypedInv' /\ LifeInv'
  BY <1>1, ExitTyped, ExitLife DEF TypedInv, LifeInv
<1>3. use' = use /\ unlinked \subseteq unlinked' /\ quirks \subseteq quirks'
  BY DEF Exit, files
<1> QED  BY <1>2, <1>3, ExitKeepsAgree DEF Keeps

\* A step of a process.
LEMMA ProcessStepKeeps ==
  ASSUME TypedInv, LifeInv, NEW p \in Pid, ProcessStep(p)
  PROVE  Keeps
<1>1. stop[p] = Running /\ UNCHANGED contextVars
  BY DEF ProcessStep
<1>2. group[p] \in Pid
  BY <1>1, Events, ActorsAreThere DEF TypedInv
<1>3. Runs(p)
  BY <1>1, <1>2 DEF Runs, TypedInv
<1>4. CASE \E r : Called(p, r)
  BY <1>4, CalledKeeps
<1>5. ASSUME NEW name \in Name, Unlink(name)
      PROVE  Keeps
  <2>1. TypedInv'
    BY <1>1, <1>5, UnlinkTyped
  <2>2. /\ UNCHANGED <<contextVars, group, kfds, ofds, stop>>
        /\ use' = use /\ unlinked \subseteq unlinked' /\ quirks \subseteq quirks'
    BY <1>1, <1>5 DEF Unlink
  <2> QED  BY <2>1, <2>2, UnconcernedKeeps DEF Keeps
<1>6. ASSUME NEW child \in Pid, Fork(p, child)
      PROVE  Keeps
  <2>1. UNCHANGED <<contextVars, unlinked>> /\ use' = use /\ quirks \subseteq quirks'
    BY <1>1, <1>6 DEF Fork, files
  <2>2. TypedInv' /\ LifeInv'
    BY <1>1, <1>6, <2>1, ForkTyped, ForkLife DEF TypedInv, LifeInv
  <2> QED  BY <1>1, <1>6, <2>1, <2>2, ForkKeepsAgree DEF Keeps
<1>7. ASSUME NEW thread \in Pid, Clone(p, thread)
      PROVE  Keeps
  <2>1. TypedInv' /\ LifeInv'
    BY <1>1, <1>2, <1>7, CloneTyped, CloneLife DEF TypedInv, LifeInv
  <2>2. use' = use /\ unlinked \subseteq unlinked' /\ quirks \subseteq quirks'
    BY <1>7 DEF Clone, files
  <2> QED  BY <1>1, <1>7, <2>1, <2>2, CloneKeepsAgree DEF Keeps
<1>8. CASE Exec(p)
  <2>1. TypedInv' /\ LifeInv'
    BY <1>1, <1>8, ExecTyped, ExecLife DEF TypedInv, LifeInv
  <2>2. use' = use /\ unlinked \subseteq unlinked' /\ quirks \subseteq quirks'
    BY <1>8 DEF Exec, files
  <2> QED  BY <1>1, <1>8, <2>1, <2>2, ExecKeepsAgree DEF Keeps
<1>9. CASE Exit(p)
  BY <1>1, <1>9, ExitKeeps
<1>10. CASE ThreadExit(p)
  <2>1. TypedInv'
    BY <1>1, <1>10, ThreadExitTyped DEF LifeInv
  <2>2. LifeInv'
    <3> DEFINE s == [Running EXCEPT !.event = "exit"]
    <3>1. /\ stop' = [stop EXCEPT ![p] = s] /\ UNCHANGED <<group, ProcMap, GroupLeaders>>
          /\ s.event = "exit" /\ stop[p].event = "running"
      BY <1>1, <1>10, Events DEF ThreadExit, contextVars
    <3> HIDE DEF s
    <3> QED  BY <3>1, GoesOnLife DEF TypedInv
  <2>3. use' = use /\ unlinked \subseteq unlinked' /\ quirks \subseteq quirks'
    BY <1>10 DEF ThreadExit, files
  <2> QED  BY <1>1, <1>10, <2>1, <2>2, <2>3, ThreadExitKeepsAgree DEF Keeps
<1> QED  BY <1>3, <1>4, <1>5, <1>6, <1>7, <1>8, <1>9, <1>10, CallsAreCalled

\* A signal is taken.
LEMMA TakeSignalKeeps ==
  ASSUME TypedInv, LifeInv, NEW p \in Pid, TakeSignal(p)
  PROVE  Keeps
<1>1. stop[p] = Running /\ UNCHANGED contextVars
  BY DEF TakeSignal
<1>2. CASE Exit(p)
  BY <1>1, <1>2, ExitKeeps
<1>3. CASE /\ struck' = struck \ {group[p]}
           /\ quirks' = quirks \cup {"caught"}
           /\ UNCHANGED <<files, use, group, kfds, ofds, stop, grown>>
  <2>1. /\ UNCHANGED <<contextVars, group, kfds, ofds, stop>>
        /\ use' = use /\ unlinked \subseteq unlinked' /\ quirks \subseteq quirks'
    BY <1>1, <1>3 DEF files
  <2>2. KernelTyped' /\ CallsTyped' /\ HeldInv'
    BY <1>3 DEF TypedInv, KernelTyped, CallsTyped, HeldInv, files
  <2>3. TypedInv'
    BY <1>1, <2>2, KernelStepTyped
  <2> QED  BY <2>1, <2>3, UnconcernedKeeps DEF Keeps
<1> QED  BY <1>2, <1>3 DEF TakeSignal

\* An event is handled.
LEMMA TracerStepKeeps ==
  ASSUME TypedInv, LifeInv, NEW p \in Pid, TracerStep(p)
  PROVE  Keeps
<1>1. /\ UNCHANGED <<files, use, kfds, ofds>>
      /\ use' = use /\ unlinked \subseteq unlinked' /\ quirks \subseteq quirks'
  BY DEF TracerStep, files
<1>2. CASE HandleSyscall(p)
  <2>1. CASE Over' /\ UNCHANGED <<contextVars, group, struck>> /\ stop' = [q \in Pid |-> Absent]
    <3>1. TypedInv' /\ LifeInv'
      BY <1>1, <2>1, OverKeeps
    <3> QED  BY <1>1, <2>1, <3>1 DEF Keeps
  <2>2. ASSUME ContextTyped', NEW new, Answered(p, new)
        PROVE  Keeps
    <3>1. TypedInv' /\ LifeInv'
      BY <1>1, <2>2, AnsweredKeeps
    <3> QED  BY <1>1, <2>2, <3>1, AnsweredKeepsAgree DEF Keeps
  <2> QED  BY <1>1, <1>2, <2>1, <2>2, SyscallAnswered
<1>3. CASE HandleFork(p)
  BY <1>1, <1>3, HandleForkKeeps, HandleForkKeepsAgree DEF Keeps
<1>4. CASE HandleClone(p)
  BY <1>1, <1>4, HandleCloneKeeps, HandleCloneKeepsAgree DEF Keeps
<1>5. CASE HandleExec(p)
  BY <1>1, <1>5, HandleExecKeeps, HandleExecKeepsAgree DEF Keeps
<1>6. CASE HandleExit(p)
  BY <1>1, <1>6, HandleExitKeeps, HandleExitKeepsAgree DEF Keeps
<1> QED  BY <1>2, <1>3, <1>4, <1>5, <1>6 DEF TracerStep

LEMMA NothingKeeps ==
  ASSUME TypedInv, LifeInv, UNCHANGED vars
  PROVE  Keeps
<1>1. /\ UNCHANGED <<contextVars, group, kfds, ofds, stop>>
      /\ use' = use /\ unlinked \subseteq unlinked' /\ quirks \subseteq quirks'
  BY DEF vars, kernelVars, files
<1>2. KernelTyped' /\ CallsTyped' /\ HeldInv'
  BY DEF TypedInv, KernelTyped, CallsTyped, HeldInv, vars, kernelVars, files
<1>3. TypedInv'
  BY <1>1, <1>2, KernelStepTyped
<1> QED  BY <1>1, <1>3, UnconcernedKeeps DEF Keeps

\* Nobody comes back.
LEMMA OverStays ==
  ASSUME Over, [Next]_vars
  PROVE  Over'
<1>1. \A p \in Pid : stop[p] = Absent /\ stop[p].event = "absent" /\ Absent # Running
  BY Events DEF Over
<1>2. ASSUME NEW p \in Pid
      PROVE  ~ProcessStep(p) /\ ~TakeSignal(p) /\ ~TracerStep(p)
  BY <1>1 DEF ProcessStep, TakeSignal, TracerStep, HandleSyscall, HandleFork, HandleClone,
     HandleExec, HandleExit
<1>3. UNCHANGED vars
  BY <1>2 DEF Next, AllGone
<1> QED  BY <1>3 DEF Over, vars, kernelVars

\* The invariant the properties follow from, on every behaviour: how the
\* threads there are, and how the context knows them, fit together, and what
\* the tables have in common with the descriptors.
THEOREM InvariantHolds == Spec => []AccountingInv
<1>1. Init => AccountingInv
  BY StartAgrees DEF AccountingInv
<1>2. AccountingInv /\ [Next]_vars => AccountingInv'
  <2> SUFFICES ASSUME AccountingInv, [Next]_vars
               PROVE  AccountingInv'
    OBVIOUS
  <2>1. TypedInv /\ LifeInv
    BY DEF AccountingInv
  <2>2. Keeps
    BY <2>1, ProcessStepKeeps, TakeSignalKeeps, TracerStepKeeps, NothingKeeps DEF Next, AllGone
  <2>3. ~Over' => ~Over
    BY OverStays
  <2>4. Without({"cloexec", "race"})' =>
          /\ "race" \notin quirks' /\ "cloexec" \notin quirks'
          /\ Without({"cloexec", "race"})
    BY <2>2 DEF Keeps, Without
  <2> QED  BY <2>2, <2>3, <2>4 DEF Keeps, AccountingInv
<1> QED  BY <1>1, <1>2, PTL DEF Spec

\* FdsAgree: whatever the traced processes do and however the tracer collects
\* their stops, a process that has no call under way has, in its table, exactly
\* the descriptors the kernel has open for writing, or of an inherited file (context.cpp: SyscallExit,
\* RegisterProcess, RegisterThread, RegisterExec, VanishProcess).
THEOREM DescriptorsAreFollowed == Spec => []FdsAgree
<1>1. AccountingInv => FdsAgree
  <2> SUFFICES ASSUME AccountingInv, Without({"cloexec", "race"}),
                      NEW p \in Pid, Settled(p)
               PROVE  OpenSlots(Table(p)) = {fd \in Fd : IsOpen(p, fd) /\ At(p, fd).followed}
    BY DEF FdsAgree
  <2>1. /\ group[p] = p /\ \A q \in Members(p) : stop[q].event \in {"running", "exit"}
        /\ \E q \in Members(p) : stop[q] = Running
    BY DEF Settled
  <2>2. PICK q \in Pid : group[q] = p /\ stop[q] = Running
    BY <2>1 DEF Members
  <2>3. /\ Running.event = "running" /\ Absent.event = "absent" /\ Running # Absent
    BY Events
  <2>4. ~Over /\ Live(p)
    BY <2>1, <2>2, <2>3 DEF Over, Live
  <2>5. Agrees(Table(p), p) /\ TypedInv /\ LifeInv
    BY <2>4 DEF AccountingInv, AgreeInv, AgreesOn
  <2>6. Calls(p) = {}
    BY <2>1, <2>3 DEF Calls, Members
  <2>7. Busy(p) = {}
    BY <2>6 DEF Busy
  <2>8. \A fd \in Fd : fd \in OpenSlots(Table(p)) <=> fd \in Followed(p)
    BY <2>5, <2>7 DEF Agrees, Fits
  <2>9. p \in Registered
    BY <2>4, <2>5, LiveAreKnown DEF TypedInv
  <2>10. OpenSlots(Table(p)) \subseteq Fd
    BY <2>5, <2>9, TableOfRegistered DEF TypedInv, OpenSlots, Entry
  <2>11. \A fd \in Fd : fd \in Followed(p) <=> IsOpen(p, fd) /\ At(p, fd).followed
    BY <2>1 DEF Followed, IsOpen, At, Descriptors
  <2> QED  BY <2>8, <2>10, <2>11
<1> QED  BY <1>1, InvariantHolds, PTL


------------------------------------------------------------------------------
(* The interruption target *)

\* Without threads a process is one.
LEMMA SingleAre ==
  ASSUME TypedInv, LifeInv, SpareInv, NEW p \in Pid, stop[p] # Absent
  PROVE  group[p] = p /\ Members(p) = {p}
<1>1. group[p] \in Pid
  BY ActorsAreThere DEF TypedInv
<1>2. group[p] = p
  BY <1>1, IdsAssumption DEF SpareInv
<1>3. \A q \in Pid : group[q] = p => q = p
  BY IdsAssumption DEF SpareInv
<1> QED  BY <1>2, <1>3 DEF Members

\* What a process holds stays what it was, where its descriptors do.
LEMMA TargetsStay ==
  ASSUME KernelTyped, NEW q \in Pid, UNCHANGED use, NEW fd \in Fd,
         kfds'[q][fd].ofd = kfds[q][fd].ofd,
         kfds[q][fd].ofd # None =>
           /\ ofds'[kfds[q][fd].ofd].write = ofds[kfds[q][fd].ofd].write
           /\ ofds'[kfds[q][fd].ofd].name = ofds[kfds[q][fd].ofd].name
  PROVE  HoldsTarget(q, fd)' <=> HoldsTarget(q, fd)
BY DEF HoldsTarget, ForWriting

\* A process that makes a call has not opened the target before, and if it does
\* now the tracer is told.
LEMMA CalledSpares ==
  ASSUME TypedInv, LifeInv, SpareInv, NEW p \in Pid, NEW r, Called(p, r), p \notin struck
  PROVE  SpareInv'
<1>1. /\ stop[p] = Running /\ UNCHANGED <<use, group, struck>>
      /\ stop' = [stop EXCEPT ![p] = [Running EXCEPT !.event = "syscall", !.regs = r]]
      /\ RegsTyped(r) /\ KernelTyped' /\ KernelTyped
      /\ Kept(p) /\ Carried(p, r)
  BY DEF Called, TypedInv
<1>2. /\ Running.event = "running" /\ Running # Absent
      /\ [Running EXCEPT !.event = "syscall", !.regs = r].event = "syscall"
      /\ [Running EXCEPT !.event = "syscall", !.regs = r].regs = r
  BY Events
<1>3. group[p] = p
  BY <1>1, <1>2, SingleAre
<1>4. \A q \in Pid : stop'[q] = IF q = p THEN [Running EXCEPT !.event = "syscall", !.regs = r]
                                 ELSE stop[q]
  BY <1>1 DEF LifeInv, ThreadInv
<1>5. \A fd \in Fd : ~HoldsTarget(p, fd)
  BY <1>1, <1>2 DEF SpareInv
<1>6. ASSUME NEW q \in Pid, NEW fd \in Fd, kfds'[q][fd].ofd = kfds[q][fd].ofd
      PROVE  HoldsTarget(q, fd)' <=> HoldsTarget(q, fd)
  BY <1>1, <1>6, TargetsStay DEF Kept
<1>7. ASSUME NEW q \in Pid \ {p}, NEW fd \in Fd
      PROVE  HoldsTarget(q, fd)' <=> HoldsTarget(q, fd)
  BY <1>3, <1>6 DEF Called
<1>8. ASSUME NEW fd \in Fd, HoldsTarget(p, fd)'
      PROVE  Follows(r) /\ r.ret = fd
  <2>1. fd \in Changes(r)
    BY <1>3, <1>5, <1>6, <1>8 DEF Called
  <2>2. kfds'[p][fd].ofd # None /\ ofds'[kfds'[p][fd].ofd].write
    BY <1>8 DEF HoldsTarget, ForWriting
  <2>3. r.nr # "close"
    <3> SUFFICES ASSUME r.nr = "close"
                 PROVE  FALSE
      OBVIOUS
    <3>1. fd = r.fd
      BY <2>1 DEF Changes, Dups, NewFd
    <3>2. kfds'[group[p]][r.fd].ofd = None
      BY <1>1 DEF Carried
    <3> QED  BY <1>3, <2>2, <3>1, <3>2
  <2>4. r.nr \notin Dups
    <3> SUFFICES ASSUME r.nr \in Dups
                 PROVE  FALSE
      OBVIOUS
    <3>1. fd = r.ret /\ r.fd # fd /\ Changes(r) = {fd} /\ r.nr \in NewFd \ {"open", "creat"}
      BY <2>1, <2>3 DEF Changes, Dups, NewFd
    <3>2. r.fd \in Fd
      BY <1>1, <3>1 DEF RegsTyped, NewFd
    <3>3. kfds'[p][r.fd].ofd = kfds'[p][fd].ofd
      BY <1>1, <1>3, <3>1 DEF Carried
    <3>4. HoldsTarget(p, r.fd)'
      BY <1>8, <3>2, <3>3 DEF HoldsTarget, ForWriting
    <3>5. kfds'[p][r.fd].ofd = kfds[p][r.fd].ofd
      BY <1>3, <3>1, <3>2 DEF Called
    <3> QED  BY <1>5, <1>6, <3>2, <3>4, <3>5
  <2>5. r.nr \in {"open", "creat"} /\ fd = r.ret
    BY <2>1, <2>3, <2>4 DEF Changes
  <2> QED  BY <1>1, <1>3, <2>2, <2>5 DEF Carried
<1>9. ASSUME NEW o \in Ofd, ofds'[o].name \in use.target
      PROVE  ofds'[o].peak = 0
  <2>1. CASE /\ ofds'[o].name = ofds[o].name
             /\ \E fd \in Fd : kfds[group[p]][fd].ofd = o /\ ofds[o].write
    <3>1. PICK fd \in Fd : kfds[p][fd].ofd = o /\ ofds[o].write
      BY <1>3, <2>1
    <3>2. o # None
      BY AccountingAssumption, Zenon
    <3>3. HoldsTarget(p, fd)
      BY <1>9, <2>1, <3>1, <3>2 DEF HoldsTarget, ForWriting
    <3> QED  BY <1>5, <3>3
  <2>2. CASE ofds'[o].peak = ofds[o].peak /\ ofds'[o].name = ofds[o].name
    BY <1>9, <2>2 DEF SpareInv
  <2> QED  BY <1>1, <2>1, <2>2 DEF Kept
<1>10. ASSUME NEW q \in Pid, NEW fd \in Fd,
              stop'[q].event \notin {"absent", "exit"}, HoldsTarget(q, fd)'
       PROVE  \/ q \in struck'
              \/ stop'[q].event = "syscall" /\ Follows(stop'[q].regs) /\ stop'[q].regs.ret = fd
  <2>1. CASE q = p
    BY <1>2, <1>4, <1>8, <1>10, <2>1
  <2>2. CASE q # p
    BY <1>1, <1>4, <1>7, <1>10, <2>2 DEF SpareInv
  <2> QED  BY <2>1, <2>2
<1>11. \A q \in Pid : group'[q] \in {q, None}
  BY <1>1 DEF SpareInv
<1> QED  BY <1>1, <1>9, <1>10, <1>11 DEF SpareInv

\* Another step of a process that does not hold the target: the descriptors of
\* others are what they were, and its own, and those of its child, refer to
\* nothing it did not hold.
LEMMA StepSpares ==
  ASSUME TypedInv, SpareInv, NEW p \in Pid, UNCHANGED use,
         \A q \in Pid : group'[q] \in {q, None},
         \A fd \in Fd : stop'[p].event # "exit" => ~HoldsTarget(p, fd),
         \A q \in Pid \ {p} : q \in struck => q \in struck',
         \A q \in Pid : stop'[q].event \notin {"absent", "exit"} =>
           \/ q # p /\ stop'[q] = stop[q] /\ kfds'[q] = kfds[q]
           \/ /\ stop'[p].event # "exit"
              /\ \A fd \in Fd : kfds'[q][fd].ofd \in {kfds[p][fd].ofd, None},
         \A q \in Pid, fd \in Fd : kfds'[q][fd].ofd # None =>
           /\ ofds'[kfds'[q][fd].ofd].write = ofds[kfds'[q][fd].ofd].write
           /\ ofds'[kfds'[q][fd].ofd].name = ofds[kfds'[q][fd].ofd].name,
         \A o \in Ofd :
           ofds'[o].peak = 0 \/ (ofds'[o].peak = ofds[o].peak /\ ofds'[o].name = ofds[o].name)
  PROVE  SpareInv'
<1>1. ASSUME NEW q \in Pid, NEW fd \in Fd,
             stop'[q].event \notin {"absent", "exit"}, HoldsTarget(q, fd)'
      PROVE  \/ q \in struck'
             \/ stop'[q].event = "syscall" /\ Follows(stop'[q].regs) /\ stop'[q].regs.ret = fd
  <2>1. /\ kfds'[q][fd].ofd # None
        /\ ofds[kfds'[q][fd].ofd].write /\ ofds[kfds'[q][fd].ofd].name \in use.target
    BY <1>1 DEF HoldsTarget, ForWriting
  <2>2. CASE q # p /\ stop'[q] = stop[q] /\ kfds'[q] = kfds[q]
    <3>1. HoldsTarget(q, fd)
      BY <2>1, <2>2 DEF HoldsTarget, ForWriting
    <3> QED  BY <1>1, <2>2, <3>1 DEF SpareInv
  <2>3. CASE stop'[p].event # "exit" /\ \A a \in Fd : kfds'[q][a].ofd \in {kfds[p][a].ofd, None}
    <3>1. HoldsTarget(p, fd)
      BY <2>1, <2>3 DEF HoldsTarget, ForWriting
    <3> QED  BY <2>3, <3>1
  <2> QED  BY <1>1, <2>2, <2>3
<1>2. \A o \in Ofd : ofds'[o].name \in use'.target => ofds'[o].peak = 0
  BY DEF SpareInv
<1> QED  BY <1>1, <1>2 DEF SpareInv

LEMMA ExitSpares ==
  ASSUME TypedInv, LifeInv, SpareInv, NEW p \in Pid, stop[p] = Running, Exit(p)
  PROVE  SpareInv'
<1> DEFINE closed == [kfds EXCEPT ![p] = AllClosed]
<1>1. group[p] = p /\ Members(p) = {p}
  BY SingleAre, Events
<1>2. /\ SetDescriptors(closed, ofds) /\ struck' = struck \ {p} /\ UNCHANGED <<use, group>>
      /\ stop' = [q \in Pid |-> IF q = p THEN [Running EXCEPT !.event = "exit"] ELSE stop[q]]
  BY <1>1 DEF Exit
<1>3. kfds \in Entries /\ ofds \in [Ofd -> Description]
  BY DEF TypedInv, KernelTyped, Entries
<1>4. /\ AllClosed \in [Fd -> [ofd : Ofd \cup {None}, cloexec : BOOLEAN]]
      /\ \A fd \in Fd : AllClosed[fd].ofd = None
  BY FreeTyped DEF AllClosed, Closed
<1>5. closed \in Entries /\ \A q \in Pid : closed[q] = IF q = p THEN AllClosed ELSE kfds[q]
  BY <1>3, <1>4 DEF Entries
<1> HIDE DEF closed
<1>6. /\ kfds' = closed
      /\ \A q \in Pid, fd \in Fd : closed[q][fd].ofd # None =>
           ofds'[closed[q][fd].ofd] = ofds[closed[q][fd].ofd]
      /\ \A o \in Ofd : ofds'[o] = ofds[o] \/ ofds'[o] = Free
  BY <1>2, <1>3, <1>5, DescriptorsSet
<1>7. Free.peak = 0 /\ [Running EXCEPT !.event = "exit"].event = "exit"
  BY Events DEF Free
<1>8. \A q \in Pid : stop'[q].event # "exit" => q # p /\ stop'[q] = stop[q] /\ kfds'[q] = kfds[q]
  BY <1>2, <1>5, <1>6, <1>7
<1>9. stop'[p].event = "exit"
  BY <1>2, <1>7
<1>10. \A q \in Pid : group'[q] \in {q, None}
  BY <1>2 DEF SpareInv
<1> QED  BY <1>2, <1>6, <1>7, <1>8, <1>9, <1>10, StepSpares

LEMMA ExecSpares ==
  ASSUME TypedInv, LifeInv, SpareInv, NEW p \in Pid, stop[p] = Running, p \notin struck, Exec(p)
  PROVE  SpareInv'
<1> DEFINE table == [fd \in Fd |-> IF kfds[p][fd].cloexec THEN Closed ELSE kfds[p][fd]]
           dups == {o \in Ofd : ofds[o].write /\ \E a, b \in Fd :
                                   a # b /\ table[a].ofd = o /\ table[b].ofd = o}
           kept == [kfds EXCEPT ![p] = table]
           descriptions == Split(ofds, dups)
<1>1. /\ SetDescriptors(kept, descriptions) /\ UNCHANGED <<use, group, struck>>
      /\ stop' = [stop EXCEPT ![p] = [Running EXCEPT !.event = "exec"]]
  BY DEF Exec
<1>2. kfds \in Entries /\ ofds \in [Ofd -> Description]
  BY DEF TypedInv, KernelTyped, Entries
<1>3. /\ table \in [Fd -> [ofd : Ofd \cup {None}, cloexec : BOOLEAN]]
      /\ \A fd \in Fd : table[fd].ofd \in {kfds[p][fd].ofd, None}
  BY <1>2, FreeTyped DEF Entries, Closed
<1> HIDE DEF table
<1>4. kept \in Entries /\ \A q \in Pid : kept[q] = IF q = p THEN table ELSE kfds[q]
  BY <1>2, <1>3 DEF Entries
<1>5. /\ descriptions \in [Ofd -> Description]
      /\ \A o \in Ofd : /\ descriptions[o].name = ofds[o].name
                        /\ descriptions[o].write = ofds[o].write
                        /\ descriptions[o].peak = ofds[o].peak
  BY <1>2, SplitTyped
<1> HIDE DEF kept, descriptions
<1>6. /\ kfds' = kept
      /\ \A q \in Pid, fd \in Fd : kept[q][fd].ofd # None =>
           ofds'[kept[q][fd].ofd] = descriptions[kept[q][fd].ofd]
      /\ \A o \in Ofd : ofds'[o] = descriptions[o] \/ ofds'[o] = Free
  BY <1>1, <1>4, <1>5, DescriptorsSet
<1>7. /\ Free.peak = 0 /\ [Running EXCEPT !.event = "exec"].event = "exec"
      /\ Running.event = "running"
  BY Events DEF Free
<1>8. \A q \in Pid : stop'[q] = IF q = p THEN [Running EXCEPT !.event = "exec"] ELSE stop[q]
  BY <1>1 DEF LifeInv, ThreadInv
<1>9. \A fd \in Fd : ~HoldsTarget(p, fd)
  BY <1>7 DEF SpareInv
<1>10. ASSUME NEW q \in Pid
       PROVE  \/ q # p /\ stop'[q] = stop[q] /\ kfds'[q] = kfds[q]
              \/ stop'[p].event # "exit" /\ \A fd \in Fd : kfds'[q][fd].ofd \in {kfds[p][fd].ofd, None}
  BY <1>3, <1>4, <1>6, <1>7, <1>8
<1>11. ASSUME NEW q \in Pid, NEW fd \in Fd, kfds'[q][fd].ofd # None
       PROVE  /\ ofds'[kfds'[q][fd].ofd].write = ofds[kfds'[q][fd].ofd].write
              /\ ofds'[kfds'[q][fd].ofd].name = ofds[kfds'[q][fd].ofd].name
  <2>1. kept[q][fd].ofd \in Ofd
    BY <1>4, <1>6, <1>11 DEF Entries
  <2> QED  BY <1>5, <1>6, <1>11, <2>1
<1>12. \A o \in Ofd : ofds'[o].peak = 0 \/ (ofds'[o].peak = ofds[o].peak /\ ofds'[o].name = ofds[o].name)
  BY <1>5, <1>6, <1>7
<1>13. \A q \in Pid : group'[q] \in {q, None}
  BY <1>1 DEF SpareInv
<1> QED  BY <1>1, <1>9, <1>10, <1>11, <1>12, <1>13, StepSpares

LEMMA ForkSpares ==
  ASSUME TypedInv, LifeInv, SpareInv, NEW p \in Pid, NEW child \in Pid,
         stop[p] = Running, p \notin struck, Fork(p, child)
  PROVE  SpareInv'
<1> DEFINE inherited == {kfds[p][fd].ofd : fd \in {f \in Fd : Writable(p, f)}}
           descriptions == Split(ofds, inherited)
<1>1. /\ kfds' = [kfds EXCEPT ![child] = kfds[p]] /\ ofds' = descriptions
      /\ UNCHANGED <<use, struck>> /\ group' = [group EXCEPT ![child] = child]
      /\ stop' = [stop EXCEPT ![p] = [Running EXCEPT !.event = "fork", !.child = child],
                              ![child] = [Absent EXCEPT !.event = "born"]]
      /\ stop[child] = Absent
  BY DEF Fork
<1>2. kfds \in Entries /\ ofds \in [Ofd -> Description] /\ group \in [Pid -> Pid \cup {None}]
  BY DEF TypedInv, KernelTyped, Entries
<1>3. \A o \in Ofd : /\ descriptions[o].name = ofds[o].name
                     /\ descriptions[o].write = ofds[o].write
                     /\ descriptions[o].peak = ofds[o].peak
  BY <1>2, SplitTyped
<1> HIDE DEF descriptions
<1>4. /\ Running.event = "running" /\ Running # Absent
      /\ [Running EXCEPT !.event = "fork", !.child = child].event = "fork"
  BY Events
<1>5. \A q \in Pid : stop'[q] = IF q = child THEN [Absent EXCEPT !.event = "born"]
                                 ELSE IF q = p THEN [Running EXCEPT !.event = "fork", !.child = child]
                                 ELSE stop[q]
  BY <1>1 DEF LifeInv, ThreadInv
<1>6. \A fd \in Fd : ~HoldsTarget(p, fd)
  BY <1>4 DEF SpareInv
<1>7. p # child /\ stop'[p].event # "exit"
  BY <1>1, <1>4, <1>5
<1>8. \A q \in Pid : kfds'[q] = IF q = child THEN kfds[p] ELSE kfds[q]
  BY <1>1, <1>2 DEF Entries
<1>9. ASSUME NEW q \in Pid
      PROVE  \/ q # p /\ stop'[q] = stop[q] /\ kfds'[q] = kfds[q]
             \/ stop'[p].event # "exit" /\ \A fd \in Fd : kfds'[q][fd].ofd \in {kfds[p][fd].ofd, None}
  BY <1>5, <1>7, <1>8
<1>10. ASSUME NEW q \in Pid, NEW fd \in Fd, kfds'[q][fd].ofd # None
       PROVE  /\ ofds'[kfds'[q][fd].ofd].write = ofds[kfds'[q][fd].ofd].write
              /\ ofds'[kfds'[q][fd].ofd].name = ofds[kfds'[q][fd].ofd].name
  <2>1. kfds'[q][fd].ofd \in Ofd
    BY <1>2, <1>8, <1>10 DEF Entries
  <2> QED  BY <1>1, <1>3, <2>1
<1>11. \A q \in Pid : group'[q] \in {q, None}
  BY <1>1, <1>2 DEF SpareInv
<1> QED  BY <1>1, <1>3, <1>6, <1>9, <1>10, <1>11, StepSpares


\* The target is only reckoned with while all of this has been so.
LEMMA SparedBefore ==
  ASSUME Keeps, Spared'
  PROVE  Spared /\ UNCHANGED use
BY DEF Keeps, Spared, Without

\* Handlers do not touch descriptors.
LEMMA HandlerSpares ==
  ASSUME SpareInv, UNCHANGED <<use, kfds, ofds>>,
         \A q \in Pid : group'[q] \in {q, None} /\ (q \in struck => q \in struck'),
         \A q \in Pid : \/ stop'[q].event \in {"absent", "exit"} \/ stop'[q] = stop[q]
                        \/ stop[q].event \notin {"absent", "exit", "syscall"}
                        \/ \A fd \in Fd : HoldsTarget(q, fd) => q \in struck'
  PROVE  SpareInv'
<1>1. \A q, fd : HoldsTarget(q, fd)' <=> HoldsTarget(q, fd)
  BY DEF HoldsTarget, ForWriting
<1>2. ASSUME NEW q \in Pid, NEW fd \in Fd,
             stop'[q].event \notin {"absent", "exit"}, HoldsTarget(q, fd)'
      PROVE  \/ q \in struck'
             \/ stop'[q].event = "syscall" /\ Follows(stop'[q].regs) /\ stop'[q].regs.ret = fd
  <2>1. HoldsTarget(q, fd)
    BY <1>1, <1>2
  <2> QED  BY <1>2, <2>1 DEF SpareInv
<1>3. \A o \in Ofd : ofds'[o].name \in use'.target => ofds'[o].peak = 0
  BY DEF SpareInv
<1> QED  BY <1>2, <1>3 DEF SpareInv

\* A step of a process: where it has the signal pending it makes no call.
LEMMA ProcessStepSpares ==
  ASSUME TypedInv, LifeInv, SpareInv, Spared, Spared', NEW p \in Pid, ProcessStep(p)
  PROVE  SpareInv'
<1>1. stop[p] = Running /\ UNCHANGED contextVars /\ (group[p] \in struck => Members(p) # {p})
  BY DEF ProcessStep
<1>2. group[p] = p /\ Members(p) = {p} /\ p \notin struck
  BY <1>1, Events, SingleAre
<1>3. Runs(p)
  BY <1>1, <1>2 DEF Runs, TypedInv
<1>4. \A name \in Name : ~Unlink(name)
  BY DEF Unlink, Spared
<1>5. "clone" \notin use.calls
  BY DEF Spared
<1>6. ~ThreadExit(p)
  BY <1>2 DEF ThreadExit
<1>7. CASE \E r : Called(p, r)
  BY <1>2, <1>7, CalledSpares
<1>8. CASE \E child \in Pid : Fork(p, child)
  BY <1>1, <1>2, <1>8, ForkSpares
<1>9. CASE Exec(p)
  BY <1>1, <1>2, <1>9, ExecSpares
<1>10. CASE Exit(p)
  BY <1>1, <1>10, ExitSpares
<1> QED  BY <1>3, <1>4, <1>5, <1>6, <1>7, <1>8, <1>9, <1>10, CallsAreCalled

\* An event is handled; that of an open sends the signal.
LEMMA TracerStepSpares ==
  ASSUME TypedInv, LifeInv, SpareInv, Spared, NEW p \in Pid, TracerStep(p)
  PROVE  SpareInv'
<1>1. UNCHANGED <<files, use, kfds, ofds>>
  BY DEF TracerStep
<1>2. \A q \in Pid : group[q] \in {q, None}
  BY DEF SpareInv
<1>3. /\ Running.event = "running" /\ Absent.event = "absent"
  BY Events
<1>4. CASE HandleSyscall(p)
  <2>1. CASE UNCHANGED <<contextVars, group, struck>> /\ stop' = [q \in Pid |-> Absent]
    <3>1. \A q \in Pid : stop'[q].event = "absent"
      BY <1>3, <2>1
    <3> QED  BY <1>1, <1>2, <2>1, <3>1, HandlerSpares
  <2>2. ASSUME NEW new, Answered(p, new)
        PROVE  SpareInv'
    <3>1. /\ stop[p].event = "syscall" /\ stop' = [stop EXCEPT ![p] = Running] /\ group' = group
          /\ struck' = struck \cup ProcessInterruptionTarget(p, stop[p].regs)
      BY <2>2 DEF Answered
    <3>2. stop[p] # Absent
      BY <1>3, <3>1
    <3>3. group[p] = p
      BY <3>2, SingleAre
    <3>4. ASSUME NEW fd \in Fd, HoldsTarget(p, fd)
          PROVE  p \in struck'
      <4>1. CASE p \in struck
        BY <3>1, <4>1
      <4>2. CASE Follows(stop[p].regs) /\ stop[p].regs.ret = fd
        BY <3>1, <3>3, <3>4, <4>2 DEF ProcessInterruptionTarget, At, Descriptors, HoldsTarget, Spared
      <4> QED  BY <3>1, <3>4, <4>1, <4>2 DEF SpareInv
    <3>5. \A q \in Pid \ {p} : stop'[q] = stop[q]
      BY <3>1 DEF LifeInv, ThreadInv
    <3>6. \A q \in Pid : group'[q] \in {q, None} /\ (q \in struck => q \in struck')
      BY <1>2, <3>1
    <3> QED  BY <1>1, <3>4, <3>5, <3>6, HandlerSpares
  <2> QED  BY <1>1, <1>4, <2>1, <2>2, SyscallAnswered
<1>5. ASSUME NEW q \in Pid, HandleFork(q) \/ HandleClone(q)
      PROVE  SpareInv'
  <2>1. /\ stop[q].event \in {"fork", "clone"} /\ UNCHANGED <<group, struck>>
        /\ stop' = [stop EXCEPT ![q] = Running, ![stop[q].child] = Running]
    BY <1>5 DEF HandleFork, HandleClone
  <2>2. stop[q] # Absent
    BY <1>3, <2>1
  <2>3. stop[q].child \in Pid /\ stop[stop[q].child].event = "born"
    BY <2>1, <2>2, ActorsAreThere DEF BirthInv, TypedInv
  <2>4. \A a \in Pid : stop'[a] = stop[a] \/ stop[a].event \in {"fork", "clone", "born"}
    BY <2>1, <2>3 DEF LifeInv, ThreadInv
  <2> QED  BY <1>1, <1>2, <2>1, <2>4, HandlerSpares
<1>6. CASE HandleExec(p)
  <2>1. /\ stop[p].event = "exec" /\ UNCHANGED <<group, struck>>
        /\ stop' = [stop EXCEPT ![p] = Running]
    BY <1>6 DEF HandleExec, Resume
  <2>2. \A a \in Pid : stop'[a] = stop[a] \/ stop[a].event = "exec"
    BY <2>1 DEF LifeInv, ThreadInv
  <2> QED  BY <1>1, <1>2, <2>1, <2>2, HandlerSpares
<1>7. CASE HandleExit(p)
  <2>1. /\ group' = [group EXCEPT ![p] = None] /\ UNCHANGED struck
        /\ stop' = [stop EXCEPT ![p] = Absent]
    BY <1>7 DEF HandleExit
  <2>2. \A a \in Pid : stop'[a] = stop[a] \/ stop'[a].event = "absent"
    BY <1>3, <2>1 DEF LifeInv, ThreadInv
  <2>3. \A a \in Pid : group'[a] \in {a, None}
    BY <1>2, <2>1 DEF TypedInv, KernelTyped
  <2> QED  BY <1>1, <2>1, <2>2, <2>3, HandlerSpares
<1> QED  BY <1>4, <1>5, <1>6, <1>7 DEF TracerStep

\* At the start nothing is open.
LEMMA StartSpares ==
  ASSUME Init
  PROVE  TargetInv
<1> SUFFICES ASSUME use.inherited = {None}
             PROVE  SpareInv
  BY DEF TargetInv, Spared
<1>1. kfds = [p \in Pid |-> AllClosed] /\ ofds = [o \in Ofd |-> Free]
  BY DEF Init
<1>2. Free.peak = 0 /\ \A fd \in Fd : AllClosed[fd].ofd = None
  BY DEF Free, AllClosed, Closed
<1>3. \A p \in Pid, fd \in Fd : ~HoldsTarget(p, fd)
  BY <1>1, <1>2 DEF HoldsTarget, ForWriting
<1>4. \A p \in Pid : group[p] \in {p, None}
  BY DEF Init
<1> QED  BY <1>1, <1>2, <1>3, <1>4 DEF SpareInv

\* TargetIsSpared: a process that opens the interruption target for writing is
\* stopped by the signal before it has written to it (interruption.cpp, main.cpp),
\* where the signal is fatal, the file keeps its name and was not inherited,
\* and processes have one thread each.
THEOREM TheTargetIsSpared == Spec => []TargetIsSpared
<1>1. Init => TargetInv
  BY StartSpares
<1>2. AccountingInv /\ TargetInv /\ [Next]_vars => TargetInv'
  <2> SUFFICES ASSUME AccountingInv, TargetInv, [Next]_vars, Spared'
               PROVE  SpareInv'
    BY DEF TargetInv
  <2>1. TypedInv /\ LifeInv
    BY DEF AccountingInv
  <2>2. Keeps
    BY <2>1, ProcessStepKeeps, TakeSignalKeeps, TracerStepKeeps, NothingKeeps DEF Next, AllGone
  <2>3. Spared /\ UNCHANGED use
    BY <2>2, SparedBefore
  <2>4. SpareInv
    BY <2>3 DEF TargetInv
  <2>5. ASSUME NEW p \in Pid, TakeSignal(p)
        PROVE  SpareInv'
    <3>1. stop[p] = Running /\ "caught" \notin quirks'
      BY <2>5 DEF TakeSignal, Spared, Without
    <3>2. Exit(p)
      BY <2>5, <3>1 DEF TakeSignal
    <3> QED  BY <2>1, <2>4, <3>1, <3>2, ExitSpares
  <2>6. CASE UNCHANGED vars
    <3>1. /\ UNCHANGED <<use, kfds, ofds>> /\ \A q \in Pid : stop'[q] = stop[q]
          /\ \A q \in Pid : group'[q] \in {q, None} /\ (q \in struck => q \in struck')
      BY <2>4, <2>6 DEF SpareInv, vars, kernelVars
    <3> QED  BY <2>4, <3>1, HandlerSpares
  <2> QED  BY <2>1, <2>3, <2>4, <2>5, <2>6, ProcessStepSpares, TracerStepSpares DEF Next, AllGone
<1>3. TargetInv => TargetIsSpared
  BY DEF TargetInv, SpareInv, TargetIsSpared
<1> QED  BY <1>1, <1>2, <1>3, InvariantHolds, PTL DEF Spec

------------------------------------------------------------------------------
(* What is counted *)

\* A table is finite: no two of its entries have the same slots.
LEMMA TablesAreFinite ==
  ASSUME NEW table \in SUBSET Entry, Slotted(table)
  PROVE  IsFiniteSet(table)
<1> DEFINE f == [e \in table |-> e.slots]
<1>1. f \in [table -> SUBSET Fd]
  BY DEF Entry
<1>2. ASSUME NEW a \in table, NEW b \in table, f[a] = f[b]
      PROVE  a = b
  BY <1>2 DEF Slotted
<1>3. f \in Injection(table, SUBSET Fd)
  BY <1>1, <1>2 DEF Injection, IsInjective
<1>4. IsFiniteSet(SUBSET Fd)
  BY AccountingAssumption, FS_SUBSET, Zenon
<1> QED  BY <1>3, <1>4, FS_Injection

Outputs(table) == [e \in table |-> GetOutputSize(e.file)]

\* What the report would count of entries of a table is a sum.
LEMMA OutputIsSum ==
  ASSUME NEW table \in SUBSET Entry, Slotted(table), NEW those \in SUBSET table
  PROVE  Summable(Outputs(table), those) /\ OutputOf(those) = SumOf(Outputs(table), those)
<1> DEFINE w == Outputs(table)
           plus(s, f) == IF s = {} THEN 0 ELSE GetOutputSize(OneOf(s).file) + f[s \ {OneOf(s)}]
           sums(f) == f = [s \in SUBSET those |-> plus(s, f)]
           g == CHOOSE f : sums(f)
<1>1. OutputOf(those) = g[those]
  BY Zenon DEF OutputOf, MapThenSumSet, MapThenFoldSet, OneOf
<1>2. Summable(w, those)
  <2>1. IsFiniteSet(those)
    BY TablesAreFinite, FS_Subset
  <2>2. ASSUME NEW e \in those PROVE GetOutputSize(e.file) \in Nat
    <3>1. e.file.MaxPos \in Nat /\ e.file.InitSize \in Nat
      BY SizeModulusAssumption DEF Entry, TFileState, Size
    <3> QED  BY <3>1 DEF GetOutputSize
  <2> QED  BY <2>1, <2>2 DEF Summable, Outputs
<1>3. \A e \in those : w[e] = GetOutputSize(e.file)
  BY DEF Outputs
<1> HIDE DEF w
<1>4. ASSUME NEW f PROVE sums(f) <=> Sums(w, those, f)
  <2>1. ASSUME NEW s \in SUBSET those PROVE plus(s, f) = Plus(w, s, f)
    <3>1. s # {} => OneOf(s) \in those
      BY OneIsIn
    <3> QED  BY <1>3, <3>1 DEF Plus
  <2> HIDE DEF plus
  <2> QED  BY <2>1 DEF Sums
<1> HIDE DEF sums
<1>5. \E f : sums(f)
  BY <1>2, <1>4, SumsExist
<1>6. Sums(w, those, g)
  BY <1>4, <1>5
<1> HIDE DEF g
<1>7. OutputOf(those) = SumOf(w, those)
  BY <1>1, <1>2, <1>6, SumIs
<1> QED  BY <1>2, <1>7 DEF w

Measured(descriptions) ==
  \A o \in Ofd : descriptions[o].peak \in Nat /\ descriptions[o].init \in Nat

Growths(descriptions) == [o \in Ofd |-> Growth(descriptions[o])]

\* So is the growth of files through some of the descriptions.
LEMMA GrowthIsSum ==
  ASSUME NEW descriptions, Measured(descriptions), NEW those \in SUBSET Ofd
  PROVE  /\ Summable(Growths(descriptions), those)
         /\ GrowthOf(descriptions, those) = SumOf(Growths(descriptions), those)
<1> DEFINE w == Growths(descriptions)
           plus(s, f) == IF s = {} THEN 0 ELSE Growth(descriptions[OneOf(s)]) + f[s \ {OneOf(s)}]
           sums(f) == f = [s \in SUBSET those |-> plus(s, f)]
           g == CHOOSE f : sums(f)
<1>1. GrowthOf(descriptions, those) = g[those]
  BY Zenon DEF GrowthOf, MapThenSumSet, MapThenFoldSet, OneOf
<1>2. Summable(w, those)
  <2>1. IsFiniteSet(Ofd)
    BY AccountingAssumption, Zenon
  <2>2. IsFiniteSet(those)
    BY <2>1, FS_Subset
  <2>3. \A o \in Ofd : Growth(descriptions[o]) \in Nat
    BY DEF Growth, Measured
  <2> QED  BY <2>2, <2>3 DEF Summable, Growths
<1>3. \A o \in those : w[o] = Growth(descriptions[o])
  BY DEF Growths
<1> HIDE DEF w
<1>4. ASSUME NEW f PROVE sums(f) <=> Sums(w, those, f)
  <2>1. ASSUME NEW s \in SUBSET those PROVE plus(s, f) = Plus(w, s, f)
    <3>1. s # {} => OneOf(s) \in those
      BY OneIsIn
    <3> QED  BY <1>3, <3>1 DEF Plus
  <2> HIDE DEF plus
  <2> QED  BY <2>1 DEF Sums
<1> HIDE DEF sums
<1>5. \E f : sums(f)
  BY <1>2, <1>4, SumsExist
<1>6. Sums(w, those, g)
  BY <1>4, <1>5
<1> HIDE DEF g
<1>7. GrowthOf(descriptions, those) = SumOf(w, those)
  BY <1>1, <1>2, <1>6, SumIs
<1> QED  BY <1>2, <1>7 DEF w

LEMMA DescriptionsMeasured ==
  /\ \A descriptions \in [Ofd -> Description] : Measured(descriptions)
  /\ KernelTyped => \A o \in Ofd : ofds[o].peak \in Nat /\ ofds[o].init \in Nat
<1>1. 0 .. MaxLength \subseteq Nat
  BY LengthsAreSizes
<1> QED  BY <1>1 DEF Measured, Description, KernelTyped

\* What is history only grows.
LEMMA GrownTyped ==
  ASSUME grown \in Nat, NEW fds, NEW descriptions, Measured(descriptions),
         SetDescriptors(fds, descriptions)
  PROVE  grown' \in Nat
<1> DEFINE freed == {o \in Ofd : descriptions[o].name # None /\ ~Refers(fds, o)}
<1>1. grown' = grown + GrowthOf(descriptions, freed)
  BY DEF SetDescriptors
<1>2. GrowthOf(descriptions, freed) \in Nat
  <2>1. freed \in SUBSET Ofd
    OBVIOUS
  <2> HIDE DEF freed
  <2> QED  BY <2>1, GrowthIsSum, SumTyped
<1> QED  BY <1>1, <1>2

\* A step of a process.
LEMMA ProcessStepGrows ==
  ASSUME TypedInv, grown \in Nat, NEW p \in Pid, ProcessStep(p)
  PROVE  grown' \in Nat
<1>1. Measured(ofds)
  BY DescriptionsMeasured DEF TypedInv, KernelTyped
<1>2. ASSUME NEW fd, NEW entry, SetFd(p, fd, entry)
      PROVE  grown' \in Nat
  BY <1>1, <1>2, GrownTyped DEF SetFd
<1>3. ASSUME NEW nr, NEW name \in Name, NEW flags, NEW trunc \in BOOLEAN, NEW mode,
             Open(p, nr, name, flags, trunc, mode)
      PROVE  grown' \in Nat
  <2> DEFINE fd == Min(FreeFds(p))
             o == Min({d \in use.ofds : ofds[d].name = None})
             write == {"O_WRONLY", "O_RDWR"} \cap flags # {}
             append == "O_APPEND" \in flags
             start == IF trunc THEN 0 ELSE size[name]
             new == [Free EXCEPT !.name = name, !.write = write, !.append = append,
                                 !.init = start, !.followed = write]
             fds == [kfds EXCEPT ![group[p]][fd] = [ofd |-> o, cloexec |-> "O_CLOEXEC" \in flags]]
             descriptions == [ofds EXCEPT ![o] = new]
  <2>1. SetDescriptors(fds, descriptions)
    BY <1>3 DEF Open
  <2>2. start \in Nat
    BY LengthsAreSizes DEF TypedInv, KernelTyped
  <2> HIDE DEF write, append, start, fds
  <2>3. new.peak = 0 /\ new.init = start
    BY DEF Free
  <2> HIDE DEF new, o
  <2>4. \A d \in Ofd : descriptions[d] \in {new, ofds[d]}
    BY DEF TypedInv, KernelTyped
  <2> HIDE DEF descriptions
  <2>5. Measured(descriptions)
    BY <1>1, <2>2, <2>3, <2>4 DEF Measured
  <2> QED  BY <2>1, <2>5, GrownTyped
<1>4. ASSUME NEW q \in Pid, Exit(q)
      PROVE  grown' \in Nat
  BY <1>1, <1>4, GrownTyped DEF Exit
<1>5. CASE Exec(p)
  <2> DEFINE table == [fd \in Fd |-> IF kfds[p][fd].cloexec THEN Closed ELSE kfds[p][fd]]
             dups == {o \in Ofd : ofds[o].write /\ \E a, b \in Fd :
                              a # b /\ table[a].ofd = o /\ table[b].ofd = o}
  <2>1. SetDescriptors([kfds EXCEPT ![p] = table], Split(ofds, dups))
    BY <1>5 DEF Exec
  <2> HIDE DEF table, dups
  <2>2. Measured(Split(ofds, dups))
    <3>1. ASSUME NEW o \in Ofd
          PROVE  /\ Split(ofds, dups)[o].peak = ofds[o].peak
                 /\ Split(ofds, dups)[o].init = ofds[o].init
      BY DEF Split, TypedInv, KernelTyped, Description
    <3> QED  BY <1>1, <3>1 DEF Measured
  <2> QED  BY <2>1, <2>2, GrownTyped
<1>6. CASE UNCHANGED grown
  BY <1>6
<1>7. CASE \E nr \in use.calls, fd \in Fd :
          \/ nr = "write" /\ Write(p, fd)
          \/ nr = "pwrite64" /\ \E offset \in 0 .. MaxLength : Pwrite(p, fd, offset)
          \/ nr = "pwrite64" /\ PwriteHere(p, fd)
          \/ nr \in {"ftruncate", "fallocate"}
             /\ \E to \in 0 .. MaxLength, keep \in BOOLEAN : Resize(p, nr, fd, to, keep)
          \/ nr = "lseek" /\ \E pos \in 0 .. MaxLength : Seek(p, fd, pos)
          \/ nr = "close" /\ Close(p, fd)
          \/ nr \in {"dup", "F_DUPFD", "F_DUPFD_CLOEXEC"} /\ Dup(p, nr, fd)
          \/ nr \in {"dup2", "dup3"}
             /\ \E new \in Fd, flags \in {{}, {"O_CLOEXEC"}} : DupTo(p, nr, fd, new, flags)
          \/ nr = "F_SETFD" /\ \E on \in BOOLEAN : SetFdFlag(p, fd, on)
          \/ nr = "F_SETFL" /\ \E append \in BOOLEAN : SetStatusFlags(p, fd, append)
  <2>1. PICK nr \in use.calls, fd \in Fd :
          \/ Write(p, fd) \/ PwriteHere(p, fd) \/ Close(p, fd) \/ Dup(p, nr, fd)
          \/ \E offset \in 0 .. MaxLength : Pwrite(p, fd, offset)
          \/ \E to \in 0 .. MaxLength, keep \in BOOLEAN : Resize(p, nr, fd, to, keep)
          \/ \E pos \in 0 .. MaxLength : Seek(p, fd, pos)
          \/ \E new \in Fd, flags \in {{}, {"O_CLOEXEC"}} : DupTo(p, nr, fd, new, flags)
          \/ \E on \in BOOLEAN : SetFdFlag(p, fd, on)
          \/ \E append \in BOOLEAN : SetStatusFlags(p, fd, append)
    BY <1>7
  <2>2. Write(p, fd) \/ PwriteHere(p, fd) => UNCHANGED grown
    BY DEF Write, PwriteHere, Wrote
  <2>3. ASSUME NEW offset, Pwrite(p, fd, offset) PROVE UNCHANGED grown
    BY <2>3 DEF Pwrite, Wrote
  <2>4. ASSUME NEW to, NEW keep, Resize(p, nr, fd, to, keep) PROVE UNCHANGED grown
    BY <2>4 DEF Resize
  <2>5. ASSUME NEW pos, Seek(p, fd, pos) PROVE UNCHANGED grown
    BY <2>5 DEF Seek
  <2>6. ASSUME NEW append, SetStatusFlags(p, fd, append) PROVE UNCHANGED grown
    BY <2>6 DEF SetStatusFlags
  <2>7. ASSUME NEW new, NEW flags, DupTo(p, nr, fd, new, flags) PROVE grown' \in Nat
    BY <1>2, <2>7 DEF DupTo
  <2>8. ASSUME NEW on, SetFdFlag(p, fd, on) PROVE grown' \in Nat
    BY <1>2, <2>8 DEF SetFdFlag
  <2>9. Close(p, fd) \/ Dup(p, nr, fd) => grown' \in Nat
    BY <1>2 DEF Close, Dup
  <2> QED  BY <1>6, <2>1, <2>2, <2>3, <2>4, <2>5, <2>6, <2>7, <2>8, <2>9
<1>8. (\E name \in Name : Unlink(name)) \/ (\E child \in Pid : Fork(p, child) \/ Clone(p, child))
        \/ ThreadExit(p) => UNCHANGED grown
  BY DEF Unlink, Fork, Clone, ThreadExit
<1> QED  BY <1>3, <1>4, <1>5, <1>6, <1>7, <1>8 DEF ProcessStep

\* What a handler records is a number.
LEMMA RecordedTyped ==
  ASSUME TypedInv, NEW p \in Registered
  PROVE  /\ \A those \in SUBSET Table(p) : OutputOf(those) \in Nat
         /\ RecordedBy(p) \in Nat
<1>1. Table(p) \in SUBSET Entry /\ Slotted(Table(p))
  BY TableOfRegistered DEF TypedInv, SlottedInv, Table
<1>2. \A those \in SUBSET Table(p) : OutputOf(those) \in Nat
  BY <1>1, OutputIsSum, SumTyped
<1> QED  BY <1>2 DEF RecordedBy

\* A step of the tracer.
LEMMA TracerStepRecords ==
  ASSUME TypedInv, LifeInv, OutputSize \in Nat, NEW p \in Pid, TracerStep(p)
  PROVE  OutputSize' \in Nat
<1>1. stop[p].event \in {"syscall", "fork", "clone", "exec", "exit"}
  BY DEF TracerStep, HandleSyscall, HandleFork, HandleClone, HandleExec, HandleExit
<1>2. p \in Registered
  <2>1. stop[p] # Absent /\ stop[p].event \notin {"absent", "born"}
    BY <1>1, Events
  <2> QED  BY <2>1, ActorsAreThere DEF TypedInv, KnownInv, Registered
<1>3. \A fd : OutputOf(LastRefs(Table(p), {fd})) \in Nat
  <2>1. \A fd : LastRefs(Table(p), {fd}) \in SUBSET Table(p)
    BY DEF LastRefs
  <2> QED  BY <1>2, <2>1, RecordedTyped
<1>4. CASE HandleSyscall(p)
  <2>1. \E r : SyscallExit(p, r) \/ UNCHANGED contextVars
    BY <1>4 DEF HandleSyscall
  <2>2. PICK r : SyscallExit(p, r) \/ UNCHANGED contextVars
    BY <2>1
  <2>3. ASSUME NEW old, NEW new, NEW table, DupOnto(p, old, new, table)
        PROVE  OutputSize' \in Nat
    BY <1>3, <2>3 DEF DupOnto, contextVars
  <2>4. ASSUME NEW fd, OpClose(p, fd)
        PROVE  OutputSize' \in Nat
    <3>1. OutputSize' = OutputSize + OutputOf(LastRefs(Table(p), {fd}))
      BY <2>4 DEF OpClose
    <3>2. OutputOf(LastRefs(Table(p), {fd})) \in Nat
      BY <1>3
    <3> QED  BY <3>1, <3>2
  <2>5. CASE UNCHANGED OutputSize
    BY <2>5
  <2>6. ASSUME NEW fd, NEW file, SetFile(p, fd, file)
        PROVE  UNCHANGED OutputSize
    BY <2>6 DEF SetFile
  <2>7. ASSUME NEW fd, NEW name, NEW flags, OpOpenWriteFile(p, fd, name, flags) \/ OpOpenFile(p, fd, name, flags)
        PROVE  UNCHANGED OutputSize
    BY <2>7 DEF OpOpenWriteFile, OpOpenFile, contextVars
  <2>8. ASSUME NEW fd, NEW new, NEW flags, OpDup(p, fd, new) \/ OpDup2(p, fd, new) \/ OpDup3(p, fd, new, flags)
        PROVE  OutputSize' \in Nat
    BY <2>3, <2>8 DEF OpDup, OpDup2, OpDup3
  <2>9. SyscallExit(p, r) =>
          \/ UNCHANGED contextVars
          \/ OpWriteChangeOffset(p, r.fd, r.ret)
          \/ OpWriteNoOffsetChange(p, r.fd, r.ret, r.arg)
          \/ OpSetFlag(p, r.fd, r.flags)
          \/ OpResize(p, r.fd, r.arg)
          \/ OpSeek(p, r.fd, r.ret)
          \/ OpOpenWriteFile(p, r.ret, r.name, r.flags)
          \/ OpOpenFile(p, r.ret, r.name, r.flags)
          \/ OpClose(p, r.fd)
          \/ OpDup(p, r.fd, r.ret)
          \/ OpDup2(p, r.fd, r.arg)
          \/ OpDup3(p, r.fd, r.ret, {"O_CLOEXEC"})
          \/ OpDup3(p, r.fd, r.arg, r.flags)
    BY Zenon DEF SyscallExit
  <2>10. \/ OpWriteChangeOffset(p, r.fd, r.ret)
         \/ OpWriteNoOffsetChange(p, r.fd, r.ret, r.arg)
         \/ OpSetFlag(p, r.fd, r.flags)
         \/ OpResize(p, r.fd, r.arg)
         \/ OpSeek(p, r.fd, r.ret)
         => UNCHANGED OutputSize
    BY <2>6 DEF OpWriteChangeOffset, OpWriteNoOffsetChange, OpSetFlag, OpResize, OpSeek
  <2> QED  BY <2>2, <2>4, <2>5, <2>7, <2>8, <2>9, <2>10 DEF contextVars
<1>5. CASE HandleFork(p) \/ HandleClone(p)
  BY <1>5 DEF HandleFork, HandleClone, RegisterProcess, RegisterThread
<1>6. CASE HandleExec(p) \/ HandleExit(p)
  BY <1>2, <1>6, RecordedTyped DEF HandleExec, HandleExit, RegisterExec, VanishProcess
<1> QED  BY <1>4, <1>5, <1>6 DEF TracerStep

\* TypeOK: whatever the traced processes do, the total and every growth it is
\* compared with stay natural numbers (GetOutputSize, types.cpp), and each table
\* keeps a set of entries with slots and files of their types (context.cpp).
THEOREM AccountingIsTyped == Spec => []TypeOK
<1> DEFINE Counted == OutputSize \in Nat /\ grown \in Nat
<1>1. Init => Counted
  BY DEF Init, RegisterTracee
<1>2. AccountingInv /\ Counted /\ [Next]_vars => Counted'
  <2> SUFFICES ASSUME AccountingInv, Counted, [Next]_vars
               PROVE  Counted'
    OBVIOUS
  <2>1. TypedInv /\ LifeInv
    BY DEF AccountingInv
  <2>2. ASSUME NEW p \in Pid, ProcessStep(p)
        PROVE  Counted'
    BY <2>1, <2>2, ProcessStepGrows DEF ProcessStep, contextVars
  <2>3. ASSUME NEW p \in Pid, TakeSignal(p)
        PROVE  Counted'
    <3>1. Exit(p) => grown' \in Nat
      BY <2>1, GrownTyped, DescriptionsMeasured DEF Exit, TypedInv, KernelTyped
    <3> QED  BY <2>3, <3>1 DEF TakeSignal, contextVars
  <2>4. ASSUME NEW p \in Pid, TracerStep(p)
        PROVE  Counted'
    BY <2>1, <2>4, TracerStepRecords DEF TracerStep
  <2>5. CASE UNCHANGED vars
    BY <2>5 DEF vars, contextVars, kernelVars
  <2> QED  BY <2>2, <2>3, <2>4, <2>5 DEF Next, AllGone
<1>3. AccountingInv /\ Counted => TypeOK
  BY DEF AccountingInv, TypedInv, ContextTyped, KernelTyped, TypeOK
<1> QED  BY <1>1, <1>2, <1>3, InvariantHolds, PTL DEF Spec
==============================================================================
