---------------------------- MODULE PositionProofs ----------------------------
(***************************************************************************)
(* PositionsAgree for every number of processes, threads, descriptors and  *)
(* files.  The lemmas go from what a handler does to the file states of a  *)
(* table, to what the kernel does to descriptions at a call, and what is   *)
(* kept of the positions by each step.                                     *)
(***************************************************************************)
EXTENDS AccountingPositions, AccountingProofs

------------------------------------------------------------------------------
(* What handling a call does to the file states *)

\* But for their flags.
Like(a, b) ==
  /\ a.CurrPos = b.CurrPos /\ a.MaxPos = b.MaxPos
  /\ a.InitSize = b.InitSize /\ a.Filename = b.Filename

\* What becomes of the file state of the descriptor the call is made on.
Effect(r, file) ==
  IF ~Succeeded(r) THEN file
  ELSE CASE r.nr = "write" -> Enroll(file, r.ret)
         [] r.nr = "pwrite64" -> EnrollNoShift(file, r.ret, r.arg)
         [] r.nr \in {"fallocate", "ftruncate"} -> EnrollNoShift(file, r.arg, 0)
         [] r.nr = "lseek" -> SetCurrPos(file, r.ret)
         [] OTHER -> file

\* The slots that are reset, and the one that is to point to what the slot the
\* call is made on points to.
Gone(r) ==
  CASE r.nr = "close" -> {r.fd}
    [] Follows(r) -> {r.ret}
    [] r.nr \in Dups -> {r.ret} \ {r.fd}
    [] OTHER -> {}

Joined(r, slots) == IF r.nr \in Dups /\ r.fd \in slots THEN {r.ret} ELSE {}

On(r, e) == r.nr \notin {"open", "creat"} /\ r.fd \in e.slots

Left(r, table) == table \ LastRefs(table, Gone(r))

Becomes(r, f, e) ==
  /\ e \in Entry
  /\ e.slots = (f.slots \ Gone(r)) \cup Joined(r, f.slots)
  /\ Like(e.file, IF On(r, f) THEN Effect(r, f.file) ELSE f.file)

\* The entry of a file that has been opened for writing.
Fresh(r, name) ==
  IF Follows(r)
  THEN {[slots |-> {r.ret}, file |-> NewFileState(name, r.flags, length[name])]}
  ELSE {}

Turned(r, name, table, new) ==
  \E h : /\ \A f \in Left(r, table) : Becomes(r, f, h[f])
         /\ new = {h[f] : f \in Left(r, table)} \cup Fresh(r, name)

LEMMA LikeItself == ASSUME NEW file PROVE Like(file, file)
BY DEF Like

\* Nothing has become of a table.
LEMMA TurnedSame ==
  ASSUME NEW table \in SUBSET Entry, Slotted(table), NEW r, NEW name, ~Follows(r), Gone(r) = {},
         \A f \in table : Joined(r, f.slots) \subseteq f.slots,
         \A f \in table : On(r, f) => Effect(r, f.file) = f.file
  PROVE  Turned(r, name, table, table)
<1> DEFINE h == [f \in table |-> f]
<1>1. Left(r, table) = table
  BY DEF Left, LastRefs, Slotted
<1>2. \A f \in table : Becomes(r, f, h[f])
  BY LikeItself DEF Becomes
<1>3. table = {h[f] : f \in table} \cup Fresh(r, name)
  BY DEF Fresh
<1> HIDE DEF h
<1> QED  BY <1>1, <1>2, <1>3 DEF Turned

\* A file state of it has.
LEMMA TurnedUpdate ==
  ASSUME NEW table \in SUBSET Entry, Slotted(table), NEW r, NEW name, ~Follows(r), Gone(r) = {},
         r.nr \notin Dups, r.nr \notin {"open", "creat"}, r.fd \in OpenSlots(table),
         NEW file \in TFileState, Like(file, Effect(r, FileAt(table, r.fd)))
  PROVE  Turned(r, name, table, Updated(table, r.fd, file))
<1> DEFINE h == [f \in table |-> IF r.fd \in f.slots THEN [f EXCEPT !.file = file] ELSE f]
<1>1. Left(r, table) = table
  BY DEF Left, LastRefs, Slotted
<1>2. ASSUME NEW f \in table
      PROVE  Becomes(r, f, h[f])
  <2>1. CASE r.fd \in f.slots
    <3>1. FileAt(table, r.fd) = f.file
      BY <2>1, FileAtIs
    <3>2. h[f] = [f EXCEPT !.file = file] /\ f \in Entry
      BY <2>1
    <3>3. h[f].slots = f.slots /\ h[f].file = file /\ h[f] \in Entry
      BY <3>2 DEF Entry
    <3> HIDE DEF h
    <3> QED  BY <2>1, <3>1, <3>3 DEF Becomes, Joined, On
  <2>2. CASE r.fd \notin f.slots
    <3>1. h[f] = f /\ f \in Entry
      BY <2>2
    <3> HIDE DEF h
    <3> QED  BY <2>2, <3>1, LikeItself DEF Becomes, Joined, On
  <2> QED  BY <2>1, <2>2
<1>3. Updated(table, r.fd, file) = {h[f] : f \in table} \cup Fresh(r, name)
  BY DEF Updated, Fresh
<1> HIDE DEF h
<1> QED  BY <1>1, <1>2, <1>3 DEF Turned

\* What a handler has done.
Turns(p, r, name, new) ==
  /\ new \in SUBSET Entry /\ Fds' = [Fds EXCEPT ![ProcMap[p]] = new]
  /\ Turned(r, name, Table(p), new)
  /\ OutputSize' = OutputSize + IF Follows(r) THEN 0 ELSE OutputOf(LastRefs(Table(p), Gone(r)))

\* Nothing is recorded of nothing.
LEMMA NoneOutput == OutputOf({}) = 0
<1>1. {} \in SUBSET Entry /\ Slotted({})
  BY DEF Slotted
<1> QED  BY <1>1, OutputIsSum, SumOfNone

LEMMA NoneLast ==
  ASSUME NEW table \in SUBSET Entry, Slotted(table)
  PROVE  OutputOf(LastRefs(table, {})) = 0
<1>1. LastRefs(table, {}) = {}
  BY DEF LastRefs, Slotted
<1> QED  BY <1>1, NoneOutput

\* A call on a file state.
LEMMA FileTurns ==
  ASSUME ContextTyped, OutputSize \in Nat, NEW p \in Registered, Slotted(Table(p)),
         NEW r, NEW name, r.nr \in Moves \cup {"F_SETFL", "F_SETFD"},
         NEW file, r.fd \in OpenSlots(Table(p)) =>
           file \in TFileState /\ Like(file, Effect(r, FileOf(p, r.fd))),
         SetFile(p, r.fd, file)
  PROVE  \E new : Turns(p, r, name, new)
<1>1. Table(p) \in SUBSET Entry /\ ProcMap[p] \in ProcState
  BY TableOfRegistered
<1>2. /\ ~Follows(r) /\ Gone(r) = {} /\ r.nr \notin Dups /\ r.nr \notin {"open", "creat"}
  BY DEF Follows, Gone, Dups, NewFd, Moves
<1>3. OutputSize' = OutputSize + IF Follows(r) THEN 0 ELSE OutputOf(LastRefs(Table(p), Gone(r)))
  BY <1>1, <1>2, NoneLast DEF SetFile
<1>4. CASE r.fd \notin OpenSlots(Table(p))
  <2>1. Fds' = [Fds EXCEPT ![ProcMap[p]] = Table(p)]
    BY <1>4 DEF SetFile, SetTable
  <2>2. Turned(r, name, Table(p), Table(p))
    <3>1. \A f \in Table(p) : Joined(r, f.slots) \subseteq f.slots /\ ~On(r, f)
      BY <1>2, <1>4 DEF Joined, On, OpenSlots
    <3> QED  BY <1>1, <1>2, <3>1, TurnedSame
  <2> QED  BY <1>1, <1>3, <2>1, <2>2 DEF Turns
<1>5. CASE r.fd \in OpenSlots(Table(p))
  <2> DEFINE new == Updated(Table(p), r.fd, file)
  <2>1. Fds' = [Fds EXCEPT ![ProcMap[p]] = new]
    BY <1>5 DEF SetFile, SetTable
  <2>2. new \in SUBSET Entry
    BY <1>1, <1>5 DEF Updated, Entry
  <2>3. Turned(r, name, Table(p), new)
    BY <1>1, <1>2, <1>5, TurnedUpdate DEF FileOf
  <2> QED  BY <1>3, <2>1, <2>2, <2>3 DEF Turns
<1> QED  BY <1>4, <1>5

\* A slot of it has been cleared.
LEMMA TurnedCleared ==
  ASSUME NEW table \in SUBSET Entry, Slotted(table), NEW r, NEW name, NEW fd, ~Follows(r),
         Gone(r) = {fd}, \A f \in Left(r, table) : Joined(r, f.slots) = {},
         \A f \in table : Effect(r, f.file) = f.file
  PROVE  Turned(r, name, table, Cleared(table, {fd}))
<1> DEFINE h == [f \in table |-> [f EXCEPT !.slots = @ \ {fd}]]
<1>1. Cleared(table, {fd}) = {h[f] : f \in Left(r, table)} \cup Fresh(r, name)
  BY DEF Cleared, Left, LastRefs, Fresh
<1>2. ASSUME NEW f \in Left(r, table)
      PROVE  Becomes(r, f, h[f])
  <2>1. f \in table /\ f \in Entry /\ f.slots \in SUBSET Fd /\ h[f] = [f EXCEPT !.slots = @ \ {fd}]
    BY DEF Left, Entry
  <2>2. h[f].slots = f.slots \ {fd} /\ h[f].file = f.file /\ h[f] \in Entry
    BY <2>1 DEF Entry
  <2> HIDE DEF h
  <2> QED  BY <1>2, <2>1, <2>2, LikeItself DEF Becomes
<1> HIDE DEF h
<1> QED  BY <1>1, <1>2 DEF Turned

\* A file has been put into a slot of it.
LEMMA TurnedOpened ==
  ASSUME NEW table \in SUBSET Entry, Slotted(table), NEW r, NEW name, Follows(r), r.ret \in Fd
  PROVE  Turned(r, name, table, Opened(table, r.ret, NewFileState(name, r.flags, length[name])))
<1> DEFINE h == [f \in table |-> [f EXCEPT !.slots = @ \ {r.ret}]]
<1>1. Gone(r) = {r.ret} /\ r.nr \in {"open", "creat"} /\ r.nr \notin Dups
  BY DEF Follows, Gone, Dups
<1>2. Opened(table, r.ret, NewFileState(name, r.flags, length[name])) =
        {h[f] : f \in Left(r, table)} \cup Fresh(r, name)
  BY <1>1 DEF Opened, Cleared, Left, LastRefs, Fresh
<1>3. ASSUME NEW f \in Left(r, table)
      PROVE  Becomes(r, f, h[f])
  <2>1. f \in table /\ f \in Entry /\ f.slots \in SUBSET Fd /\ h[f] = [f EXCEPT !.slots = @ \ {r.ret}]
    BY DEF Left, Entry
  <2>2. h[f].slots = f.slots \ {r.ret} /\ h[f].file = f.file /\ h[f] \in Entry
    BY <2>1 DEF Entry
  <2> HIDE DEF h
  <2> QED  BY <1>1, <2>1, <2>2, LikeItself DEF Becomes, Joined, On
<1> HIDE DEF h
<1> QED  BY <1>2, <1>3 DEF Turned

\* A slot of it points to what another does, which may have got other flags.
LEMMA TurnedShared ==
  ASSUME NEW table \in SUBSET Entry, Slotted(table), NEW r, NEW name, r.nr \in Dups,
         r.fd # r.ret, r.ret \in Fd, NEW file \in TFileState,
         NEW shared, shared = Shared(Cleared(table, {r.ret}), r.fd, r.ret),
         NEW new, \/ new = shared
                  \/ /\ r.fd \in OpenSlots(table) /\ Like(file, FileAt(table, r.fd))
                     /\ new = Updated(shared, r.ret, file)
  PROVE  Turned(r, name, table, new)
<1> DEFINE cleared == Cleared(table, {r.ret})
           c == [f \in table |-> [f EXCEPT !.slots = @ \ {r.ret}]]
           d == [f \in table |-> IF r.fd \in c[f].slots THEN [c[f] EXCEPT !.slots = @ \cup {r.ret}]
                                 ELSE c[f]]
           u == [f \in table |-> IF r.ret \in d[f].slots THEN [d[f] EXCEPT !.file = file] ELSE d[f]]
<1>1. /\ Gone(r) = {r.ret} /\ ~Follows(r)
      /\ \A f : Effect(r, f) = f
  BY DEF Gone, Follows, Dups, NewFd, Effect
<1>2. cleared = {c[f] : f \in Left(r, table)}
  BY <1>1 DEF Cleared, Left, LastRefs
<1>3. shared = {d[f] : f \in Left(r, table)}
  <2>1. Left(r, table) \subseteq table /\ shared = Shared(cleared, r.fd, r.ret)
    BY DEF Left
  <2> HIDE DEF cleared, c
  <2> QED  BY <1>2, <2>1 DEF Shared
<1>4. Updated(shared, r.ret, file) = {u[f] : f \in Left(r, table)}
  <2>1. Left(r, table) \subseteq table
    BY DEF Left
  <2> DEFINE updated(e) == IF r.ret \in e.slots THEN [e EXCEPT !.file = file] ELSE e
  <2>2. \A f \in Left(r, table) : u[f] = updated(d[f])
    BY <2>1
  <2>3. Updated(shared, r.ret, file) = {updated(e) : e \in shared}
    BY Zenon DEF Updated
  <2> HIDE DEF d, u, updated
  <2> QED  BY <1>3, <2>2, <2>3
<1>5. ASSUME NEW f \in Left(r, table)
      PROVE  /\ d[f].slots = (f.slots \ Gone(r)) \cup Joined(r, f.slots)
             /\ d[f].file = f.file /\ d[f] \in Entry
  <2>1. f \in table /\ f \in Entry /\ f.slots \in SUBSET Fd /\ c[f] = [f EXCEPT !.slots = @ \ {r.ret}]
    BY DEF Left, Entry
  <2>2. c[f].slots = f.slots \ {r.ret} /\ c[f].file = f.file /\ c[f] \in Entry
    BY <2>1 DEF Entry
  <2>3. d[f] = IF r.fd \in c[f].slots THEN [c[f] EXCEPT !.slots = @ \cup {r.ret}] ELSE c[f]
    BY <2>1
  <2> HIDE DEF c, d
  <2>4. [c[f] EXCEPT !.slots = @ \cup {r.ret}] \in Entry
        /\ [c[f] EXCEPT !.slots = @ \cup {r.ret}].slots = c[f].slots \cup {r.ret}
        /\ [c[f] EXCEPT !.slots = @ \cup {r.ret}].file = c[f].file
    BY <2>2 DEF Entry
  <2> QED  BY <1>1, <2>2, <2>3, <2>4 DEF Joined
<1>6. ASSUME NEW f \in Left(r, table)
      PROVE  Becomes(r, f, d[f])
  <2> HIDE DEF d
  <2> QED  BY <1>1, <1>5, LikeItself DEF Becomes
<1>7. ASSUME NEW f \in Left(r, table), r.fd \in OpenSlots(table), Like(file, FileAt(table, r.fd))
      PROVE  Becomes(r, f, u[f])
  <2>1. f \in table /\ u[f] = IF r.ret \in d[f].slots THEN [d[f] EXCEPT !.file = file] ELSE d[f]
    BY DEF Left
  <2> HIDE DEF d, u
  <2>2. CASE r.ret \in d[f].slots
    <3>1. r.fd \in f.slots
      BY <1>1, <1>5, <2>2 DEF Joined
    <3>2. FileAt(table, r.fd) = f.file
      BY <2>1, <3>1, FileAtIs
    <3>3. u[f].slots = d[f].slots /\ u[f].file = file /\ u[f] \in Entry
      BY <1>5, <2>1, <2>2 DEF Entry
    <3> QED  BY <1>1, <1>5, <1>7, <3>2, <3>3 DEF Becomes
  <2>3. CASE r.ret \notin d[f].slots
    BY <1>6, <2>1, <2>3
  <2> QED  BY <2>2, <2>3
<1>8. Fresh(r, name) = {}
  BY <1>1 DEF Fresh
<1> HIDE DEF d, u
<1>9. CASE new = shared
  BY <1>3, <1>6, <1>8, <1>9 DEF Turned
<1>10. CASE /\ r.fd \in OpenSlots(table) /\ Like(file, FileAt(table, r.fd))
            /\ new = Updated(shared, r.ret, file)
  BY <1>4, <1>7, <1>8, <1>10 DEF Turned
<1> QED  BY <1>9, <1>10

LEMMA MoveTurns ==
  ASSUME ContextTyped, OutputSize \in Nat, NEW p \in Registered, Slotted(Table(p)),
         NEW r, RegsTyped(r), r.nr \in Moves, NEW name, SyscallExit(p, r)
  PROVE  \E new : Turns(p, r, name, new)
<1>1. Table(p) \in SUBSET Entry /\ ProcMap[p] \in ProcState
  BY TableOfRegistered
<1>2. r.fd \in OpenSlots(Table(p)) => FileOf(p, r.fd) \in TFileState
  BY <1>1, FileAtTyped DEF FileOf
<1>3. CASE ~Succeeded(r)
  <2>1. Effect(r, FileOf(p, r.fd)) = FileOf(p, r.fd)
    BY <1>3 DEF Effect
  <2>2. Fds' = [Fds EXCEPT ![ProcMap[p]] = Table(p)] /\ UNCHANGED contextVars
    BY <1>1, <1>3 DEF SyscallExit, contextVars, Table, ContextTyped
  <2>3. /\ ~Follows(r) /\ Gone(r) = {} /\ r.nr \notin Dups
    BY DEF Follows, Gone, Dups, NewFd, Moves
  <2>4. OutputSize' = OutputSize + IF Follows(r) THEN 0 ELSE OutputOf(LastRefs(Table(p), Gone(r)))
    BY <1>1, <2>2, <2>3, NoneLast DEF contextVars
  <2>5. Turned(r, name, Table(p), Table(p))
    <3>1. \A f \in Table(p) : Joined(r, f.slots) \subseteq f.slots /\ Effect(r, f.file) = f.file
      BY <1>3, <2>3 DEF Joined, Effect
    <3> QED  BY <1>1, <2>3, <3>1, TurnedSame
  <2> QED  BY <1>1, <2>2, <2>4, <2>5 DEF Turns
<1>4. CASE Succeeded(r)
  <2> DEFINE file == Effect(r, FileOf(p, r.fd))
  <2>1. /\ r.nr \in {"write", "lseek"} => r.ret \in Size
        /\ r.nr = "pwrite64" => r.ret \in Size /\ r.arg \in Size
        /\ r.nr \in {"fallocate", "ftruncate"} => r.arg \in Size
    BY <1>4 DEF RegsTyped, WellTyped
  <2>2. 0 \in Size
    BY SizeModulusAssumption DEF Size
  <2>3. /\ r.nr = "write" => file = Enroll(FileOf(p, r.fd), r.ret)
        /\ r.nr = "pwrite64" => file = EnrollNoShift(FileOf(p, r.fd), r.ret, r.arg)
        /\ r.nr \in {"fallocate", "ftruncate"} => file = EnrollNoShift(FileOf(p, r.fd), r.arg, 0)
        /\ r.nr = "lseek" => file = SetCurrPos(FileOf(p, r.fd), r.ret)
    BY <1>4 DEF Effect
  <2>4. SetFile(p, r.fd, file)
    <3>1. CASE r.nr = "write"
      BY <1>4, <2>3, <3>1 DEF SyscallExit, OpWriteChangeOffset
    <3>2. CASE r.nr = "pwrite64"
      BY <1>4, <2>3, <3>2 DEF SyscallExit, OpWriteNoOffsetChange
    <3>3. CASE r.nr \in {"fallocate", "ftruncate"}
      BY <1>4, <2>3, <3>3 DEF SyscallExit, OpResize
    <3>4. CASE r.nr = "lseek"
      BY <1>4, <2>3, <3>4 DEF SyscallExit, OpSeek
    <3> QED  BY <3>1, <3>2, <3>3, <3>4 DEF Moves
  <2>5. r.fd \in OpenSlots(Table(p)) => file \in TFileState
    <3> HIDE DEF file
    <3>1. r.fd \in OpenSlots(Table(p)) => FileOf(p, r.fd) \in TFileState
      BY <1>2
    <3>2. r.nr \in {"write", "pwrite64", "fallocate", "ftruncate", "lseek"}
      BY DEF Moves
    <3> QED  BY <2>1, <2>2, <2>3, <3>1, <3>2, FileStateTyped
  <2>6. Like(file, Effect(r, FileOf(p, r.fd)))
    BY LikeItself
  <2> HIDE DEF file
  <2> QED  BY <2>4, <2>5, <2>6, FileTurns
<1> QED  BY <1>3, <1>4

LEMMA FlagTurns ==
  ASSUME ContextTyped, OutputSize \in Nat, NEW p \in Registered, Slotted(Table(p)),
         NEW r, RegsTyped(r), r.nr \in {"F_SETFL", "F_SETFD"}, NEW name, SyscallExit(p, r)
  PROVE  \E new : Turns(p, r, name, new)
<1>1. Table(p) \in SUBSET Entry
  BY TableOfRegistered
<1>2. Succeeded(r)
  BY NumbersSucceed
<1>3. SetFile(p, r.fd, SetFlags(FileOf(p, r.fd), r.flags)) /\ r.flags \in SUBSET FlagBit
  BY <1>2 DEF SyscallExit, OpSetFlag, RegsTyped, WellTyped
<1> DEFINE file == SetFlags(FileOf(p, r.fd), r.flags)
<1>4. r.fd \in OpenSlots(Table(p)) => file \in TFileState /\ Like(file, FileOf(p, r.fd))
  <2>1. r.fd \in OpenSlots(Table(p)) => FileOf(p, r.fd) \in TFileState
    BY <1>1, FileAtTyped DEF FileOf
  <2> QED  BY <1>3, <2>1 DEF SetFlags, TFileState, Like
<1>5. Effect(r, FileOf(p, r.fd)) = FileOf(p, r.fd)
  BY DEF Effect
<1>6. SetFile(p, r.fd, file)
  BY <1>3
<1> HIDE DEF file
<1> QED  BY <1>4, <1>5, <1>6, FileTurns

LEMMA OpenTurns ==
  ASSUME ContextTyped, OutputSize \in Nat, NEW p \in Registered, Slotted(Table(p)),
         NEW r, RegsTyped(r), r.nr \in {"open", "creat"}, SyscallExit(p, r)
  PROVE  \E new : Turns(p, r, r.name, new)
<1>1. Table(p) \in SUBSET Entry /\ ProcMap[p] \in ProcState
  BY TableOfRegistered
<1>2. Succeeded(r)
  BY NumbersSucceed DEF NewFd
<1>3. r.ret \in Fd /\ r.name \in Name /\ r.flags \in SUBSET FlagBit
  BY <1>2 DEF RegsTyped, WellTyped
<1>4. CASE Follows(r)
  <2> DEFINE file == NewFileState(r.name, r.flags, length[r.name])
             new == Opened(Table(p), r.ret, file)
  <2>1. Fds' = [Fds EXCEPT ![ProcMap[p]] = new] /\ OutputSize' = OutputSize + 0
    BY <1>2, <1>4 DEF SyscallExit, OpOpenWriteFile, OpOpenFile, SetTable, Follows
  <2>2. file \in TFileState
    BY <1>3, NewFileStateTyped DEF ContextTyped, NewFileState
  <2>3. Turned(r, r.name, Table(p), new)
    BY <1>1, <1>3, <1>4, TurnedOpened
  <2> HIDE DEF file
  <2>4. new \in SUBSET Entry
    BY <1>1, <1>3, <2>2, TableTyped
  <2> HIDE DEF new
  <2> QED  BY <1>4, <2>1, <2>3, <2>4 DEF Turns
<1>5. CASE ~Follows(r)
  <2>1. Fds' = [Fds EXCEPT ![ProcMap[p]] = Table(p)] /\ OutputSize' = OutputSize
    BY <1>1, <1>2, <1>5 DEF SyscallExit, OpOpenFile, Follows, contextVars, Table, ContextTyped
  <2>2. Gone(r) = {} /\ r.nr \notin Dups /\ r.nr \notin {"write", "pwrite64", "fallocate", "ftruncate", "lseek"}
    BY <1>5 DEF Gone, Dups
  <2>3. \A f \in Table(p) : Joined(r, f.slots) \subseteq f.slots /\ Effect(r, f.file) = f.file
    BY <1>5, <2>2 DEF Joined, Effect
  <2>4. Turned(r, r.name, Table(p), Table(p))
    BY <1>1, <1>5, <2>2, <2>3, TurnedSame
  <2>5. OutputOf(LastRefs(Table(p), Gone(r))) = 0
    BY <1>1, <2>2, NoneLast
  <2>6. OutputSize' = OutputSize + IF Follows(r) THEN 0 ELSE OutputOf(LastRefs(Table(p), Gone(r)))
    BY <1>5, <2>1, <2>5
  <2> QED  BY <1>1, <2>1, <2>4, <2>6 DEF Turns
<1> QED  BY <1>4, <1>5

LEMMA CloseTurns ==
  ASSUME ContextTyped, OutputSize \in Nat, NEW p \in Registered, Slotted(Table(p)),
         NEW r, RegsTyped(r), r.nr = "close", NEW name, SyscallExit(p, r)
  PROVE  \E new : Turns(p, r, name, new)
<1>1. Table(p) \in SUBSET Entry /\ ProcMap[p] \in ProcState
  BY TableOfRegistered
<1> DEFINE new == Cleared(Table(p), {r.fd})
<1>2. /\ Fds' = [Fds EXCEPT ![ProcMap[p]] = new]
      /\ OutputSize' = OutputSize + OutputOf(LastRefs(Table(p), {r.fd}))
  BY DEF SyscallExit, Succeeded, OpClose, SetTable
<1>3. new \in SUBSET Entry
  BY <1>1, ClearedEntries
<1>4. Gone(r) = {r.fd} /\ ~Follows(r) /\ r.nr \notin Dups
  BY DEF Gone, Follows, Dups, NewFd
<1>5. \A f : Joined(r, f.slots) = {} /\ Effect(r, f.file) = f.file
  BY <1>4 DEF Joined, Effect
<1>6. Turned(r, name, Table(p), new)
  BY <1>1, <1>4, <1>5, TurnedCleared
<1> HIDE DEF new
<1> QED  BY <1>2, <1>3, <1>4, <1>6 DEF Turns

LEMMA DupTurns ==
  ASSUME ContextTyped, OutputSize \in Nat, NEW p \in Registered, Slotted(Table(p)),
         NEW r, RegsTyped(r), r.nr \in Dups, NEW name, SyscallExit(p, r)
  PROVE  \E new : Turns(p, r, name, new)
<1> DEFINE table == Table(p)
           cleared == Cleared(table, {r.ret})
           shared == Shared(cleared, r.fd, r.ret)
           flags == IF r.nr = "F_DUPFD_CLOEXEC" THEN {"O_CLOEXEC"} ELSE r.flags
           on == "O_CLOEXEC" \in flags
           file == SetCloexecFlag(FileAt(shared, r.ret), on)
           updated == Updated(shared, r.ret, file)
<1>1. table \in SUBSET Entry /\ ProcMap[p] \in ProcState
  BY TableOfRegistered
<1>2. Succeeded(r)
  BY NumbersSucceed DEF Dups
<1>3. r.ret \in Fd /\ (r.nr \in {"dup2", "dup3"} => r.arg = r.ret)
  BY DEF Dups, RegsTyped
<1>4. cleared \in SUBSET Entry /\ Slotted(cleared)
  BY <1>1, <1>3, ClearedEntries, SlottedTables
<1>5. shared \in SUBSET Entry
  <2> HIDE DEF cleared
  <2>1. \A e \in cleared : [e EXCEPT !.slots = @ \cup {r.ret}] \in Entry
    BY <1>3, <1>4 DEF Entry
  <2> QED  BY <1>4, <2>1 DEF Shared
<1>6. \/ DupOnto(p, r.fd, r.ret, shared)
      \/ r.nr \in {"dup3", "F_DUPFD_CLOEXEC"} /\ DupOnto(p, r.fd, r.ret, updated)
  <2>1. CASE r.nr \in {"dup", "F_DUPFD"}
    BY <1>2, <2>1 DEF SyscallExit, OpDup, OpDup2, Duplicated
  <2>2. CASE r.nr = "dup2"
    BY <1>2, <1>3, <2>2 DEF SyscallExit, OpDup2, Duplicated
  <2>3. CASE r.nr = "dup3"
    BY <1>2, <1>3, <2>3 DEF SyscallExit, OpDup3, Duplicated
  <2>4. CASE r.nr = "F_DUPFD_CLOEXEC"
    BY <1>2, <2>4 DEF SyscallExit, OpDup3, Duplicated
  <2> QED  BY <2>1, <2>2, <2>3, <2>4 DEF Dups, NewFd
<1>7. ~Follows(r) /\ r.nr \notin {"open", "creat"} /\ Gone(r) = {r.ret} \ {r.fd}
  BY DEF Follows, Dups, NewFd, Gone
<1>8. CASE r.fd = r.ret
  <2>1. UNCHANGED contextVars
    BY <1>6, <1>8 DEF DupOnto
  <2>2. Fds' = [Fds EXCEPT ![ProcMap[p]] = table] /\ OutputSize' = OutputSize
    BY <1>1, <2>1 DEF Table, ContextTyped, contextVars
  <2>3. Gone(r) = {}
    BY <1>7, <1>8
  <2>4. \A f \in table : Joined(r, f.slots) \subseteq f.slots /\ Effect(r, f.file) = f.file
    BY <1>8 DEF Joined, Effect, Dups, NewFd
  <2>5. Turned(r, name, Table(p), Table(p))
    BY <1>1, <1>7, <2>3, <2>4, TurnedSame
  <2>6. OutputOf(LastRefs(Table(p), Gone(r))) = 0
    BY <1>1, <2>3, NoneLast
  <2>7. OutputSize' = OutputSize + IF Follows(r) THEN 0 ELSE OutputOf(LastRefs(Table(p), Gone(r)))
    BY <1>7, <2>2, <2>6
  <2> QED  BY <1>1, <2>2, <2>5, <2>7 DEF Turns
<1>9. CASE r.fd # r.ret /\ r.fd \notin OpenSlots(table)
  <2>1. r.fd \notin OpenSlots(cleared)
    BY <1>1, <1>9, ClearedSlots
  <2>2. /\ Fds' = [Fds EXCEPT ![ProcMap[p]] = cleared]
        /\ OutputSize' = OutputSize + OutputOf(LastRefs(Table(p), {r.ret}))
    BY <1>6, <1>9, <2>1 DEF DupOnto, SetTable
  <2>3. Gone(r) = {r.ret}
    BY <1>7, <1>9
  <2>4. /\ \A f \in Left(r, table) : Joined(r, f.slots) = {}
        /\ \A f \in table : Effect(r, f.file) = f.file
    <3>1. \A f \in table : r.fd \notin f.slots
      BY <1>9 DEF OpenSlots
    <3> QED  BY <3>1 DEF Joined, Effect, Dups, NewFd, Left
  <2>5. Turned(r, name, Table(p), cleared)
    BY <1>1, <1>7, <2>3, <2>4, TurnedCleared
  <2> QED  BY <1>4, <1>7, <2>2, <2>3, <2>5 DEF Turns
<1>10. CASE r.fd # r.ret /\ r.fd \in OpenSlots(table)
  <2>1. r.fd \in OpenSlots(cleared)
    BY <1>1, <1>10, ClearedSlots
  <2>2. Gone(r) = {r.ret}
    BY <1>7, <1>10
  <2>3. r.ret \in OpenSlots(shared)
    <3> HIDE DEF cleared
    <3> QED  BY <1>3, <1>4, <2>1, SharedSlots
  <2>4. FileAt(shared, r.ret) \in TFileState
    <3> HIDE DEF shared
    <3> QED  BY <1>5, <2>3, FileAtTyped
  <2>5. file \in TFileState /\ Like(file, FileAt(shared, r.ret))
    <3> HIDE DEF shared
    <3> QED  BY <2>4 DEF SetCloexecFlag, TFileState, FlagBit, Like
  <2>6. FileAt(shared, r.ret) = FileAt(table, r.fd)
    <3>1. PICK f \in table : r.fd \in f.slots
      BY <1>10 DEF OpenSlots
    <3>2. FileAt(table, r.fd) = f.file
      BY <1>1, <3>1, FileAtIs
    <3>3. \E c \in cleared : r.fd \in c.slots /\ c.file = f.file
      <4>1. f \in table \ LastRefs(table, {r.ret})
        BY <1>10, <3>1 DEF LastRefs
      <4>2. [f EXCEPT !.slots = @ \ {r.ret}] \in cleared
        BY <4>1 DEF Cleared
      <4>3. r.fd \in [f EXCEPT !.slots = @ \ {r.ret}].slots /\ [f EXCEPT !.slots = @ \ {r.ret}].file = f.file
        BY <1>1, <1>10, <3>1 DEF Entry
      <4> QED  BY <4>2, <4>3
    <3>4. \E e \in shared : r.ret \in e.slots /\ e.file = f.file
      <4> HIDE DEF cleared
      <4>1. PICK c \in cleared : r.fd \in c.slots /\ c.file = f.file
        BY <3>3
      <4>2. [c EXCEPT !.slots = @ \cup {r.ret}] \in shared
        BY <4>1 DEF Shared
      <4>3. r.ret \in [c EXCEPT !.slots = @ \cup {r.ret}].slots /\ [c EXCEPT !.slots = @ \cup {r.ret}].file = f.file
        BY <1>4, <4>1 DEF Entry
      <4> QED  BY <4>2, <4>3
    <3>5. Slotted(shared)
      <4>1. r.ret \notin OpenSlots(cleared)
        BY <1>1, ClearedSlots
      <4> HIDE DEF cleared
      <4> QED  BY <1>3, <1>4, <2>1, <4>1, SlottedTables
    <3> HIDE DEF shared
    <3> QED  BY <3>2, <3>4, <3>5, FileAtIs
  <2>7. CASE DupOnto(p, r.fd, r.ret, shared)
    <3>1. /\ Fds' = [Fds EXCEPT ![ProcMap[p]] = shared]
          /\ OutputSize' = OutputSize + OutputOf(LastRefs(Table(p), {r.ret}))
      BY <1>10, <2>1, <2>7 DEF DupOnto, SetTable
    <3>2. Turned(r, name, Table(p), shared)
      <4> HIDE DEF file
      <4> QED  BY <1>1, <1>3, <1>10, <2>5, TurnedShared
    <3> HIDE DEF shared
    <3> QED  BY <1>5, <1>7, <2>2, <3>1, <3>2 DEF Turns
  <2>8. CASE DupOnto(p, r.fd, r.ret, updated)
    <3>1. /\ Fds' = [Fds EXCEPT ![ProcMap[p]] = updated]
          /\ OutputSize' = OutputSize + OutputOf(LastRefs(Table(p), {r.ret}))
      BY <1>10, <2>1, <2>8 DEF DupOnto, SetTable
    <3>2. Like(file, FileAt(table, r.fd))
      <4> HIDE DEF file, shared
      <4> QED  BY <2>5, <2>6
    <3>3. Turned(r, name, Table(p), updated)
      <4> HIDE DEF file
      <4> QED  BY <1>1, <1>3, <1>10, <2>5, <3>2, TurnedShared
    <3>4. updated \in SUBSET Entry
      <4> HIDE DEF shared, file
      <4> QED  BY <1>5, <2>5 DEF Updated, Entry
    <3> HIDE DEF updated
    <3> QED  BY <1>7, <2>2, <3>1, <3>3, <3>4 DEF Turns
  <2> QED  BY <1>6, <2>7, <2>8
<1> QED  BY <1>8, <1>9, <1>10

\* What a call does to the file states of the process.
LEMMA SyscallTurns ==
  ASSUME ContextTyped, OutputSize \in Nat, NEW p \in Registered, Slotted(Table(p)),
         NEW r, RegsTyped(r), NEW s, s = AsRead(p, r), RegsTyped(s), SyscallExit(p, s)
  PROVE  \E new : Turns(p, r, IF Follows(r) THEN At(p, r.ret).name ELSE None, new)
<1> DEFINE name == IF Follows(r) THEN At(p, r.ret).name ELSE None
<1>1. CASE ~Follows(r) /\ r.nr \in {"open", "creat"}
  <2>1. s = r
    BY <1>1 DEF AsRead
  <2>2. PICK new : Turns(p, r, r.name, new)
    BY <1>1, <2>1, OpenTurns
  <2>3. Turns(p, r, name, new)
    BY <1>1, <2>2 DEF Turns, Turned, Fresh
  <2> QED  BY <2>3
<1>2. CASE ~Follows(r) /\ r.nr \notin {"open", "creat"}
  <2>1. s = r
    BY <1>2 DEF AsRead
  <2>2. r.nr \in Syscall
    BY DEF RegsTyped, WellTyped
  <2>3. CASE r.nr \in Moves
    BY <2>1, <2>3, MoveTurns
  <2>4. CASE r.nr \in {"F_SETFL", "F_SETFD"}
    BY <2>1, <2>4, FlagTurns
  <2>5. CASE r.nr \in Dups
    BY <2>1, <2>5, DupTurns
  <2>6. CASE r.nr = "close"
    BY <2>1, <2>6, CloseTurns
  <2> QED  BY <1>2, <2>2, <2>3, <2>4, <2>5, <2>6 DEF Syscall, Moves, Dups, NewFd
<1>3. CASE Follows(r)
  <2>1. s = [nr |-> r.nr, ret |-> r.ret, name |-> At(p, r.ret).name, flags |-> r.flags]
    BY <1>3 DEF AsRead
  <2>2. s.nr = r.nr /\ s.ret = r.ret /\ s.name = name /\ s.flags = r.flags
    BY <1>3, <2>1
  <2>3. r.nr \in {"open", "creat"} /\ r.nr \notin Dups /\ Follows(s)
    BY <1>3, <2>2 DEF Follows, Dups
  <2> HIDE DEF name
  <2>4. PICK new : Turns(p, s, name, new)
    BY <2>2, <2>3, OpenTurns
  <2>5. Gone(s) = Gone(r) /\ Fresh(s, name) = Fresh(r, name)
    BY <1>3, <2>2, <2>3 DEF Gone, Fresh
  <2>6. \A f, e : Becomes(s, f, e) <=> Becomes(r, f, e)
    <3>1. \A f : /\ Joined(s, f.slots) = {} /\ Joined(r, f.slots) = {}
                 /\ ~On(r, f) /\ ~On(s, f)
      BY <2>2, <2>3 DEF Joined, On
    <3> QED  BY <2>5, <3>1 DEF Becomes
  <2>7. Left(s, Table(p)) = Left(r, Table(p))
    BY <2>5 DEF Left
  <2>8. Turned(r, name, Table(p), new)
    BY <2>4, <2>5, <2>6, <2>7 DEF Turns, Turned
  <2>9. OutputSize' = OutputSize + IF Follows(r) THEN 0 ELSE OutputOf(LastRefs(Table(p), Gone(r)))
    BY <1>3, <2>3, <2>4 DEF Turns
  <2>10. Turns(p, r, name, new)
    BY <2>4, <2>8, <2>9 DEF Turns
  <2> QED  BY <2>10 DEF name
<1> QED  BY <1>1, <1>2, <1>3

------------------------------------------------------------------------------
(* What the kernel does to descriptions at a call *)

\* A call on a descriptor that is open makes its description x.
Moved(p, r, x) ==
  LET d    == kfds[group[p]][r.fd].ofd
      old  == ofds[d]
      name == old.name
      end  == Landing(old) + 1
  IN  /\ r.nr \in Moves \cup {"F_SETFL"} /\ r.fd \in Fd /\ d # None
      /\ x \in Description /\ ofds' = [ofds EXCEPT ![d] = x]
      /\ UNCHANGED <<kfds, unlinked, grown>>
      /\ x.name = name /\ x.write = old.write /\ x.split = old.split /\ x.init = old.init
      /\ size' = [size EXCEPT ![name] = size'[name]] /\ size'[name] \in 0 .. MaxLength
      /\ size'[name] # size[name] => old.write
      /\ LengthsAgree => LengthsAgree'
      /\ r.nr = "write" =>
           /\ r.ret = 1 /\ old.write /\ end <= MaxLength
           /\ x.pos = end /\ x.append = old.append /\ x.peak = Longer(old.peak, end)
           /\ size'[name] = Longer(size[name], end)
      /\ r.nr = "pwrite64" /\ Without({"append", "current"})' =>
           /\ r.ret = 1 /\ old.write /\ ~old.append
           /\ r.arg \in Nat /\ r.arg + 1 <= MaxLength
           /\ x.pos = old.pos /\ x.append = old.append /\ x.peak = Longer(old.peak, r.arg + 1)
           /\ size'[name] = Longer(size[name], r.arg + 1)
           /\ Without({"jump"})' => ~old.split
      /\ r.nr \in {"ftruncate", "fallocate"} =>
           /\ r.ret = 0 /\ old.write /\ r.arg \in 0 .. MaxLength
           /\ x.pos = old.pos /\ x.append = old.append
           /\ Without({"append"})' => (old.append => size'[name] = size[name])
           /\ Without({"keep", "shrink"})' =>
                /\ x.peak = Longer(old.peak, r.arg)
                /\ size'[name] = Longer(size[name], r.arg)
           /\ Without({"jump"})' => ~old.split
      /\ r.nr = "lseek" =>
           /\ x.pos = r.ret /\ x.append = old.append /\ x.peak = old.peak
           /\ size'[name] = size[name]
           /\ Without({"append"})' => ~old.append
           /\ Without({"far"})' => IntNonNegative(r.ret)
           /\ Without({"jump"})' => ~old.split
      /\ r.nr = "F_SETFL" =>
           /\ x.pos = old.pos /\ x.peak = old.peak /\ size'[name] = size[name]
           /\ Without({"append"})' => x.append = old.append

\* A call changes what descriptors refer to, or their close-on-exec.
Rewired(p, r) ==
  /\ r.nr \in Dups \cup {"close", "F_SETFD"}
  /\ SetDescriptors(kfds', ofds) /\ UNCHANGED files

\* A file is opened, with o as the description.
Begun(p, r, o, x) ==
  /\ r.nr \in {"open", "creat"} /\ r.ret \in Fd /\ r.name \in Name \ unlinked
  /\ o \in Ofd /\ ofds[o].name = None /\ kfds'[group[p]][r.ret].ofd = o
  /\ SetDescriptors(kfds', [ofds EXCEPT ![o] = x])
  /\ x \in Description /\ x.name = r.name /\ (x.write <=> Follows(r)) /\ ~x.split
  /\ x.peak = 0 /\ x.pos = 0 /\ x.init = size'[r.name]
  /\ size' = [size EXCEPT ![r.name] = size'[r.name]] /\ size'[r.name] \in 0 .. MaxLength
  /\ size'[r.name] # size[r.name] => x.write
  /\ LengthsAgree => LengthsAgree'
  /\ x.append => "O_APPEND" \in r.flags
  /\ ~x.append => ("O_APPEND" \in r.flags => size'[r.name] = 0)
  /\ x.write /\ "writers" \notin quirks' => \A c \in Ofd : ofds[c].name = r.name => ~ofds[c].write

LEMMA LengthsSet ==
  ASSUME KernelTyped, NEW name \in Name, NEW n \in 0 .. MaxLength, SetLength(name, n)
  PROVE  /\ size' = [size EXCEPT ![name] = size'[name]] /\ size'[name] = n
         /\ LengthsAgree => LengthsAgree'
<1>1. /\ size' = [size EXCEPT ![name] = n] /\ unlinked' = unlinked
      /\ length' = [length EXCEPT ![name] = IF name \in unlinked THEN 0 ELSE n]
  BY DEF SetLength
<1>2. size'[name] = n /\ \A m \in Name : m # name => size'[m] = size[m] /\ length'[m] = length[m]
  BY <1>1 DEF KernelTyped
<1>3. name \notin unlinked => length'[name] = n
  BY <1>1 DEF KernelTyped
<1> QED  BY <1>1, <1>2, <1>3 DEF LengthsAgree

LEMMA LengthsStay ==
  ASSUME KernelTyped, UNCHANGED files, NEW name \in Name
  PROVE  /\ size' = [size EXCEPT ![name] = size'[name]] /\ size'[name] = size[name]
         /\ LengthsAgree => LengthsAgree'
BY DEF KernelTyped, files, LengthsAgree

\* The registers a thread stops with.
LEMMA StopsWith ==
  ASSUME ThreadInv, NEW p \in Pid, NEW r, NEW kinds, StopAt(p, r, kinds)
  PROVE  stop'[p].regs = r /\ kinds \subseteq quirks'
<1> DEFINE s == [Running EXCEPT !.event = "syscall", !.regs = r]
<1>1. s.regs = r
  BY Events
<1>2. stop' = [stop EXCEPT ![p] = s] /\ kinds \subseteq quirks'
  BY StopAtDoes
<1> HIDE DEF s
<1>3. stop'[p] = s
  BY <1>2 DEF ThreadInv
<1> QED  BY <1>1, <1>2, <1>3

LEMMA WriteMoves ==
  ASSUME NEW p, Runs(p), ThreadInv, NEW fd \in Fd, Write(p, fd)
  PROVE  \E x : Moved(p, stop'[p].regs, x)
<1> DEFINE r == [nr |-> "write", ret |-> 1, fd |-> fd]
           old == At(p, fd)
           end == Landing(old) + 1
           d == Descriptors(p)[fd].ofd
           x == [old EXCEPT !.pos = end, !.peak = Longer(@, end)]
<1>1. /\ Writable(p, fd) /\ Wrote(p, fd, end, end) /\ StopAt(p, r, {}) /\ IsOpen(p, fd)
  BY DEF Write, Writable
<1>2. /\ old \in Description /\ old.name \in Name /\ d \in Ofd /\ size[old.name] \in 0 .. MaxLength
      /\ Landing(old) \in 0 .. MaxLength
  BY <1>1, OpenAt DEF Runs
<1>3. end \in 0 .. MaxLength
  BY <1>1, <1>2, LengthsAreSizes DEF Wrote
<1>4. stop'[p].regs = r
  <2> HIDE DEF r
  <2> QED  BY <1>1, StopsWith DEF Runs
<1>5. r.nr = "write" /\ r.ret = 1 /\ r.fd = fd
  OBVIOUS
<1>6. /\ kfds[group[p]][fd].ofd = d /\ d # None /\ ofds[d] = old /\ old.write
  BY <1>1 DEF IsOpen, Writable, Descriptors, At
<1>7. /\ SetLength(old.name, Longer(size[old.name], end)) /\ UNCHANGED <<kfds, grown>>
      /\ ofds' = [ofds EXCEPT ![d].pos = end, ![d].peak = Longer(@, end)]
  BY <1>1 DEF Wrote
<1>8. Longer(size[old.name], end) \in 0 .. MaxLength
  BY <1>2, <1>3 DEF Longer
<1>9. /\ size' = [size EXCEPT ![old.name] = size'[old.name]]
      /\ size'[old.name] = Longer(size[old.name], end) /\ UNCHANGED unlinked
      /\ LengthsAgree => LengthsAgree'
  <2> HIDE DEF end, old
  <2> QED  BY <1>2, <1>7, <1>8, LengthsSet, LengthSet DEF Runs
<1>10. ofds' = [ofds EXCEPT ![d] = x]
  <2> HIDE DEF end, d
  <2> QED  BY <1>2, <1>6, <1>7 DEF Runs, KernelTyped, Description
<1>11. /\ x \in Description /\ x.name = old.name /\ x.write = old.write /\ x.split = old.split
       /\ x.init = old.init /\ x.append = old.append /\ x.pos = end /\ x.peak = Longer(old.peak, end)
  <2> HIDE DEF end, old
  <2> QED  BY <1>2, <1>3 DEF Description, Longer
<1>12. end <= MaxLength
  BY <1>3
<1> HIDE DEF r, old, x, end, d
<1>13. Moved(p, r, x)
  BY <1>5, <1>6, <1>7, <1>8, <1>9, <1>10, <1>11, <1>12 DEF Moved, Moves, end
<1> QED  BY <1>4, <1>13

LEMMA PwriteMoves ==
  ASSUME NEW p, Runs(p), ThreadInv, NEW fd \in Fd, NEW offset \in 0 .. MaxLength,
         Pwrite(p, fd, offset) \/ PwriteHere(p, fd)
  PROVE  \E x : Moved(p, stop'[p].regs, x)
<1> DEFINE old == At(p, fd)
           d == Descriptors(p)[fd].ofd
<1>1. Writable(p, fd) /\ IsOpen(p, fd)
  BY DEF Pwrite, PwriteHere, Writable
<1>2. /\ old \in Description /\ old.name \in Name /\ d \in Ofd /\ size[old.name] \in 0 .. MaxLength
      /\ Landing(old) \in 0 .. MaxLength
  BY <1>1, OpenAt DEF Runs
<1>3. /\ kfds[group[p]][fd].ofd = d /\ d # None /\ ofds[d] = old /\ old.write
  BY <1>1 DEF IsOpen, Writable, Descriptors, At
<1> HIDE DEF old, d
<1>4. \E end, pos, r :
        /\ end \in Nat /\ pos \in 0 .. MaxLength
        /\ Wrote(p, fd, end, pos) /\ stop'[p].regs = r
        /\ r.nr = "pwrite64" /\ r.ret = 1 /\ r.fd = fd
        /\ Without({"append", "current"})' =>
             ~old.append /\ r.arg = offset /\ end = offset + 1 /\ pos = old.pos
        /\ Without({"append", "current", "jump"})' => ~old.split
  <2>1. CASE Pwrite(p, fd, offset)
    <3> DEFINE from == IF old.append THEN size[old.name] ELSE offset
               r == [nr |-> "pwrite64", ret |-> 1, fd |-> fd, arg |-> offset]
               kinds == Kind("append", old.append) \cup Kind("jump", old.split)
    <3>1. Wrote(p, fd, from + 1, old.pos) /\ StopAt(p, r, kinds)
      BY <2>1 DEF Pwrite, old
    <3>2. r.nr = "pwrite64" /\ r.ret = 1 /\ r.fd = fd /\ r.arg = offset
      OBVIOUS
    <3>3. from \in Nat /\ old.pos \in 0 .. MaxLength /\ (~old.append => from = offset)
      BY <1>2, LengthsAreSizes DEF Description
    <3>4. stop'[p].regs = r /\ kinds \subseteq quirks'
      <4> HIDE DEF r, kinds
      <4> QED  BY <3>1, StopsWith DEF Runs
    <3>5. /\ "append" \notin quirks' => ~old.append
          /\ "jump" \notin quirks' => ~old.split
      BY <3>4 DEF Kind
    <3> HIDE DEF r, from, kinds
    <3> QED  BY <3>1, <3>2, <3>3, <3>4, <3>5 DEF Without
  <2>2. CASE PwriteHere(p, fd)
    <3> DEFINE end == Landing(old) + 1
               r == [nr |-> "pwrite64", ret |-> 1, fd |-> fd, arg |-> SizeModulus - 1]
    <3>1. Wrote(p, fd, end, end) /\ StopAt(p, r, {"current"})
      BY <2>2 DEF PwriteHere, old
    <3>2. r.nr = "pwrite64" /\ r.ret = 1 /\ r.fd = fd
      OBVIOUS
    <3>3. end \in Nat /\ end \in 0 .. MaxLength
      BY <1>2, <3>1, LengthsAreSizes DEF Wrote
    <3>4. stop'[p].regs = r /\ {"current"} \subseteq quirks'
      <4> HIDE DEF r
      <4> QED  BY <3>1, StopsWith DEF Runs
    <3> HIDE DEF r, end
    <3> QED  BY <3>1, <3>2, <3>3, <3>4 DEF Without
  <2> QED  BY <2>1, <2>2
<1>5. PICK end, pos, r :
        /\ end \in Nat /\ pos \in 0 .. MaxLength
        /\ Wrote(p, fd, end, pos) /\ stop'[p].regs = r
        /\ r.nr = "pwrite64" /\ r.ret = 1 /\ r.fd = fd
        /\ Without({"append", "current"})' =>
             ~old.append /\ r.arg = offset /\ end = offset + 1 /\ pos = old.pos
        /\ Without({"append", "current", "jump"})' => ~old.split
  BY <1>4
<1>6. /\ SetLength(old.name, Longer(size[old.name], end)) /\ UNCHANGED <<kfds, grown>>
      /\ ofds' = [ofds EXCEPT ![d].pos = pos, ![d].peak = Longer(@, end)]
      /\ end \in 0 .. MaxLength
  BY <1>5, LengthsAreSizes DEF Wrote, old, d
<1>7. Longer(size[old.name], end) \in 0 .. MaxLength
  BY <1>2, <1>6 DEF Longer
<1>8. /\ size' = [size EXCEPT ![old.name] = size'[old.name]]
      /\ size'[old.name] = Longer(size[old.name], end) /\ UNCHANGED unlinked
      /\ LengthsAgree => LengthsAgree'
  BY <1>2, <1>6, <1>7, LengthsSet, LengthSet DEF Runs
<1> DEFINE x == [old EXCEPT !.pos = pos, !.peak = Longer(@, end)]
<1>9. ofds' = [ofds EXCEPT ![d] = x]
  BY <1>2, <1>3, <1>6 DEF Runs, KernelTyped, Description
<1>10. /\ x \in Description /\ x.name = old.name /\ x.write = old.write /\ x.split = old.split
       /\ x.init = old.init /\ x.append = old.append /\ x.pos = pos /\ x.peak = Longer(old.peak, end)
  BY <1>2, <1>5, <1>6 DEF Description, Longer
<1> HIDE DEF x
<1>11. offset \in Nat /\ offset \in 0 .. MaxLength
  BY LengthsAreSizes
<1>12. Moved(p, r, x)
  <2>1. r.nr = "pwrite64" /\ Without({"append", "current"})' =>
           /\ r.ret = 1 /\ old.write /\ ~old.append
           /\ r.arg \in Nat /\ r.arg + 1 <= MaxLength
           /\ x.pos = old.pos /\ x.append = old.append /\ x.peak = Longer(old.peak, r.arg + 1)
           /\ size'[old.name] = Longer(size[old.name], r.arg + 1)
           /\ Without({"jump"})' => ~old.split
    BY <1>3, <1>5, <1>6, <1>8, <1>10, <1>11 DEF Without
  <2>2. r.nr \notin {"write", "ftruncate", "fallocate", "lseek", "F_SETFL"} /\ r.nr \in Moves
    BY <1>5 DEF Moves
  <2> QED  BY <1>3, <1>5, <1>6, <1>7, <1>8, <1>9, <1>10, <2>1, <2>2 DEF Moved
<1> QED  BY <1>5, <1>12

LEMMA ResizeMoves ==
  ASSUME NEW p, Runs(p), ThreadInv, NEW nr \in {"ftruncate", "fallocate"}, NEW fd \in Fd,
         NEW to \in 0 .. MaxLength, NEW keep \in BOOLEAN, Resize(p, nr, fd, to, keep)
  PROVE  \E x : Moved(p, stop'[p].regs, x)
<1> DEFINE old == At(p, fd)
           d == Descriptors(p)[fd].ofd
           was == size[old.name]
           new == IF nr = "ftruncate" THEN to ELSE IF keep THEN was ELSE Longer(to, was)
           peak == IF keep THEN old.peak ELSE Longer(old.peak, to)
           x == [old EXCEPT !.peak = peak]
           r == [nr |-> nr, ret |-> 0, fd |-> fd, arg |-> to]
           kinds == Kind("shrink", new < was) \cup Kind("keep", keep) \cup
                    Kind("append", old.append /\ new # was) \cup Kind("jump", old.split)
<1>1. Writable(p, fd) /\ IsOpen(p, fd)
  BY DEF Resize, Writable
<1>2. /\ old \in Description /\ old.name \in Name /\ d \in Ofd /\ was \in 0 .. MaxLength
  BY <1>1, OpenAt DEF Runs
<1>3. /\ kfds[group[p]][fd].ofd = d /\ d # None /\ ofds[d] = old /\ old.write
  BY <1>1 DEF IsOpen, Writable, Descriptors, At
<1>4. /\ SetLength(old.name, new) /\ UNCHANGED <<kfds, grown>>
      /\ ofds' = [ofds EXCEPT ![d].peak = IF keep THEN @ ELSE Longer(@, to)]
      /\ StopAt(p, r, kinds)
  BY DEF Resize
<1>5. stop'[p].regs = r /\ kinds \subseteq quirks'
  <2> HIDE DEF r, kinds
  <2> QED  BY <1>4, StopsWith DEF Runs
<1>6. /\ "shrink" \notin quirks' => ~(new < was)
      /\ "keep" \notin quirks' => ~keep
      /\ "append" \notin quirks' => ~(old.append /\ new # was)
      /\ "jump" \notin quirks' => ~old.split
  <2> HIDE DEF new, was, old
  <2> QED  BY <1>5 DEF Kind
<1>7. r.nr = nr /\ r.fd = fd /\ r.arg = to /\ r.ret = 0
  OBVIOUS
<1> HIDE DEF old, d, r, kinds
<1>8. new \in 0 .. MaxLength
  BY <1>2 DEF Longer
<1>9. ~keep /\ ~(new < was) => new = Longer(was, to)
  BY <1>2 DEF Longer
<1>10. ofds' = [ofds EXCEPT ![d] = x]
  BY <1>2, <1>3, <1>4 DEF Runs, KernelTyped, Description
<1>11. /\ x \in Description /\ x.name = old.name /\ x.write = old.write /\ x.split = old.split
       /\ x.init = old.init /\ x.append = old.append /\ x.pos = old.pos
       /\ x.peak = peak
  BY <1>2 DEF Description, Longer
<1>12. ~keep => peak = Longer(old.peak, to)
  OBVIOUS
<1> HIDE DEF was, new, x, peak
<1>13. /\ size' = [size EXCEPT ![old.name] = size'[old.name]]
       /\ size'[old.name] = new /\ UNCHANGED unlinked
       /\ LengthsAgree => LengthsAgree'
  BY <1>2, <1>4, <1>8, LengthsSet, LengthSet DEF Runs
<1>14. Moved(p, r, x)
  <2>1. r.nr \notin {"write", "pwrite64", "lseek", "F_SETFL"} /\ r.nr \in Moves
    BY <1>7 DEF Moves
  <2>2. Without({"append"})' => (old.append => size'[old.name] = size[old.name])
    BY <1>6, <1>13 DEF Without, was
  <2>3. Without({"keep", "shrink"})' => x.peak = Longer(old.peak, r.arg)
                                         /\ size'[old.name] = Longer(size[old.name], r.arg)
    BY <1>6, <1>7, <1>9, <1>11, <1>12, <1>13 DEF Without, was
  <2>4. Without({"jump"})' => ~old.split
    BY <1>6 DEF Without
  <2> QED  BY <1>3, <1>4, <1>7, <1>8, <1>10, <1>11, <1>13, <2>1, <2>2, <2>3, <2>4 DEF Moved
<1> QED  BY <1>5, <1>14

LEMMA SeekMoves ==
  ASSUME NEW p, Runs(p), ThreadInv, NEW fd \in Fd, NEW pos \in 0 .. MaxLength, Seek(p, fd, pos)
  PROVE  \E x : Moved(p, stop'[p].regs, x)
<1> DEFINE old == At(p, fd)
           d == Descriptors(p)[fd].ofd
           x == [old EXCEPT !.pos = pos]
           r == [nr |-> "lseek", ret |-> pos, fd |-> fd]
           kinds == Kind("append", old.append) \cup Kind("far", ~IntNonNegative(pos)) \cup
                    Kind("jump", old.split)
<1>1. IsOpen(p, fd)
  BY DEF Seek
<1>2. /\ old \in Description /\ old.name \in Name /\ d \in Ofd /\ size[old.name] \in 0 .. MaxLength
  BY <1>1, OpenAt DEF Runs
<1>3. /\ kfds[group[p]][fd].ofd = d /\ d # None /\ ofds[d] = old
  BY <1>1 DEF IsOpen, Descriptors, At
<1>4. /\ UNCHANGED <<files, kfds, grown>> /\ StopAt(p, r, kinds)
      /\ ofds' = [ofds EXCEPT ![d].pos = pos]
  BY DEF Seek
<1>5. stop'[p].regs = r /\ kinds \subseteq quirks'
  <2> HIDE DEF r, kinds
  <2> QED  BY <1>4, StopsWith DEF Runs
<1>6. /\ "append" \notin quirks' => ~old.append
      /\ "far" \notin quirks' => IntNonNegative(pos)
      /\ "jump" \notin quirks' => ~old.split
  <2> HIDE DEF old
  <2> QED  BY <1>5 DEF Kind
<1>7. r.nr = "lseek" /\ r.fd = fd /\ r.ret = pos
  OBVIOUS
<1> HIDE DEF old, d, r, kinds
<1>8. ofds' = [ofds EXCEPT ![d] = x]
  BY <1>2, <1>3, <1>4 DEF Runs, KernelTyped, Description
<1>9. /\ x \in Description /\ x.name = old.name /\ x.write = old.write /\ x.split = old.split
      /\ x.init = old.init /\ x.append = old.append /\ x.pos = pos /\ x.peak = old.peak
  BY <1>2 DEF Description
<1>10. /\ size' = [size EXCEPT ![old.name] = size'[old.name]] /\ size'[old.name] = size[old.name]
       /\ LengthsAgree => LengthsAgree'
  BY <1>2, <1>4, LengthsStay DEF Runs
<1> HIDE DEF x
<1>11. Moved(p, r, x)
  <2>1. r.nr \notin {"write", "pwrite64", "ftruncate", "fallocate", "F_SETFL"} /\ r.nr \in Moves
    BY <1>7 DEF Moves
  <2> QED  BY <1>2, <1>3, <1>4, <1>6, <1>7, <1>8, <1>9, <1>10, <2>1 DEF Moved, Without, files
<1> QED  BY <1>5, <1>11

LEMMA SetStatusFlagsMoves ==
  ASSUME NEW p, Runs(p), ThreadInv, NEW fd \in Fd, NEW append \in BOOLEAN,
         SetStatusFlags(p, fd, append)
  PROVE  \E x : Moved(p, stop'[p].regs, x)
<1> DEFINE old == At(p, fd)
           d == Descriptors(p)[fd].ofd
           x == [old EXCEPT !.append = append]
           r == [nr |-> "F_SETFL", ret |-> 0, fd |-> fd,
                 flags |-> IF append THEN {"O_APPEND"} ELSE {}]
           kinds == Kind("cloexec", Descriptors(p)[fd].cloexec) \cup
                    Kind("append", old.append # append)
<1>1. IsOpen(p, fd)
  BY DEF SetStatusFlags
<1>2. /\ old \in Description /\ old.name \in Name /\ d \in Ofd /\ size[old.name] \in 0 .. MaxLength
  BY <1>1, OpenAt DEF Runs
<1>3. /\ kfds[group[p]][fd].ofd = d /\ d # None /\ ofds[d] = old
  BY <1>1 DEF IsOpen, Descriptors, At
<1>4. /\ UNCHANGED <<files, kfds, grown>> /\ StopAt(p, r, kinds)
      /\ ofds' = [ofds EXCEPT ![d].append = append]
  BY DEF SetStatusFlags
<1>5. stop'[p].regs = r /\ kinds \subseteq quirks'
  <2> HIDE DEF r, kinds
  <2> QED  BY <1>4, StopsWith DEF Runs
<1>6. "append" \notin quirks' => old.append = append
  <2> HIDE DEF old
  <2> QED  BY <1>5 DEF Kind
<1>7. r.nr = "F_SETFL" /\ r.fd = fd
  OBVIOUS
<1> HIDE DEF old, d, r, kinds
<1>8. ofds' = [ofds EXCEPT ![d] = x]
  BY <1>2, <1>3, <1>4 DEF Runs, KernelTyped, Description
<1>9. /\ x \in Description /\ x.name = old.name /\ x.write = old.write /\ x.split = old.split
      /\ x.init = old.init /\ x.append = append /\ x.pos = old.pos /\ x.peak = old.peak
  BY <1>2 DEF Description
<1>10. /\ size' = [size EXCEPT ![old.name] = size'[old.name]] /\ size'[old.name] = size[old.name]
       /\ LengthsAgree => LengthsAgree'
  BY <1>2, <1>4, LengthsStay DEF Runs
<1> HIDE DEF x
<1>11. Moved(p, r, x)
  <2>1. r.nr \notin Moves
    BY <1>7 DEF Moves
  <2>2. r.nr \notin {"write", "pwrite64", "ftruncate", "fallocate", "lseek"}
    BY <1>7
  <2> QED  BY <1>2, <1>3, <1>4, <1>6, <1>7, <1>8, <1>9, <1>10, <2>1, <2>2 DEF Moved, Without, files
<1> QED  BY <1>5, <1>11

LEMMA SetFdRewires ==
  ASSUME NEW p, Runs(p), ThreadInv, NEW fd, NEW entry, SetFd(p, fd, entry),
         NEW r, NEW kinds, StopAt(p, r, kinds), r.nr \in Dups \cup {"close", "F_SETFD"}
  PROVE  Rewired(p, stop'[p].regs)
<1>1. stop'[p].regs = r
  BY StopsWith DEF Runs
<1>2. SetDescriptors(kfds', ofds) /\ UNCHANGED files
  BY DEF SetFd, SetDescriptors
<1> QED  BY <1>1, <1>2 DEF Rewired

LEMMA CallsRewire ==
  ASSUME NEW p, Runs(p), ThreadInv, NEW fd \in Fd,
         \/ Close(p, fd)
         \/ \E nr \in {"dup", "F_DUPFD", "F_DUPFD_CLOEXEC"} : Dup(p, nr, fd)
         \/ \E nr \in {"dup2", "dup3"}, new \in Fd, flags \in {{}, {"O_CLOEXEC"}} :
              DupTo(p, nr, fd, new, flags)
         \/ \E on \in BOOLEAN : SetFdFlag(p, fd, on)
  PROVE  Rewired(p, stop'[p].regs)
<1>1. CASE Close(p, fd)
  <2> DEFINE r == [nr |-> "close", ret |-> IF IsOpen(p, fd) THEN 0 ELSE 0 - 1, fd |-> fd]
  <2>1. SetFd(p, fd, Closed) /\ StopAt(p, r, {}) /\ r.nr = "close"
    BY <1>1 DEF Close
  <2> HIDE DEF r
  <2> QED  BY <2>1, SetFdRewires
<1>2. ASSUME NEW nr \in {"dup", "F_DUPFD", "F_DUPFD_CLOEXEC"}, Dup(p, nr, fd)
      PROVE  Rewired(p, stop'[p].regs)
  <2> DEFINE new == Min(FreeFds(p))
             entry == [ofd |-> Descriptors(p)[fd].ofd, cloexec |-> nr = "F_DUPFD_CLOEXEC"]
             r == [nr |-> nr, ret |-> new, fd |-> fd]
             kinds == Kind("cloexec", MixedCloexec(kfds'))
  <2>1. SetFd(p, new, entry) /\ StopAt(p, r, kinds) /\ r.nr = nr
    BY <1>2 DEF Dup
  <2>2. nr \in Dups
    BY DEF Dups, NewFd
  <2> HIDE DEF r, entry, kinds, new
  <2> QED  BY <2>1, <2>2, SetFdRewires
<1>3. ASSUME NEW nr \in {"dup2", "dup3"}, NEW new \in Fd, NEW flags \in {{}, {"O_CLOEXEC"}},
             DupTo(p, nr, fd, new, flags)
      PROVE  Rewired(p, stop'[p].regs)
  <2> DEFINE entry == IF fd = new THEN Descriptors(p)[fd]
                      ELSE [ofd |-> Descriptors(p)[fd].ofd, cloexec |-> flags # {}]
             r == [nr |-> nr, ret |-> new, fd |-> fd, arg |-> new, flags |-> flags]
             kinds == Kind("cloexec", MixedCloexec(kfds'))
  <2>1. SetFd(p, new, entry) /\ StopAt(p, r, kinds) /\ r.nr = nr
    BY <1>3 DEF DupTo
  <2>2. nr \in Dups
    BY DEF Dups, NewFd
  <2> HIDE DEF r, entry, kinds
  <2> QED  BY <2>1, <2>2, SetFdRewires
<1>4. ASSUME NEW on \in BOOLEAN, SetFdFlag(p, fd, on)
      PROVE  Rewired(p, stop'[p].regs)
  <2> DEFINE entry == [Descriptors(p)[fd] EXCEPT !.cloexec = on]
             r == [nr |-> "F_SETFD", ret |-> 0, fd |-> fd,
                   flags |-> IF on THEN {FD_CLOEXEC} ELSE {}]
             kinds == Kind("cloexec", on \/ MixedCloexec(kfds'))
  <2>1. SetFd(p, fd, entry) /\ StopAt(p, r, kinds) /\ r.nr = "F_SETFD"
    BY <1>4 DEF SetFdFlag
  <2> HIDE DEF r, entry, kinds
  <2> QED  BY <2>1, SetFdRewires
<1> QED  BY <1>1, <1>2, <1>3, <1>4

LEMMA OpenBegins ==
  ASSUME NEW p, Runs(p), ThreadInv, NEW nr \in {"open", "creat"}, NEW name \in Name,
         NEW opening \in use.flags, NEW trunc \in BOOLEAN, NEW mode \in {{}, {"O_APPEND"}},
         Open(p, nr, name, opening, trunc, mode)
  PROVE  \E o, x : Begun(p, stop'[p].regs, o, x)
<1> DEFINE fd == Min(FreeFds(p))
           spare == {d \in use.ofds : ofds[d].name = None}
           o == Min(spare)
           write == {"O_WRONLY", "O_RDWR"} \cap opening # {}
           start == IF trunc THEN 0 ELSE size[name]
           others == {d \in Ofd : ofds[d].name = name /\ ofds[d].write}
           r == [nr |-> nr, ret |-> fd, name |-> name, flags |-> IF nr = "creat" THEN mode ELSE opening]
           append == "O_APPEND" \in opening
           entry == [ofd |-> o, cloexec |-> "O_CLOEXEC" \in opening]
           x == [Free EXCEPT !.name = name, !.write = write, !.append = append,
                             !.init = start, !.followed = write]
           fds == [kfds EXCEPT ![group[p]][fd] = entry]
           descriptions == [ofds EXCEPT ![o] = x]
           kinds == Kind("writers", write /\ others # {})
<1>1. /\ FreeFds(p) # {} /\ spare # {}
      /\ trunc => write
      /\ name \notin unlinked
      /\ IF nr = "creat" THEN trunc /\ opening = {"O_WRONLY"} ELSE mode = {}
      /\ SetLength(name, start)
      /\ SetDescriptors(fds, descriptions)
      /\ StopAt(p, r, kinds)
  BY DEF Open
<1>2. fd \in FreeFds(p)
  <2>1. FreeFds(p) \in SUBSET Nat
    BY FdsAreNumbers DEF FreeFds
  <2> QED  BY <1>1, <2>1, LowestIsIn
<1>3. fd \in Fd
  BY <1>2 DEF FreeFds
<1>4. o \in Ofd /\ ofds[o].name = None
  <2>1. use \in Uses
    BY DEF Runs, KernelTyped
  <2>2. use.ofds \subseteq Ofd
    BY <2>1, AccountingAssumption, Zenon
  <2>3. spare \in SUBSET Nat
    BY <2>2, FdsAreNumbers
  <2>4. o \in spare
    BY <1>1, <2>3, LowestIsIn
  <2> QED  BY <2>2, <2>4
<1>5. start \in 0 .. MaxLength /\ (trunc => start = 0) /\ (~trunc => start = size[name])
  BY LengthsAreSizes DEF Runs, KernelTyped
<1>6. write \in BOOLEAN /\ append \in BOOLEAN
  OBVIOUS
<1>7. Follows(r) <=> write
  BY <1>1 DEF Follows
<1>8. (append => "O_APPEND" \in r.flags) /\ (~append => ("O_APPEND" \in r.flags => trunc))
  BY <1>1
<1>9. r.nr = nr /\ r.ret = fd /\ r.name = name
  OBVIOUS
<1>10. fds[group[p]][fd].ofd = o
  <2>1. entry.ofd = o
    OBVIOUS
  <2> HIDE DEF entry, fd, o
  <2> QED  BY <1>3, <2>1 DEF Runs, KernelTyped
<1>11. kfds' = fds
  BY <1>1 DEF SetDescriptors
<1>12. stop'[p].regs = r /\ kinds \subseteq quirks'
  <2> HIDE DEF r, kinds
  <2> QED  BY <1>1, StopsWith DEF Runs
<1>13. write /\ "writers" \notin quirks' => \A c \in Ofd : ofds[c].name = name => ~ofds[c].write
  <2> HIDE DEF write
  <2> QED  BY <1>12 DEF Kind
<1> HIDE DEF write, append, start
<1>14. /\ x \in Description /\ x.name = name /\ x.write = write /\ ~x.split
       /\ x.peak = 0 /\ x.pos = 0 /\ x.init = start /\ x.append = append
  <2>1. 0 \in 0 .. MaxLength
    BY LengthsAreSizes
  <2> QED  BY <1>5, <1>6, <2>1 DEF Free, Description
<1> HIDE DEF fd, spare, o, others, r, entry, x, kinds
<1>15. /\ size' = [size EXCEPT ![name] = size'[name]] /\ size'[name] = start
       /\ LengthsAgree => LengthsAgree'
  BY <1>1, <1>5, LengthsSet DEF Runs
<1>16. SetDescriptors(kfds', [ofds EXCEPT ![o] = x])
  BY <1>1, <1>11
<1> HIDE DEF fds, descriptions
<1>17. Begun(p, r, o, x)
  BY <1>1, <1>3, <1>4, <1>5, <1>7, <1>8, <1>9, <1>10, <1>11, <1>13, <1>14, <1>15, <1>16 DEF Begun
<1> QED  BY <1>12, <1>17

------------------------------------------------------------------------------
(* What is kept of positions at a call *)

\* A descriptor still refers to it.
Stays(o) == \E q \in Pid, fd \in Fd : kfds[q][fd].ofd = o /\ kfds'[q][fd].ofd = o

\* The description the call moves.
Touched(p, r) == IF r.nr \in Moves \cup {"F_SETFL"} THEN kfds[group[p]][r.fd].ofd ELSE None

\* Where the next write lands then.
Lands(r, from) == CASE r.nr = "write" -> from + 1
                    [] r.nr = "lseek" -> r.ret
                    [] OTHER -> from

Places(p, r) ==
  /\ \A o \in Ofd : Sole(o) /\ Stays(o) /\ o # Touched(p, r) =>
       Landing(ofds[o])' = Landing(ofds[o]) /\ size'[ofds[o].name] = size[ofds[o].name]
  /\ \A o \in Ofd : Sole(o) /\ o = Touched(p, r) =>
       Landing(ofds[o])' = Lands(r, Landing(ofds[o]))
  /\ r.nr \in Moves => kfds[group[p]][r.fd].ofd # None
  /\ r.nr = "write" => r.ret = 1
  /\ r.nr = "lseek" => IntNonNegative(r.ret)
  /\ Follows(r) =>
       /\ r.name \notin unlinked
       /\ \A o \in Ofd : o = kfds'[group[p]][r.ret].ofd =>
            /\ ofds'[o].name = r.name
            /\ Landing(ofds[o])' = IF "O_APPEND" \in r.flags THEN size'[r.name] ELSE 0

Shifts(p, r) ==
  /\ \A o \in Ofd : Stays(o) =>
       /\ ofds'[o].split = ofds[o].split /\ ofds'[o].write = ofds[o].write
       /\ ofds'[o].name = ofds[o].name
  /\ LengthsAgree => LengthsAgree'
  /\ r.nr \in {"open", "creat"} =>
       \A o \in Ofd : o = kfds'[group[p]][r.ret].ofd =>
         ~Refers(kfds, o) /\ ~ofds'[o].split /\ (ofds'[o].write <=> Follows(r))
  /\ OneWriter /\ "writers" \notin quirks' => OneWriter'
  /\ OneWriter /\ Without(PositionKinds)' => Places(p, r)

\* What Moved says, of a description that has a name of its own.
MovesOne(r, x, d, old, name) ==
  /\ r.nr \in Moves \cup {"F_SETFL"} /\ r.fd \in Fd /\ d # None
  /\ x \in Description /\ ofds' = [ofds EXCEPT ![d] = x]
  /\ UNCHANGED <<kfds, unlinked, grown>>
  /\ x.name = name /\ x.write = old.write /\ x.split = old.split /\ x.init = old.init
  /\ size' = [size EXCEPT ![name] = size'[name]] /\ size'[name] \in 0 .. MaxLength
  /\ size'[name] # size[name] => old.write
  /\ LengthsAgree => LengthsAgree'
  /\ r.nr = "write" =>
       /\ r.ret = 1 /\ old.write /\ x.pos = Landing(old) + 1 /\ x.append = old.append
       /\ size'[name] = Longer(size[name], Landing(old) + 1)
  /\ r.nr = "pwrite64" /\ Without({"append", "current"})' =>
       ~old.append /\ x.pos = old.pos /\ x.append = old.append
  /\ r.nr \in {"ftruncate", "fallocate"} =>
       /\ x.pos = old.pos /\ x.append = old.append
       /\ Without({"append"})' => (old.append => size'[name] = size[name])
  /\ r.nr = "lseek" =>
       /\ x.pos = r.ret /\ x.append = old.append
       /\ Without({"append"})' => ~old.append
       /\ Without({"far"})' => IntNonNegative(r.ret)
  /\ r.nr = "F_SETFL" =>
       /\ x.pos = old.pos /\ size'[name] = size[name]
       /\ Without({"append"})' => x.append = old.append

LEMMA MovedIs ==
  ASSUME NEW p, NEW r, NEW x, Moved(p, r, x), NEW d, d = kfds[group[p]][r.fd].ofd,
         NEW old, old = ofds[d], NEW name, name = old.name
  PROVE  MovesOne(r, x, d, old, name)
BY DEF Moved, MovesOne

\* What the description of an open descriptor is.
LEMMA LandsIn ==
  ASSUME KernelTyped, HeldInv, NEW g \in Pid, NEW fd \in Fd, NEW d, d = kfds[g][fd].ofd, d # None
  PROVE  /\ d \in Ofd /\ ofds[d] \in Description /\ ofds[d].name \in Name
         /\ size[ofds[d].name] \in Nat /\ ofds[d].pos \in Nat /\ Landing(ofds[d]) \in Nat
         /\ ofds[d].peak \in Nat /\ ofds[d].init \in Nat
<1>1. 0 .. MaxLength \subseteq Nat
  BY LengthsAreSizes
<1>2. d \in Ofd /\ ofds[d] \in Description
  <2>1. ofds \in [Ofd -> Description]
    BY Zenon DEF KernelTyped
  <2>2. kfds[g][fd].ofd \in Ofd \cup {None}
    BY DEF KernelTyped
  <2>3. d \in Ofd
    BY <2>2
  <2> QED  BY <2>1, <2>3, Zenon
<1>3. ofds[d].name # None
  BY <1>2 DEF HeldInv
<1>4. ofds[d].name \in Name /\ ofds[d].pos \in Nat /\ ofds[d].peak \in Nat /\ ofds[d].init \in Nat
  BY <1>1, <1>2, <1>3 DEF Description
<1>5. size[ofds[d].name] \in Nat
  <2>1. size \in [Name -> 0 .. MaxLength]
    BY Zenon DEF KernelTyped
  <2> QED  BY <1>1, <1>4, <2>1, Zenon
<1> QED  BY <1>2, <1>4, <1>5 DEF Landing

LEMMA MovedShifts ==
  ASSUME KernelTyped, HeldInv, NEW p \in Pid, group[p] \in Pid, NEW r, NEW x, Moved(p, r, x)
  PROVE  Shifts(p, r)
<1> SUFFICES ASSUME NEW d, d = kfds[group[p]][r.fd].ofd, NEW old, old = ofds[d],
                    NEW name, name = old.name
             PROVE  Shifts(p, r)
  OBVIOUS
<1>m. MovesOne(r, x, d, old, name)
  BY MovedIs, Zenon
<1>b. /\ d \in Ofd /\ old \in Description /\ name \in Name
      /\ size[name] \in Nat /\ old.pos \in Nat
  <2>1. r.fd \in Fd /\ d # None
    BY <1>m, Zenon DEF MovesOne
  <2> QED  BY <2>1, LandsIn
<1>1. /\ d \in Ofd /\ ofds' = [ofds EXCEPT ![d] = x] /\ UNCHANGED <<kfds, unlinked>>
      /\ x.name = name /\ x.write = old.write /\ x.split = old.split
      /\ size' = [size EXCEPT ![name] = size'[name]]
      /\ size'[name] # size[name] => old.write
      /\ LengthsAgree => LengthsAgree'
      /\ r.nr \in Moves \cup {"F_SETFL"}
  BY <1>b, <1>m, Zenon DEF MovesOne
<1>2. \A o \in Ofd : ofds'[o] = IF o = d THEN x ELSE ofds[o]
  BY <1>1 DEF KernelTyped
<1>3. /\ Touched(p, r) = d /\ r.nr \notin {"open", "creat"} /\ ~Follows(r)
  BY <1>1 DEF Touched, Moves, Follows
<1>5. OneWriter => OneWriter'
  <2>1. \A c \in Ofd : ofds'[c].write = ofds[c].write /\ ofds'[c].name = ofds[c].name
    BY <1>1, <1>2
  <2> QED  BY <2>1 DEF OneWriter
<1>6. ASSUME OneWriter, NEW o \in Ofd, Sole(o), Stays(o), o # d
      PROVE  /\ Landing(ofds[o])' = Landing(ofds[o])
             /\ size'[ofds[o].name] = size[ofds[o].name]
  <2>1. size'[ofds[o].name] = size[ofds[o].name]
    <3>1. CASE ofds[o].name = name
      <4>1. ~old.write
        BY <1>1, <1>6, <3>1 DEF OneWriter, Sole
      <4> QED  BY <1>1, <3>1, <4>1
    <3>2. CASE ofds[o].name # name
      <4>1. ofds[o].name \in Name
        <5>1. ofds[o].name # None
          BY <1>6, AccountingAssumption, Zenon DEF HeldInv, Stays
        <5> QED  BY <5>1 DEF KernelTyped, Description
      <4> QED  BY <1>1, <3>2, <4>1 DEF KernelTyped
    <3> QED  BY <3>1, <3>2
  <2>2. ofds'[o] = ofds[o]
    BY <1>2, <1>6
  <2> QED  BY <2>1, <2>2 DEF Landing
<1>7. ASSUME Without(PositionKinds)'
      PROVE  Landing(ofds[d])' = Lands(r, Landing(ofds[d]))
  <2>1. ofds'[d] = x
    BY <1>1, <1>2
  <2>2. /\ Without({"append", "current"})' /\ Without({"append"})' /\ Without({"far"})'
    BY <1>7 DEF Without, PositionKinds
  <2>3. Landing(ofds[d])' = IF x.append THEN size'[name] ELSE x.pos
    <3>1. x.name = name
      BY <1>1
    <3> QED  BY <2>1, <3>1, Zenon DEF Landing
  <2>4. /\ size[name] \in Nat /\ old.pos \in Nat /\ old.append \in BOOLEAN
        /\ x.append \in BOOLEAN
    <3>1. x \in Description
      BY <1>m, Zenon DEF MovesOne
    <3> QED  BY <1>b, <3>1 DEF Description
  <2>5. Landing(ofds[d]) = IF old.append THEN size[name] ELSE old.pos
    BY DEF Landing
  <2>6. Landing(old) = Landing(ofds[d])
    OBVIOUS
  <2>7. CASE r.nr = "write"
    <3>1. /\ x.pos = Landing(old) + 1 /\ x.append = old.append
          /\ size'[name] = Longer(size[name], Landing(old) + 1)
      BY <1>m, <2>7, Zenon DEF MovesOne
    <3>2. Landing(ofds[d])' = Landing(ofds[d]) + 1
      <4>1. CASE x.append
        <5>1. Landing(old) = size[name] /\ Landing(ofds[d]) = size[name]
          BY <2>5, <2>6, <3>1, <4>1
        <5>2. size'[name] = size[name] + 1
          <6>1. \A n \in Nat : Longer(n, n + 1) = n + 1
            BY DEF Longer
          <6> QED  BY <2>4, <3>1, <5>1, <6>1
        <5> QED  BY <2>3, <4>1, <5>1, <5>2
      <4>2. CASE ~x.append
        BY <2>3, <2>4, <2>5, <2>6, <3>1, <4>2
      <4> QED  BY <4>1, <4>2
    <3> QED  BY <2>7, <3>2 DEF Lands
  <2>8. CASE r.nr = "pwrite64"
    <3>1. x.pos = old.pos /\ x.append = old.append /\ ~old.append
      BY <1>m, <2>2, <2>8, Zenon DEF MovesOne
    <3> QED  BY <2>3, <2>5, <2>8, <3>1 DEF Lands
  <2>9. CASE r.nr \in {"ftruncate", "fallocate"}
    <3>1. /\ x.pos = old.pos /\ x.append = old.append
          /\ old.append => size'[name] = size[name]
      BY <1>m, <2>2, <2>9, Zenon DEF MovesOne
    <3> QED  BY <2>3, <2>5, <2>9, <3>1 DEF Lands
  <2>10. CASE r.nr = "lseek"
    <3>1. x.pos = r.ret /\ x.append = old.append /\ ~old.append
      BY <1>m, <2>2, <2>10, Zenon DEF MovesOne
    <3> QED  BY <2>3, <2>10, <3>1 DEF Lands
  <2>11. CASE r.nr = "F_SETFL"
    <3>1. x.pos = old.pos /\ x.append = old.append /\ size'[name] = size[name]
      BY <1>m, <2>2, <2>11, Zenon DEF MovesOne
    <3> QED  BY <2>3, <2>5, <2>11, <3>1 DEF Lands
  <2> QED  BY <1>1, <2>7, <2>8, <2>9, <2>10, <2>11 DEF Moves
<1>8. /\ r.nr = "write" => r.ret = 1
      /\ Without(PositionKinds)' => (r.nr = "lseek" => IntNonNegative(r.ret))
  <2>1. Without(PositionKinds)' => Without({"far"})'
    BY DEF Without, PositionKinds
  <2> QED  BY <1>m, <2>1, Zenon DEF MovesOne
<1>9. ASSUME OneWriter, Without(PositionKinds)'
      PROVE  Places(p, r)
  <2>1. r.nr \in Moves => kfds[group[p]][r.fd].ofd # None
    BY <1>m, Zenon DEF MovesOne
  <2> QED  BY <1>3, <1>6, <1>7, <1>8, <1>9, <2>1 DEF Places
<1> QED  BY <1>1, <1>2, <1>3, <1>5, <1>9 DEF Shifts

\* What SetDescriptors leaves.
LEMMA HeldStay ==
  ASSUME KernelTyped, KernelTyped', NEW descriptions \in [Ofd -> Description],
         SetDescriptors(kfds', descriptions)
  PROVE  /\ \A o \in Ofd : Refers(kfds', o) => ofds'[o] = descriptions[o]
         /\ \A o \in Ofd : ofds'[o] = descriptions[o] \/ ofds'[o] = Free
         /\ \A o \in Ofd : ofds'[o] # descriptions[o] => descriptions[o].name # None /\ ~Refers(kfds', o)
BY DEF SetDescriptors, Refers

LEMMA RewiredShifts ==
  ASSUME KernelTyped, KernelTyped', NEW p \in Pid, NEW r, Rewired(p, r)
  PROVE  Shifts(p, r)
<1>1. /\ r.nr \in Dups \cup {"close", "F_SETFD"}
      /\ SetDescriptors(kfds', ofds) /\ UNCHANGED files /\ ofds \in [Ofd -> Description]
  BY DEF Rewired, KernelTyped
<1>2. /\ \A o \in Ofd : Refers(kfds', o) => ofds'[o] = ofds[o]
      /\ \A o \in Ofd : ofds'[o] = ofds[o] \/ ofds'[o] = Free
  BY <1>1, HeldStay
<1>3. \A o \in Ofd : Stays(o) => ofds'[o] = ofds[o]
  BY <1>2 DEF Stays, Refers
<1>4. Touched(p, r) = None /\ r.nr \notin {"open", "creat"} /\ ~Follows(r) /\ r.nr \notin Moves
  BY <1>1 DEF Touched, Moves, Dups, NewFd, Follows
<1>5. OneWriter => OneWriter'
  BY <1>2 DEF OneWriter, Free
<1>6. LengthsAgree => LengthsAgree'
  BY <1>1 DEF LengthsAgree, files
<1>7. None \notin Ofd
  BY AccountingAssumption, Zenon
<1>8. Places(p, r)
  <2>1. \A o \in Ofd : Stays(o) => Landing(ofds[o])' = Landing(ofds[o])
    BY <1>1, <1>3 DEF Landing, files
  <2>2. \A o \in Ofd : size'[ofds[o].name] = size[ofds[o].name]
    BY <1>1 DEF files
  <2>3. r.nr # "write" /\ r.nr # "lseek"
    BY <1>4 DEF Moves
  <2> QED  BY <1>4, <1>7, <2>1, <2>2, <2>3 DEF Places
<1> QED  BY <1>3, <1>4, <1>5, <1>6, <1>8 DEF Shifts

LEMMA BegunShifts ==
  ASSUME KernelTyped, HeldInv, KernelTyped', NEW p \in Pid, group[p] \in Pid, NEW r, NEW d, NEW x,
         Begun(p, r, d, x)
  PROVE  Shifts(p, r)
<1> DEFINE descriptions == [ofds EXCEPT ![d] = x]
<1>1. /\ d \in Ofd /\ ofds[d].name = None /\ kfds'[group[p]][r.ret].ofd = d
      /\ SetDescriptors(kfds', descriptions) /\ r.ret \in Fd
      /\ x \in Description /\ x.name = r.name /\ (x.write <=> Follows(r)) /\ ~x.split
      /\ r.nr \in {"open", "creat"} /\ r.name \in Name \ unlinked
      /\ size' = [size EXCEPT ![r.name] = size'[r.name]]
      /\ size'[r.name] # size[r.name] => x.write
      /\ LengthsAgree => LengthsAgree'
      /\ x.write /\ "writers" \notin quirks' => \A c \in Ofd : ofds[c].name = r.name => ~ofds[c].write
  BY DEF Begun
<1>2. /\ descriptions \in [Ofd -> Description] /\ descriptions[d] = x
      /\ \A o \in Ofd : o # d => descriptions[o] = ofds[o]
  BY <1>1 DEF KernelTyped
<1>3. ~Refers(kfds, d)
  <2>1. d # None
    BY <1>1, AccountingAssumption, Zenon
  <2> QED  BY <1>1, <2>1 DEF Refers, HeldInv
<1> HIDE DEF descriptions
<1>4. /\ \A o \in Ofd : Refers(kfds', o) => ofds'[o] = descriptions[o]
      /\ \A o \in Ofd : ofds'[o] = descriptions[o] \/ ofds'[o] = Free
  BY <1>1, <1>2, HeldStay
<1>5. Refers(kfds', d) /\ ofds'[d] = x
  BY <1>1, <1>2, <1>4 DEF Refers
<1>6. \A o \in Ofd : Stays(o) => o # d /\ ofds'[o] = ofds[o]
  BY <1>2, <1>3, <1>4 DEF Stays, Refers
<1>7. \A o \in Ofd : o # d => ofds'[o] = ofds[o] \/ ofds'[o] = Free
  BY <1>2, <1>4
<1>8. Touched(p, r) = None /\ r.nr \notin Moves /\ r.nr \notin {"write", "lseek"}
  BY <1>1 DEF Touched, Moves
<1>9. OneWriter /\ "writers" \notin quirks' => OneWriter'
  <2> SUFFICES ASSUME OneWriter, "writers" \notin quirks', NEW a \in Ofd, NEW b \in Ofd,
                      ofds'[a].write, ofds'[b].write, ofds'[a].name = ofds'[b].name
               PROVE  a = b
    BY DEF OneWriter
  <2>1. \A o \in Ofd : o # d /\ ofds'[o].write => ofds[o].write /\ ofds'[o].name = ofds[o].name
    BY <1>7 DEF Free
  <2>2. \A o \in Ofd : o # d /\ ofds'[o].write /\ x.write => ofds'[o].name # r.name
    BY <1>1, <2>1
  <2> QED  BY <1>1, <1>5, <2>1, <2>2 DEF OneWriter
<1>10. ASSUME OneWriter, Without(PositionKinds)'
       PROVE  Places(p, r)
  <2>1. "writers" \notin quirks'
    BY <1>10 DEF Without, PositionKinds
  <2>2. None \notin Ofd
    BY AccountingAssumption, Zenon
  <2>3. ASSUME NEW o \in Ofd, Sole(o), Stays(o)
        PROVE  Landing(ofds[o])' = Landing(ofds[o]) /\ size'[ofds[o].name] = size[ofds[o].name]
    <3>0. ofds[o].name \in Name
      <4>1. ofds[o].name # None
        BY <2>2, <2>3, Zenon DEF HeldInv, Stays
      <4> QED  BY <4>1 DEF KernelTyped, Description
    <3>1. ofds'[o] = ofds[o]
      BY <1>6, <2>3
    <3>2. size'[ofds[o].name] = size[ofds[o].name]
      <4>1. CASE ofds[o].name = r.name
        <5>1. ~x.write
          BY <1>1, <2>1, <2>3, <4>1 DEF Sole
        <5> QED  BY <1>1, <4>1, <5>1
      <4>2. CASE ofds[o].name # r.name
        BY <1>1, <3>0, <4>2 DEF KernelTyped
      <4> QED  BY <4>1, <4>2
    <3> QED  BY <3>1, <3>2 DEF Landing
  <2>4. \A o \in Ofd : o = d =>
          /\ ofds'[o].name = r.name
          /\ Landing(ofds[o])' = IF "O_APPEND" \in r.flags THEN size'[r.name] ELSE 0
    <3>1. /\ x.append => "O_APPEND" \in r.flags
          /\ ~x.append => ("O_APPEND" \in r.flags => size'[r.name] = 0)
          /\ x.pos = 0
      BY DEF Begun
    <3> QED  BY <1>1, <1>5, <3>1 DEF Landing
  <2> QED  BY <1>1, <1>8, <2>2, <2>3, <2>4 DEF Places
<1> QED  BY <1>1, <1>3, <1>5, <1>6, <1>9, <1>10 DEF Shifts

------------------------------------------------------------------------------
(* What a call does *)

Taken(p, r) ==
  (\E x : Moved(p, r, x)) \/ Rewired(p, r) \/ \E o, x : Begun(p, r, o, x)

LEMMA CalledIs ==
  ASSUME NEW p \in Pid, ThreadInv, NEW r, Called(p, r)
  PROVE  stop'[p].regs = r
<1>1. stop' = [stop EXCEPT ![p] = [Running EXCEPT !.event = "syscall", !.regs = r]]
  BY DEF Called
<1>2. stop = [q \in Pid |-> stop[q]]
  BY DEF ThreadInv
<1>3. stop'[p] = [Running EXCEPT !.event = "syscall", !.regs = r]
  BY <1>1, <1>2
<1> QED  BY <1>3, Events

\* Every step a process takes.
LEMMA CallsTake ==
  ASSUME NEW p, Runs(p), ThreadInv, ProcessStep(p)
  PROVE  \/ \E r : Called(p, r) /\ Taken(p, r)
         \/ \E name \in Name : Unlink(name)
         \/ \E child \in Pid : Fork(p, child)
         \/ "clone" \in use.calls /\ \E thread \in Pid : Clone(p, thread)
         \/ Exec(p) \/ Exit(p) \/ ThreadExit(p)
<1>a. p \in Pid
  BY DEF Runs
<1>b. ASSUME NEW r, Called(p, r), Taken(p, stop'[p].regs)
      PROVE  \E s : Called(p, s) /\ Taken(p, s)
  BY <1>a, <1>b, CalledIs
<1>1. CASE \E nr \in use.calls \cap {"open", "creat"}, name \in Name, flags \in use.flags,
              trunc \in BOOLEAN, mode \in {{}, {"O_APPEND"}} : Open(p, nr, name, flags, trunc, mode)
  <2>1. PICK nr \in {"open", "creat"}, name \in Name, flags \in use.flags,
             trunc \in BOOLEAN, mode \in {{}, {"O_APPEND"}} : Open(p, nr, name, flags, trunc, mode)
    BY <1>1
  <2>2. \E r : Called(p, r)
    BY <2>1, OpenIsCalled
  <2>3. Taken(p, stop'[p].regs)
    BY <2>1, OpenBegins DEF Taken
  <2> QED  BY <1>b, <2>2, <2>3
<1>2. ASSUME NEW nr \in use.calls, NEW fd \in Fd,
             \/ nr = "write" /\ Write(p, fd)
             \/ nr = "pwrite64" /\ \E offset \in 0 .. MaxLength : Pwrite(p, fd, offset)
             \/ nr = "pwrite64" /\ PwriteHere(p, fd)
             \/ nr \in {"ftruncate", "fallocate"}
                /\ \E to \in 0 .. MaxLength, keep \in BOOLEAN : Resize(p, nr, fd, to, keep)
             \/ nr = "lseek" /\ \E pos \in 0 .. MaxLength : Seek(p, fd, pos)
             \/ nr = "close" /\ Close(p, fd)
             \/ nr \in {"dup", "F_DUPFD", "F_DUPFD_CLOEXEC"} /\ Dup(p, nr, fd)
             \/ nr \in {"dup2", "dup3"}
                /\ \E new \in Fd, flags \in {{}, {"O_CLOEXEC"}} : DupTo(p, nr, fd, new, flags)
             \/ nr = "F_SETFD" /\ \E on \in BOOLEAN : SetFdFlag(p, fd, on)
             \/ nr = "F_SETFL" /\ \E append \in BOOLEAN : SetStatusFlags(p, fd, append)
      PROVE  \E r : Called(p, r) /\ Taken(p, r)
  <2>a. SUFFICES (\E r : Called(p, r)) /\ Taken(p, stop'[p].regs)
    BY <1>b
  <2>1. CASE Write(p, fd)
    BY <2>1, WriteIsCalled, WriteMoves DEF Taken
  <2>2. CASE (\E offset \in 0 .. MaxLength : Pwrite(p, fd, offset)) \/ PwriteHere(p, fd)
    <3>1. 0 \in 0 .. MaxLength
      BY LengthsAreSizes
    <3>2. PICK offset \in 0 .. MaxLength : Pwrite(p, fd, offset) \/ PwriteHere(p, fd)
      BY <2>2, <3>1, Zenon
    <3>3. \E r : Called(p, r)
      BY <3>2, PwriteIsCalled
    <3>4. \E x : Moved(p, stop'[p].regs, x)
      BY <3>2, PwriteMoves
    <3> QED  BY <3>3, <3>4 DEF Taken
  <2>3. CASE /\ nr \in {"ftruncate", "fallocate"}
             /\ \E to \in 0 .. MaxLength, keep \in BOOLEAN : Resize(p, nr, fd, to, keep)
    BY <2>3, ResizeIsCalled, ResizeMoves DEF Taken
  <2>4. CASE \E pos \in 0 .. MaxLength : Seek(p, fd, pos)
    BY <2>4, SeekIsCalled, SeekMoves DEF Taken
  <2>5. CASE Close(p, fd)
    BY <2>5, CloseIsCalled, CallsRewire DEF Taken
  <2>6. CASE nr \in {"dup", "F_DUPFD", "F_DUPFD_CLOEXEC"} /\ Dup(p, nr, fd)
    BY <2>6, DupIsCalled, CallsRewire DEF Taken
  <2>7. CASE /\ nr \in {"dup2", "dup3"}
             /\ \E new \in Fd, flags \in {{}, {"O_CLOEXEC"}} : DupTo(p, nr, fd, new, flags)
    BY <2>7, DupToIsCalled, CallsRewire DEF Taken
  <2>8. CASE \E on \in BOOLEAN : SetFdFlag(p, fd, on)
    BY <2>8, SetFdFlagIsCalled, CallsRewire DEF Taken
  <2>9. CASE \E append \in BOOLEAN : SetStatusFlags(p, fd, append)
    BY <2>9, SetStatusFlagsIsCalled, SetStatusFlagsMoves DEF Taken
  <2> QED  BY <1>2, <2>1, <2>2, <2>3, <2>4, <2>5, <2>6, <2>7, <2>8, <2>9, Zenon
<1> QED  BY <1>1, <1>2, Zenon DEF ProcessStep

\* What is kept of positions at every call.
LEMMA CallsShift ==
  ASSUME TypedInv, KernelTyped', NEW p \in Pid, group[p] \in Pid, NEW r, Taken(p, r)
  PROVE  Shifts(p, r)
<1>1. KernelTyped /\ HeldInv
  BY DEF TypedInv
<1> QED  BY <1>1, MovedShifts, RewiredShifts, BegunShifts DEF Taken

------------------------------------------------------------------------------
(* The calls of a process that are still to be handled *)

Pending(g, slots, nrs) ==
  {q \in Calls(g) : stop[q].regs.nr \in nrs /\ stop[q].regs.fd \in slots}

\* Follow, of the table and the calls of a process.
Stands(g, table, busy) ==
  \A e \in table : \A a \in e.slots \ busy : \A o \in Ofd :
    o = kfds[g][a].ofd /\ Sole(o) /\ Pending(g, e.slots, {"lseek"}) = {} =>
      e.file.CurrPos + Cardinality(Pending(g, e.slots, {"write"})) = Landing(ofds[o])

ProgramsKnown ==
  \A g \in Pid : Live(g) \/ stop[g].event = "exec" =>
    /\ g \in Registered /\ group[g] = g /\ Table(g) \in SUBSET Entry
    /\ \A busy : Follow(g, busy) <=> Stands(g, Table(g), busy)

\* Those that share the table of a process that runs are its threads.
LEMMA ProgramsAre == TypedInv /\ LifeInv => ProgramsKnown
<1> SUFFICES ASSUME TypedInv, LifeInv, NEW g \in Pid, Live(g) \/ stop[g].event = "exec"
             PROVE  /\ g \in Registered /\ group[g] = g /\ Table(g) \in SUBSET Entry
                    /\ \A busy : Follow(g, busy) <=> Stands(g, Table(g), busy)
  BY DEF ProgramsKnown
<1>1. g \in Registered /\ group[g] = g /\ KnownInv
  <2>1. CASE Live(g)
    <3>1. PICK q \in Pid : group[q] = g /\ stop[q].event \in {"running", "syscall", "fork", "clone"}
      BY <2>1 DEF Live
    <3>2. stop[q] # Absent
      BY <3>1, Events
    <3> QED  BY <2>1, <3>2, LiveAreKnown, ActorsAreThere DEF TypedInv
  <2>2. CASE stop[g].event = "exec"
    <3>1. stop[g] # Absent /\ stop[g].event # "born"
      BY <2>2, Events
    <3>2. GroupInv /\ KnownInv /\ g \in Registered
      BY <3>1, ActorsAreThere, LeadersAreKnown DEF TypedInv
    <3>3. Members(g) = {g}
      BY <2>2, <3>2 DEF GroupInv
    <3> QED  BY <3>1, <3>2, <3>3, LonersAre DEF TypedInv
  <2> QED  BY <2>1, <2>2
<1>2. Table(g) \in SUBSET Entry
  BY <1>1, TableOfRegistered DEF TypedInv
<1>3. \A q \in Pid : stop[q].event = "syscall" => (ProcMap[q] = ProcMap[g] <=> group[q] = g)
  BY <1>1 DEF KnownInv, Registered
<1>4. \A slots, nrs : Via(ProcMap[g], slots, nrs) = Pending(g, slots, nrs)
  BY <1>3 DEF Via, Pending, Calls
<1>5. \A e : Writes(ProcMap[g], e) = Cardinality(Pending(g, e.slots, {"write"}))
  BY <1>4 DEF Writes
<1>6. \A o : Sole(o) /\ (\E a \in Fd : o = kfds[g][a].ofd) => o \in Ofd
  BY DEF Sole, TypedInv, KernelTyped
<1>7. \A e \in Table(g) : e.slots \subseteq Fd
  BY <1>2 DEF Entry
<1> QED
  <2> SUFFICES ASSUME NEW busy PROVE Follow(g, busy) <=> Stands(g, Table(g), busy)
    BY <1>1, <1>2
  <2>1. ASSUME NEW e \in Table(g), NEW a \in e.slots \ busy
        PROVE  (LET o == kfds[g][a].ofd
                IN  Sole(o) /\ Via(ProcMap[g], e.slots, {"lseek"}) = {} =>
                      e.file.CurrPos + Writes(ProcMap[g], e) = Landing(ofds[o]))
               <=>
               (\A o \in Ofd :
                  o = kfds[g][a].ofd /\ Sole(o) /\ Pending(g, e.slots, {"lseek"}) = {} =>
                    e.file.CurrPos + Cardinality(Pending(g, e.slots, {"write"})) = Landing(ofds[o]))
    <3>1. a \in Fd
      BY <1>7, <2>1
    <3> QED  BY <1>4, <1>5, <1>6, <3>1
  <2> QED  BY <2>1, Zenon DEF Follow, Stands

LEMMA ProgramsAreNext ==
  ASSUME TypedInv', LifeInv'
  PROVE  ProgramsKnown'
BY ProgramsAre, PTL

LEMMA PendingAre ==
  ASSUME NEW g, NEW slots, NEW nrs
  PROVE  /\ IsFiniteSet(Pending(g, slots, nrs))
         /\ Cardinality(Pending(g, slots, nrs)) \in Nat
<1>1. Pending(g, slots, nrs) \subseteq Pid
  BY DEF Pending, Calls
<1> QED  BY <1>1, IdsAssumption, FS_Subset, FS_CardinalityType

------------------------------------------------------------------------------
(* What has been done for a call, of any descriptions *)

SoleIn(o, descriptions) == o # None /\ descriptions[o].write /\ ~descriptions[o].split

LandingIn(o, descriptions, lengths) ==
  IF descriptions[o].append THEN lengths[descriptions[o].name] ELSE descriptions[o].pos

PositionedIn(r, table, fds, descriptions, lengths, gone) ==
  /\ r.nr = "write" => r.ret = 1
  /\ r.nr = "close" => fds[r.fd].ofd = None
  /\ r.nr \in {"open", "creat"} =>
       LET o == fds[r.ret].ofd
       IN  /\ o # None /\ (Follows(r) <=> descriptions[o].write) /\ ~descriptions[o].split
           /\ \A b \in Fd : fds[b].ofd = o => b = r.ret
           /\ \A e \in table : r.ret \in e.slots => e.slots = {r.ret}
           /\ Follows(r) =>
                /\ descriptions[o].name = r.name /\ r.name \notin gone
                /\ LandingIn(o, descriptions, lengths) =
                     IF "O_APPEND" \in r.flags THEN lengths[r.name] ELSE 0
  /\ r.nr \in Dups => fds[r.fd].ofd # None /\ fds[r.ret].ofd = fds[r.fd].ofd
  /\ r.nr = "lseek" =>
       LET o == fds[r.fd].ofd
       IN  o # None /\ (SoleIn(o, descriptions) =>
                          LandingIn(o, descriptions, lengths) = r.ret /\ IntNonNegative(r.ret))

PositionsAreIn ==
  \A r, table, fds :
    Positioned(r, table, fds) <=> PositionedIn(r, table, fds, ofds, size, unlinked)

LEMMA PositionedIs == PositionsAreIn
BY DEF PositionsAreIn, Positioned, PositionedIn, Sole, SoleIn, Landing, LandingIn

LEMMA PositionedIsNext == PositionsAreIn'
BY PositionedIs, PTL

\* The same description, in the same place.
AlikeAt(o, n, descriptions, lengths, newdescriptions, newlengths) ==
  /\ n = o
  /\ o # None =>
       /\ newdescriptions[o].name = descriptions[o].name
       /\ newdescriptions[o].write = descriptions[o].write
       /\ newdescriptions[o].split = descriptions[o].split
       /\ SoleIn(o, descriptions) =>
            LandingIn(o, newdescriptions, newlengths) = LandingIn(o, descriptions, lengths)

LEMMA PositionedNext ==
  ASSUME NEW r, NEW table, NEW fds, NEW descriptions, NEW lengths, NEW gone,
         RegsTyped(r), PositionedIn(r, table, fds, descriptions, lengths, gone),
         NEW newtable, NEW newfds, NEW newdescriptions, NEW newlengths, NEW newgone,
         \A fd \in Slots(r) \cap Fd :
           /\ newfds[fd].ofd = fds[fd].ofd
           /\ r.nr \in {"open", "creat", "lseek"} =>
                AlikeAt(fds[fd].ofd, newfds[fd].ofd, descriptions, lengths,
                        newdescriptions, newlengths),
         r.nr \in {"open", "creat"} =>
           /\ \A b \in Fd : newfds[b].ofd = newfds[r.ret].ofd => b = r.ret
           /\ \A e \in newtable : r.ret \in e.slots => e.slots = {r.ret},
         Follows(r) /\ r.name \notin gone => r.name \notin newgone,
         Follows(r) /\ SoleIn(fds[r.ret].ofd, descriptions) => newlengths[r.name] = lengths[r.name]
  PROVE  PositionedIn(r, newtable, newfds, newdescriptions, newlengths, newgone)
<1>1. CASE r.nr \in {"open", "creat"}
  <2>1. r.ret \in Slots(r) \cap Fd /\ r.nr \notin Dups
    BY <1>1 DEF RegsTyped, NewFd, Slots, Dups
  <2> DEFINE o == fds[r.ret].ofd
  <2>2. AlikeAt(o, newfds[r.ret].ofd, descriptions, lengths, newdescriptions, newlengths)
    BY <1>1, <2>1
  <2>3. /\ o # None /\ (Follows(r) <=> descriptions[o].write) /\ ~descriptions[o].split
        /\ Follows(r) =>
             /\ descriptions[o].name = r.name /\ r.name \notin gone
             /\ LandingIn(o, descriptions, lengths) =
                  IF "O_APPEND" \in r.flags THEN lengths[r.name] ELSE 0
    BY <1>1 DEF PositionedIn
  <2>4. newfds[r.ret].ofd = o
    BY <2>2 DEF AlikeAt
  <2>a. Follows(r) /\ SoleIn(o, descriptions) => newlengths[r.name] = lengths[r.name]
    OBVIOUS
  <2>5. /\ Follows(r) <=> newdescriptions[o].write
        /\ ~newdescriptions[o].split
        /\ Follows(r) =>
             /\ newdescriptions[o].name = r.name
             /\ LandingIn(o, newdescriptions, newlengths) =
                  IF "O_APPEND" \in r.flags THEN newlengths[r.name] ELSE 0
    <3> HIDE DEF o
    <3> QED  BY <2>2, <2>3, <2>a DEF AlikeAt, SoleIn
  <2>6. r.nr \notin {"write", "close", "lseek"}
    BY <1>1
  <2> HIDE DEF o
  <2> QED  BY <1>1, <2>1, <2>3, <2>4, <2>5, <2>6 DEF PositionedIn
<1>2. CASE r.nr \in Dups
  <2>1. {r.fd, r.ret} \subseteq Slots(r) \cap Fd /\ r.nr \notin {"write", "close", "lseek", "open", "creat"}
    BY <1>2 DEF RegsTyped, NewFd, Slots, Dups
  <2>2. newfds[r.fd].ofd = fds[r.fd].ofd /\ newfds[r.ret].ofd = fds[r.ret].ofd
    BY <2>1
  <2> QED  BY <1>2, <2>1, <2>2 DEF PositionedIn
<1>3. CASE r.nr \in {"write", "close", "lseek"}
  <2>1. r.fd \in Slots(r) \cap Fd /\ r.nr \notin Dups \cup {"open", "creat"}
    BY <1>3 DEF RegsTyped, NewFd, Slots, Dups
  <2>2. r.nr = "lseek" =>
          AlikeAt(fds[r.fd].ofd, newfds[r.fd].ofd, descriptions, lengths, newdescriptions, newlengths)
    BY <2>1
  <2>3. newfds[r.fd].ofd = fds[r.fd].ofd
    BY <2>1
  <2> QED  BY <1>3, <2>1, <2>2, <2>3 DEF PositionedIn, AlikeAt, SoleIn
<1>4. CASE r.nr \notin Dups \cup {"open", "creat", "write", "close", "lseek"}
  BY <1>4 DEF PositionedIn
<1> QED  BY <1>1, <1>2, <1>3, <1>4

------------------------------------------------------------------------------
(* A process the step is not about *)

Holds(g, o) == \E fd \in Fd : kfds[g][fd].ofd = o

\* Nothing that has to do with positions changes for a process.
Rests(g) ==
  /\ kfds'[g] = kfds[g]
  /\ \A o \in Ofd : Holds(g, o) =>
       /\ ofds'[o].name = ofds[o].name /\ ofds'[o].write = ofds[o].write
       /\ ofds'[o].split = ofds[o].split
       /\ Sole(o) => Landing(ofds[o])' = Landing(ofds[o])
                     /\ size'[ofds[o].name] = size[ofds[o].name]
  /\ Calls(g)' = Calls(g)
  /\ \A q \in Calls(g) :
       /\ stop'[q] = stop[q] /\ Table(q)' = Table(q)
       /\ Follows(stop[q].regs) /\ stop[q].regs.name \notin unlinked =>
            stop[q].regs.name \notin unlinked'
  /\ Live(g)' => Live(g) /\ Table(g)' = Table(g)
  /\ stop'[g].event = "exec" => stop[g].event = "exec" /\ Table(g)' = Table(g)
  /\ stop'[g].event = "born" /\ group'[g] = g => stop[g].event = "born" /\ group[g] = g

LEMMA SoleStays ==
  ASSUME NEW o, ofds'[o].write = ofds[o].write, ofds'[o].split = ofds[o].split
  PROVE  Sole(o)' <=> Sole(o)
BY DEF Sole

LEMMA RestsStands ==
  ASSUME TypedInv, LifeInv, TypedInv', LifeInv', NEW g \in Pid, StandsOn(g), Rests(g)
  PROVE  StandsOn(g)'
<1>1. /\ kfds'[g] = kfds[g] /\ Calls(g)' = Calls(g)
      /\ \A q \in Calls(g) : stop'[q] = stop[q] /\ Table(q)' = Table(q)
  BY DEF Rests
<1>2. \A o \in Ofd : Holds(g, o) =>
        /\ Sole(o)' <=> Sole(o)
        /\ ofds'[o].name = ofds[o].name /\ ofds'[o].write = ofds[o].write
        /\ ofds'[o].split = ofds[o].split
        /\ Sole(o) => Landing(ofds[o])' = Landing(ofds[o])
                      /\ size'[ofds[o].name] = size[ofds[o].name]
  BY SoleStays DEF Rests
<1>3. \A fd \in Fd : kfds[g][fd].ofd = None \/ (kfds[g][fd].ofd \in Ofd /\ Holds(g, kfds[g][fd].ofd))
  BY DEF TypedInv, KernelTyped, Holds
<1>4. \A fd \in Fd : Sole(kfds[g][fd].ofd)' <=> Sole(kfds[g][fd].ofd)
  <2> TAKE fd \in Fd
  <2>1. kfds'[g][fd].ofd = kfds[g][fd].ofd
    BY <1>1
  <2>2. kfds[g][fd].ofd # None =>
          /\ ofds'[kfds[g][fd].ofd].write = ofds[kfds[g][fd].ofd].write
          /\ ofds'[kfds[g][fd].ofd].split = ofds[kfds[g][fd].ofd].split
    BY <1>2, <1>3
  <2> QED  BY <2>1, <2>2 DEF Sole
<1>5. ProgramsKnown /\ ProgramsKnown'
  BY ProgramsAre, ProgramsAreNext
<1>6. Busy(g)' = Busy(g)
  BY <1>1 DEF Busy
<1>7. \A slots, nrs : Pending(g, slots, nrs)' = Pending(g, slots, nrs)
  BY <1>1 DEF Pending
<1>8. ASSUME NEW table \in SUBSET Entry, NEW busy, Stands(g, table, busy)
      PROVE  \A e \in table : \A a \in e.slots \ busy : \A o \in Ofd :
               o = kfds'[g][a].ofd /\ Sole(o)' /\ Pending(g, e.slots, {"lseek"})' = {} =>
                 e.file.CurrPos + Cardinality(Pending(g, e.slots, {"write"}))' = Landing(ofds[o])'
  <2> SUFFICES ASSUME NEW e \in table, NEW a \in e.slots \ busy, NEW o \in Ofd,
                      o = kfds'[g][a].ofd, Sole(o)', Pending(g, e.slots, {"lseek"})' = {}
               PROVE  e.file.CurrPos + Cardinality(Pending(g, e.slots, {"write"}))' = Landing(ofds[o])'
    OBVIOUS
  <2>1. a \in Fd
    BY DEF Entry
  <2>2. Holds(g, o) /\ o = kfds[g][a].ofd
    BY <1>1, <2>1 DEF Holds
  <2>3. Sole(o) /\ Landing(ofds[o])' = Landing(ofds[o])
    BY <1>2, <2>2
  <2>4. /\ Pending(g, e.slots, {"lseek"}) = {}
        /\ Cardinality(Pending(g, e.slots, {"write"}))' = Cardinality(Pending(g, e.slots, {"write"}))
    BY <1>7
  <2> QED  BY <1>8, <2>2, <2>3, <2>4 DEF Stands
<1>9. \A a, b \in Calls(g)' : a # b => Commute(stop'[a].regs, stop'[b].regs, kfds'[g])
  BY <1>1 DEF StandsOn
<1>10. \A q \in Calls(g)' : Positioned(stop[q].regs, Table(q), kfds[g])'
  <2> SUFFICES ASSUME NEW q \in Calls(g)
               PROVE  Positioned(stop[q].regs, Table(q), kfds[g])'
    BY <1>1
  <2>1. /\ PositionedIn(stop[q].regs, Table(q), kfds[g], ofds, size, unlinked)
        /\ RegsTyped(stop[q].regs)
    BY PositionedIs DEF StandsOn, Calls, TypedInv, CallsTyped, PositionsAreIn
  <2>2. \A fd \in Slots(stop[q].regs) \cap Fd :
          AlikeAt(kfds[g][fd].ofd, kfds'[g][fd].ofd, ofds, size, ofds', size')
    BY <1>1, <1>2, <1>3 DEF AlikeAt, SoleIn, LandingIn, Sole, Landing
  <2>3. PositionedIn(stop[q].regs, Table(q), kfds'[g], ofds', size', unlinked')
    <3>1. Follows(stop[q].regs) /\ stop[q].regs.name \notin unlinked =>
            stop[q].regs.name \notin unlinked'
      BY DEF Rests
    <3>2. \A b \in Fd : kfds'[g][b].ofd = kfds[g][b].ofd
      BY <1>1
    <3>3. stop[q].regs.nr \in {"open", "creat"} =>
            /\ stop[q].regs.ret \in Fd
            /\ \A b \in Fd : kfds[g][b].ofd = kfds[g][stop[q].regs.ret].ofd => b = stop[q].regs.ret
            /\ \A e \in Table(q) : stop[q].regs.ret \in e.slots => e.slots = {stop[q].regs.ret}
      BY <2>1 DEF PositionedIn, RegsTyped, NewFd
    <3>4. stop[q].regs.nr \in {"open", "creat"} =>
            /\ \A b \in Fd : kfds'[g][b].ofd = kfds'[g][stop[q].regs.ret].ofd => b = stop[q].regs.ret
            /\ \A e \in Table(q) : stop[q].regs.ret \in e.slots => e.slots = {stop[q].regs.ret}
      BY <3>2, <3>3
    <3>5. Follows(stop[q].regs) /\ SoleIn(kfds[g][stop[q].regs.ret].ofd, ofds) =>
            size'[stop[q].regs.name] = size[stop[q].regs.name]
      <4> SUFFICES ASSUME Follows(stop[q].regs), SoleIn(kfds[g][stop[q].regs.ret].ofd, ofds)
                   PROVE  size'[stop[q].regs.name] = size[stop[q].regs.name]
        OBVIOUS
      <4>1. stop[q].regs.nr \in {"open", "creat"}
        BY DEF Follows
      <4>2. ofds[kfds[g][stop[q].regs.ret].ofd].name = stop[q].regs.name
        BY <2>1, <4>1 DEF PositionedIn
      <4>3. stop[q].regs.ret \in Fd
        BY <3>3, <4>1
      <4> QED  BY <1>2, <1>3, <4>2, <4>3 DEF Sole, SoleIn
    <3>6. \A fd \in Slots(stop[q].regs) \cap Fd : kfds'[g][fd].ofd = kfds[g][fd].ofd
      BY <3>2
    <3> QED  BY <2>1, <2>2, <3>1, <3>4, <3>5, <3>6, PositionedNext
  <2>4. PositionedIn(stop'[q].regs, Table(q)', kfds'[g], ofds', size', unlinked')
    BY <1>1, <2>3
  <2> QED  BY <2>4, PositionedIsNext DEF PositionsAreIn
<1>11. Live(g)' => Grouped(Table(g), kfds[g], Busy(g))' /\ Follow(g, Busy(g))'
  <2> SUFFICES ASSUME Live(g)'
               PROVE  Grouped(Table(g), kfds[g], Busy(g))' /\ Follow(g, Busy(g))'
    OBVIOUS
  <2>1. Live(g) /\ Table(g)' = Table(g)
    BY DEF Rests
  <2>2. Grouped(Table(g), kfds[g], Busy(g)) /\ Follow(g, Busy(g)) /\ Table(g) \in SUBSET Entry
    BY <1>5, <2>1 DEF StandsOn, ProgramsKnown
  <2>3. Grouped(Table(g), kfds[g], Busy(g))'
    BY <1>1, <1>4, <1>6, <2>1, <2>2 DEF Grouped
  <2>4. Stands(g, Table(g), Busy(g))
    BY <1>5, <2>1, <2>2 DEF ProgramsKnown
  <2>a. \A e \in Table(g) : \A a \in e.slots \ Busy(g) : \A o \in Ofd :
          o = kfds'[g][a].ofd /\ Sole(o)' /\ Pending(g, e.slots, {"lseek"})' = {} =>
            e.file.CurrPos + Cardinality(Pending(g, e.slots, {"write"}))' = Landing(ofds[o])'
    BY <1>8, <2>2, <2>4
  <2>5. Stands(g, Table(g), Busy(g))'
    BY <1>6, <2>1, <2>a DEF Stands
  <2> QED  BY <1>5, <2>3, <2>5 DEF ProgramsKnown
<1>12. stop'[g].event = "exec" =>
         /\ Follow(g, {})'
         /\ \A a, b \in Fd : Sole(kfds[g][a].ofd)' /\ kfds'[g][b].ofd = kfds'[g][a].ofd => a = b
  <2> SUFFICES ASSUME stop'[g].event = "exec"
               PROVE  /\ Follow(g, {})'
                      /\ \A a, b \in Fd :
                           Sole(kfds[g][a].ofd)' /\ kfds'[g][b].ofd = kfds'[g][a].ofd => a = b
    OBVIOUS
  <2>1. stop[g].event = "exec" /\ Table(g)' = Table(g)
    BY DEF Rests
  <2>2. Follow(g, {}) /\ Table(g) \in SUBSET Entry
    BY <1>5, <2>1 DEF StandsOn, ProgramsKnown
  <2>3. Stands(g, Table(g), {})
    BY <1>5, <2>1, <2>2 DEF ProgramsKnown
  <2>a. \A e \in Table(g) : \A a \in e.slots \ {} : \A o \in Ofd :
          o = kfds'[g][a].ofd /\ Sole(o)' /\ Pending(g, e.slots, {"lseek"})' = {} =>
            e.file.CurrPos + Cardinality(Pending(g, e.slots, {"write"}))' = Landing(ofds[o])'
    BY <1>8, <2>2, <2>3
  <2>4. Stands(g, Table(g), {})'
    BY <2>1, <2>a DEF Stands
  <2>5. Follow(g, {})'
    BY <1>5, <2>4 DEF ProgramsKnown
  <2> QED  BY <1>1, <1>4, <2>1, <2>5 DEF StandsOn
<1>13. stop'[g].event = "born" /\ group'[g] = g => \A fd \in Fd : ~Sole(kfds[g][fd].ofd)'
  BY <1>4 DEF StandsOn, Rests
<1> QED  BY <1>9, <1>10, <1>11, <1>12, <1>13 DEF StandsOn

------------------------------------------------------------------------------
(* A call is made *)

\* What the process the thread belongs to has under way then.
Making(p, r, g) ==
  /\ g \in Pid /\ group[p] = g /\ group[g] = g /\ RegsTyped(r) /\ Carried(p, r)
  /\ Calls(g)' = Calls(g) \cup {p} /\ p \notin Calls(g) /\ stop'[p].regs = r
  /\ stop[p].event = "running" /\ stop'[p].event = "syscall"
  /\ \A q \in Pid \ {p} : stop'[q] = stop[q]
  /\ \A q \in Calls(g) :
       /\ q \in Pid /\ stop'[q] = stop[q] /\ RegsTyped(stop[q].regs)
       /\ Apart(stop[q].regs, r) /\ Apart(r, stop[q].regs)
       /\ {r.nr, stop[q].regs.nr} \in {{"lseek"}, {"lseek", "write"}} =>
            kfds[g][r.fd].ofd # kfds[g][stop[q].regs.fd].ofd
  /\ Live(g) /\ Table(g) \in SUBSET Entry
  /\ Table(p) = Table(g) /\ \A q : Table(q)' = Table(q)
  /\ UNCHANGED <<group, unlinked>>
  /\ \A fd \in Fd \ Changes(r) :
       /\ kfds'[g][fd].ofd = kfds[g][fd].ofd
       /\ kfds[g][fd].ofd = None \/ (kfds[g][fd].ofd \in Ofd /\ Stays(kfds[g][fd].ofd))
  /\ \A fd : fd \in Busy(g)' <=> fd \in Busy(g) \/ fd \in Changes(r)
  /\ Busy(g) \cap Slots(r) = {}
  /\ \A q \in Calls(g) : Changes(r) \cap Slots(stop[q].regs) = {}

LEMMA CalledMakes ==
  ASSUME TypedInv, LifeInv, NEW p \in Pid, NEW r, Called(p, r), NEW g \in Pid, group[p] = g,
         "race" \notin quirks'
  PROVE  Making(p, r, g)
<1> DEFINE s == [Running EXCEPT !.event = "syscall", !.regs = r]
<1>1. /\ stop[p] = Running /\ UNCHANGED <<contextVars, use, group, unlinked>>
      /\ stop' = [stop EXCEPT ![p] = s]
      /\ ~Races(p, r) /\ RegsTyped(r)
      /\ \A fd \in Fd \ Changes(r) : kfds'[g][fd].ofd = kfds[g][fd].ofd
      /\ Carried(p, r)
  BY DEF Called
<1>2. s.event = "syscall" /\ s.regs = r /\ stop[p].event = "running" /\ stop[p] # Absent
  BY <1>1, Events
<1> HIDE DEF s
<1>3. /\ \A q \in Pid : stop'[q] = IF q = p THEN s ELSE stop[q]
      /\ group' = group /\ ProcMap' = ProcMap /\ Fds' = Fds
  BY <1>1 DEF LifeInv, ThreadInv, contextVars
<1>4. /\ group[g] = g /\ Table(g) = Table(p) /\ Table(p) \in SUBSET Entry
      /\ \A q : Table(q)' = Table(q)
  BY <1>2, <1>3, ActorsAreThere, LeadersAreKnown, TableOfRegistered DEF TypedInv, Table
<1>5. Calls(g)' = Calls(g) \cup {p} /\ p \notin Calls(g)
  BY <1>2, <1>3 DEF Calls
<1>6. \A q \in Calls(g) : q \in Pid /\ q # p /\ group[q] = g /\ stop'[q] = stop[q]
                          /\ RegsTyped(stop[q].regs)
  BY <1>3, <1>5 DEF Calls, TypedInv, CallsTyped
<1>7. \A q \in Calls(g) :
        /\ Apart(stop[q].regs, r) /\ Apart(r, stop[q].regs)
        /\ {r.nr, stop[q].regs.nr} \in {{"lseek"}, {"lseek", "write"}} =>
             kfds[g][r.fd].ofd # kfds[g][stop[q].regs.fd].ofd
  <2> TAKE q \in Calls(g)
  <2>1. q \in Members(p) \ {p} /\ stop[q].event = "syscall"
    BY <1>6, Events DEF Members, Calls
  <2>2. ~Conflict(p, r, stop[q].regs)
    BY <1>1, <2>1 DEF Races
  <2>3. Slots(r) \cap Slots(stop[q].regs) = {} \/ {r.nr, stop[q].regs.nr} = {"write"}
    BY <2>2 DEF Conflict
  <2>4. Apart(stop[q].regs, r) /\ Apart(r, stop[q].regs)
    BY <2>3 DEF Apart
  <2> QED  BY <2>2, <2>4 DEF Conflict, Descriptors
<1>8. Live(g)
  BY <1>2, <1>4 DEF Live
<1>9. \A fd : fd \in Busy(g)' <=> fd \in Busy(g) \/ fd \in Changes(r)
  <2>1. \A fd : fd \in Busy(g)' <=> \E q \in Calls(g)' : fd \in Changes(stop'[q].regs)
    BY DEF Busy
  <2>2. stop'[p].regs = r /\ \A q \in Calls(g) : stop'[q].regs = stop[q].regs
    BY <1>2, <1>3, <1>6
  <2>3. \A fd : fd \in Busy(g) <=> \E q \in Calls(g) : fd \in Changes(stop[q].regs)
    BY BusyIs
  <2> QED  BY <1>5, <2>1, <2>2, <2>3
<1>10. /\ Busy(g) \cap Slots(r) = {}
       /\ \A q \in Calls(g) : Changes(r) \cap Slots(stop[q].regs) = {}
  <2>1. \A q \in Calls(g) : /\ Changes(stop[q].regs) \cap Slots(r) = {}
                            /\ Changes(r) \cap Slots(stop[q].regs) = {}
    BY <1>7, ApartSlots
  <2>2. \A fd : fd \in Busy(g) <=> \E q \in Calls(g) : fd \in Changes(stop[q].regs)
    BY BusyIs
  <2> QED  BY <2>1, <2>2
<1>11. \A fd \in Fd \ Changes(r) :
         /\ kfds'[g][fd].ofd = kfds[g][fd].ofd
         /\ kfds[g][fd].ofd = None \/ (kfds[g][fd].ofd \in Ofd /\ Stays(kfds[g][fd].ofd))
  <2> TAKE fd \in Fd \ Changes(r)
  <2>1. kfds'[g][fd].ofd = kfds[g][fd].ofd
    BY <1>1
  <2>2. kfds[g][fd].ofd \in Ofd \cup {None}
    BY DEF TypedInv, KernelTyped
  <2> QED  BY <2>1, <2>2 DEF Stays
<1>12. /\ stop'[p].regs = r /\ stop'[p].event = "syscall" /\ stop[p].event = "running"
       /\ \A q \in Pid \ {p} : stop'[q] = stop[q]
  BY <1>2, <1>3
<1>13. UNCHANGED <<group, unlinked>> /\ RegsTyped(r) /\ Carried(p, r)
  BY <1>1, Zenon
<1>14. \A q \in Calls(g) :
         /\ q \in Pid /\ stop'[q] = stop[q] /\ RegsTyped(stop[q].regs)
         /\ Apart(stop[q].regs, r) /\ Apart(r, stop[q].regs)
         /\ {r.nr, stop[q].regs.nr} \in {{"lseek"}, {"lseek", "write"}} =>
              kfds[g][r.fd].ofd # kfds[g][stop[q].regs.fd].ofd
  BY <1>6, <1>7, Zenon
<1>15. Table(g) \in SUBSET Entry /\ Table(p) = Table(g)
  BY <1>4
<1> QED
  BY <1>4, <1>5, <1>8, <1>9, <1>10, <1>11, <1>12, <1>13, <1>14, <1>15, Zenon DEF Making

\* No slot of a call still to be handled is what the new one moves.
LEMMA NothingTouched ==
  ASSUME NEW p, NEW r, NEW g, Making(p, r, g), Shifts(p, r), Places(p, r),
         NEW fd \in Fd, fd \notin Changes(r), NEW o, o = kfds[g][fd].ofd, o # None,
         Sole(o) => o # Touched(p, r) \/ Lands(r, Landing(ofds[o])) = Landing(ofds[o])
  PROVE  /\ AlikeAt(o, kfds'[g][fd].ofd, ofds, size, ofds', size')
         /\ Sole(o) /\ o # Touched(p, r) => size'[ofds[o].name] = size[ofds[o].name]
<1>1. o \in Ofd /\ Stays(o) /\ kfds'[g][fd].ofd = o
  BY DEF Making
<1>2. /\ ofds'[o].split = ofds[o].split /\ ofds'[o].write = ofds[o].write
      /\ ofds'[o].name = ofds[o].name
  BY <1>1 DEF Shifts
<1>3. Sole(o) => Landing(ofds[o])' = Landing(ofds[o])
  BY <1>1 DEF Places
<1>4. Sole(o) /\ o # Touched(p, r) => size'[ofds[o].name] = size[ofds[o].name]
  BY <1>1 DEF Places
<1> QED  BY <1>1, <1>2, <1>3, <1>4 DEF AlikeAt, LandingIn, Landing, Sole, SoleIn

\* A call still to be handled has been done in the same place.
LEMMA EarlierPositioned ==
  ASSUME NEW p, NEW r, NEW g, Making(p, r, g), Shifts(p, r), Places(p, r), RegsTyped(r),
         NEW q \in Calls(g), Positioned(stop[q].regs, Table(q), kfds[g])
  PROVE  PositionedIn(stop[q].regs, Table(q), kfds'[g], ofds', size', unlinked')
<1> DEFINE s == stop[q].regs
<1>1. /\ RegsTyped(s) /\ PositionedIn(s, Table(q), kfds[g], ofds, size, unlinked)
      /\ Apart(s, r) /\ Apart(r, s) /\ Changes(r) \cap Slots(s) = {} /\ unlinked' = unlinked
      /\ {r.nr, s.nr} \in {{"lseek"}, {"lseek", "write"}} => kfds[g][r.fd].ofd # kfds[g][s.fd].ofd
      /\ group[p] = g
  BY PositionedIs DEF Making, PositionsAreIn
<1> HIDE DEF s
<1>2. Slots(s) \cap Fd \subseteq Fd \ Changes(r)
  BY <1>1
<1>3. Touched(p, r) # None => /\ r.nr \in Moves \cup {"F_SETFL"} /\ r.fd \in Fd \cap Slots(r)
                              /\ Touched(p, r) = kfds[g][r.fd].ofd
                              /\ Changes(r) = {}
  BY <1>1 DEF Touched, RegsTyped, Moves, Slots, NewFd, Changes, Dups
<1>4. ASSUME s.nr \in {"open", "creat"}
      PROVE  /\ s.ret \in Fd \cap Slots(s) /\ s.ret \notin Slots(r)
             /\ kfds[g][s.ret].ofd # None
             /\ kfds[g][s.ret].ofd # Touched(p, r)
             /\ \A b \in Fd : kfds[g][b].ofd = kfds[g][s.ret].ofd => b = s.ret
  <2>1. s.ret \in Fd \cap Slots(s) /\ s.nr # "write"
    BY <1>1, <1>4 DEF RegsTyped, NewFd, Slots
  <2>2. s.ret \notin Slots(r)
    BY <1>1, <2>1 DEF Apart
  <2>3. /\ kfds[g][s.ret].ofd # None
        /\ \A b \in Fd : kfds[g][b].ofd = kfds[g][s.ret].ofd => b = s.ret
    BY <1>1, <1>4 DEF PositionedIn
  <2> QED  BY <1>3, <2>1, <2>2, <2>3
<1>5. \A fd \in Slots(s) \cap Fd : kfds'[g][fd].ofd = kfds[g][fd].ofd
  BY <1>2 DEF Making
<1>6. ASSUME NEW fd \in Slots(s) \cap Fd, s.nr \in {"open", "creat", "lseek"}
      PROVE  /\ AlikeAt(kfds[g][fd].ofd, kfds'[g][fd].ofd, ofds, size, ofds', size')
             /\ s.nr \in {"open", "creat"} /\ Sole(kfds[g][fd].ofd) =>
                  size'[ofds[kfds[g][fd].ofd].name] = size[ofds[kfds[g][fd].ofd].name]
  <2> SUFFICES ASSUME NEW o, o = kfds[g][fd].ofd
               PROVE  /\ AlikeAt(o, kfds'[g][fd].ofd, ofds, size, ofds', size')
                      /\ s.nr \in {"open", "creat"} /\ Sole(o) =>
                           size'[ofds[o].name] = size[ofds[o].name]
    OBVIOUS
  <2>1. CASE o = None
    BY <1>5, <2>1 DEF AlikeAt, Sole
  <2>2. CASE o # None
    <3>1. s.nr \in {"open", "creat"} => fd = s.ret
      BY DEF Slots, NewFd
    <3>2. s.nr \in {"open", "creat"} => o # Touched(p, r)
      BY <1>4, <3>1
    <3>3. s.nr = "lseek" => o # Touched(p, r) \/ Lands(r, Landing(ofds[o])) = Landing(ofds[o])
      <4> SUFFICES ASSUME s.nr = "lseek", o = Touched(p, r)
                   PROVE  r.nr \notin {"write", "lseek"}
        BY DEF Lands
      <4>1. fd = s.fd
        BY DEF Slots, NewFd
      <4>2. kfds[g][r.fd].ofd = kfds[g][s.fd].ofd
        BY <1>3, <2>2, <4>1
      <4> QED  BY <1>1, <4>2
    <3>4. fd \notin Changes(r)
      BY <1>2
    <3> QED  BY <1>6, <2>2, <3>2, <3>3, <3>4, NothingTouched
  <2> QED  BY <2>1, <2>2
<1>7. s.nr \in {"open", "creat"} =>
        /\ \A b \in Fd : kfds'[g][b].ofd = kfds'[g][s.ret].ofd => b = s.ret
        /\ \A e \in Table(q) : s.ret \in e.slots => e.slots = {s.ret}
  <2> SUFFICES ASSUME s.nr \in {"open", "creat"}, NEW b \in Fd,
                      kfds'[g][b].ofd = kfds'[g][s.ret].ofd
               PROVE  b = s.ret
    BY <1>1 DEF PositionedIn
  <2>1. /\ s.ret \in Fd \cap Slots(s) /\ s.ret \notin Slots(r) /\ kfds[g][s.ret].ofd # None
        /\ kfds'[g][s.ret].ofd = kfds[g][s.ret].ofd
        /\ \A c \in Fd : kfds[g][c].ofd = kfds[g][s.ret].ofd => c = s.ret
    BY <1>4, <1>5
  <2>2. CASE b \notin Changes(r)
    BY <2>1, <2>2 DEF Making
  <2>3. CASE r.nr = "close" /\ b = r.fd
    BY <1>1, <2>1, <2>3 DEF Making, Carried
  <2>4. CASE r.nr \in {"open", "creat"} /\ b = r.ret
    <3>1. kfds[g][s.ret].ofd \in Ofd
      BY <1>2, <2>1 DEF Making
    <3>2. ~Refers(kfds, kfds[g][s.ret].ofd)
      BY <1>1, <2>1, <2>4, <3>1 DEF Shifts
    <3> QED  BY <2>1, <3>2 DEF Refers, Making
  <2>5. CASE r.nr \in Dups /\ b = r.ret /\ b # r.fd
    <3>1. r.fd \in Fd \cap Slots(r) /\ r.fd \notin Changes(r)
      BY <2>5 DEF RegsTyped, NewFd, Slots, Dups, Changes
    <3>2. kfds'[g][r.ret].ofd = kfds'[g][r.fd].ofd
      BY <1>1, <2>5 DEF Making, Carried, Dups
    <3>3. kfds'[g][r.fd].ofd = kfds[g][r.fd].ofd
      BY <3>1 DEF Making
    <3> QED  BY <2>1, <2>5, <3>1, <3>2, <3>3
  <2> QED  BY <2>2, <2>3, <2>4, <2>5 DEF Changes
<1>8. Follows(s) /\ SoleIn(kfds[g][s.ret].ofd, ofds) => size'[s.name] = size[s.name]
  <2> SUFFICES ASSUME Follows(s), SoleIn(kfds[g][s.ret].ofd, ofds)
               PROVE  size'[s.name] = size[s.name]
    OBVIOUS
  <2>1. s.nr \in {"open", "creat"}
    BY DEF Follows
  <2>2. ofds[kfds[g][s.ret].ofd].name = s.name
    BY <1>1, <2>1 DEF PositionedIn
  <2>3. s.ret \in Fd \cap Slots(s)
    BY <1>4, <2>1
  <2> QED  BY <1>6, <2>1, <2>2, <2>3 DEF Sole, SoleIn
<1>9. PositionedIn(s, Table(q), kfds'[g], ofds', size', unlinked')
  BY <1>1, <1>5, <1>6, <1>7, <1>8, PositionedNext
<1> QED  BY <1>9 DEF s

\* The call itself.
LEMMA LatestPositioned ==
  ASSUME TypedInv', NEW p, NEW r, NEW g, Making(p, r, g), Shifts(p, r), Places(p, r),
         Grouped(Table(g), kfds[g], Busy(g))
  PROVE  PositionedIn(r, Table(p), kfds'[g], ofds', size', unlinked')
<1>1. RegsTyped(r) /\ Carried(p, r) /\ group[p] = g /\ g \in Pid /\ Table(p) = Table(g)
  BY DEF Making
<1>2. CASE r.nr \in {"open", "creat"}
  <2>1. r.ret \in Fd \cap Slots(r) /\ r.nr \notin Dups /\ Changes(r) = {r.ret}
    BY <1>1, <1>2 DEF RegsTyped, NewFd, Slots, Dups, Changes
  <2> SUFFICES ASSUME NEW o, o = kfds'[g][r.ret].ofd
               PROVE  PositionedIn(r, Table(p), kfds'[g], ofds', size', unlinked')
    OBVIOUS
  <2>2. kfds[g][r.ret].ofd = None /\ o # None /\ o \in Ofd
    BY <1>1, <1>2, <2>1 DEF Carried, TypedInv, KernelTyped
  <2>3. ~Refers(kfds, o) /\ ~ofds'[o].split /\ (ofds'[o].write <=> Follows(r))
    BY <1>1, <1>2, <2>2 DEF Shifts
  <2>4. \A b \in Fd : kfds'[g][b].ofd = o => b = r.ret
    BY <1>1, <2>1, <2>3 DEF Refers, Making
  <2>5. \A e \in Table(g) : r.ret \in e.slots => e.slots = {r.ret}
    <3>1. r.ret \notin Busy(g)
      BY <2>1 DEF Making
    <3> QED  BY <2>2, <3>1 DEF Grouped
  <2>6. Follows(r) =>
          /\ ofds'[o].name = r.name /\ r.name \notin unlinked'
          /\ LandingIn(o, ofds', size') = IF "O_APPEND" \in r.flags THEN size'[r.name] ELSE 0
    BY <1>1, <2>2 DEF Places, Making, LandingIn, Landing
  <2> QED  BY <1>1, <1>2, <2>1, <2>2, <2>3, <2>4, <2>5, <2>6 DEF PositionedIn
<1>3. CASE r.nr = "lseek"
  <2>1. r.fd \in Fd /\ r.nr \in Moves /\ Changes(r) = {} /\ r.nr \notin Dups
    BY <1>1, <1>3 DEF RegsTyped, Moves, Changes, Dups, NewFd
  <2> SUFFICES ASSUME NEW o, o = kfds[g][r.fd].ofd
               PROVE  PositionedIn(r, Table(p), kfds'[g], ofds', size', unlinked')
    OBVIOUS
  <2>2. o # None /\ o = kfds'[g][r.fd].ofd /\ o \in Ofd /\ Stays(o)
    BY <1>1, <2>1 DEF Places, Making
  <2>3. Touched(p, r) = o
    BY <1>1, <2>1 DEF Touched
  <2>4. SoleIn(o, ofds') => Sole(o)
    BY <2>2 DEF Shifts, SoleIn, Sole
  <2>5. Sole(o) => Landing(ofds[o])' = r.ret /\ IntNonNegative(r.ret)
    BY <1>3, <2>2, <2>3 DEF Places, Lands
  <2> QED  BY <1>3, <2>1, <2>2, <2>4, <2>5 DEF PositionedIn, LandingIn, Landing
<1>4. CASE r.nr \in {"write", "close"} \cup Dups
  <2>1. r.nr \notin {"open", "creat", "lseek"}
    BY <1>4 DEF Dups, NewFd
  <2> QED  BY <1>1, <1>4, <2>1 DEF PositionedIn, Places, Carried, Dups, NewFd
<1>5. CASE r.nr \notin {"open", "creat", "lseek", "write", "close"} \cup Dups
  BY <1>5 DEF PositionedIn
<1> QED  BY <1>2, <1>3, <1>4, <1>5

\* The table keeps up with the descriptors.
LEMMA MakingStands ==
  ASSUME TypedInv, LifeInv, TypedInv', LifeInv',
         NEW p, p \in Pid, NEW r, NEW g, Making(p, r, g), Shifts(p, r), Places(p, r),
         Grouped(Table(g), kfds[g], Busy(g)), Follow(g, Busy(g))
  PROVE  Grouped(Table(g), kfds[g], Busy(g))' /\ (Live(g)' => Follow(g, Busy(g))')
<1>1. /\ Table(g)' = Table(g) /\ Table(g) \in SUBSET Entry /\ group[p] = g /\ g \in Pid
      /\ RegsTyped(r)
      /\ \A fd : fd \in Busy(g)' <=> fd \in Busy(g) \/ fd \in Changes(r)
      /\ \A fd \in Fd \ Changes(r) :
           /\ kfds'[g][fd].ofd = kfds[g][fd].ofd
           /\ kfds[g][fd].ofd = None \/ (kfds[g][fd].ofd \in Ofd /\ Stays(kfds[g][fd].ofd))
  BY DEF Making
<1>2. \A e \in Table(g) : e.slots \subseteq Fd
  BY <1>1 DEF Entry
<1>3. \A fd \in Fd \ Changes(r) : SoleIn(kfds'[g][fd].ofd, ofds') <=> SoleIn(kfds[g][fd].ofd, ofds)
  BY <1>1 DEF Shifts, SoleIn
<1>4. Grouped(Table(g), kfds[g], Busy(g))'
  <2> SUFFICES ASSUME NEW e \in Table(g), NEW a \in e.slots, a \notin Busy(g)'
               PROVE  /\ kfds'[g][a].ofd = None => e.slots = {a}
                      /\ \A b \in e.slots \ Busy(g)' : kfds'[g][b].ofd = kfds'[g][a].ofd
                      /\ \A b \in Fd \ Busy(g)' :
                           SoleIn(kfds'[g][a].ofd, ofds') /\ kfds'[g][b].ofd = kfds'[g][a].ofd =>
                             b \in e.slots
    BY <1>1 DEF Grouped, Sole, SoleIn
  <2>1. a \in Fd \ Changes(r) /\ a \notin Busy(g)
    BY <1>1, <1>2
  <2>2. /\ kfds[g][a].ofd = None => e.slots = {a}
        /\ \A b \in e.slots \ Busy(g) : kfds[g][b].ofd = kfds[g][a].ofd
        /\ \A b \in Fd \ Busy(g) :
             SoleIn(kfds[g][a].ofd, ofds) /\ kfds[g][b].ofd = kfds[g][a].ofd => b \in e.slots
    BY <2>1 DEF Grouped, Sole, SoleIn
  <2> QED  BY <1>1, <1>2, <1>3, <2>1, <2>2
<1>5. Live(g)' => Follow(g, Busy(g))'
  <2> SUFFICES ASSUME Live(g)' PROVE Follow(g, Busy(g))'
    OBVIOUS
  <2>1. ProgramsKnown /\ ProgramsKnown' /\ Live(g)
    BY ProgramsAre, ProgramsAreNext DEF Making
  <2>2. Stands(g, Table(g), Busy(g))
    BY <1>1, <2>1 DEF ProgramsKnown
  <2>3. ASSUME NEW e \in Table(g), NEW a \in e.slots, a \notin Busy(g)', NEW o \in Ofd,
               o = kfds'[g][a].ofd, Sole(o)', Pending(g, e.slots, {"lseek"})' = {}
        PROVE  e.file.CurrPos + Cardinality(Pending(g, e.slots, {"write"}))' = Landing(ofds[o])'
    <3>1. a \in Fd \ Changes(r) /\ a \notin Busy(g)
      BY <1>1, <1>2, <2>3
    <3>2. o = kfds[g][a].ofd /\ o # None /\ Stays(o)
      BY <1>1, <2>3, <3>1 DEF Sole
    <3>3. Sole(o)
      BY <2>3, <3>2 DEF Shifts, Sole
    <3>4. \A nrs : Pending(g, e.slots, nrs)' =
                     Pending(g, e.slots, nrs) \cup
                       (IF r.nr \in nrs /\ r.fd \in e.slots THEN {p} ELSE {})
      BY DEF Pending, Making
    <3>5. Pending(g, e.slots, {"lseek"}) = {} /\ ~(r.nr = "lseek" /\ r.fd \in e.slots)
      BY <2>3, <3>4
    <3>6. e.file.CurrPos + Cardinality(Pending(g, e.slots, {"write"})) = Landing(ofds[o])
      BY <2>2, <3>1, <3>2, <3>3, <3>5 DEF Stands
    <3>7. r.nr \in Moves \cup {"F_SETFL"} =>
            /\ r.fd \in Fd /\ r.fd \notin Busy(g) /\ Touched(p, r) = kfds[g][r.fd].ofd
      BY <1>1 DEF RegsTyped, Making, Moves, Slots, NewFd, Touched
    <3>8. CASE r.nr = "write" /\ r.fd \in e.slots
      <4>1. Touched(p, r) = o
        BY <3>1, <3>2, <3>7, <3>8 DEF Moves, Grouped
      <4>2. Landing(ofds[o])' = Landing(ofds[o]) + 1
        BY <3>3, <3>8, <4>1 DEF Places, Lands
      <4>3. /\ Pending(g, e.slots, {"write"})' = Pending(g, e.slots, {"write"}) \cup {p}
            /\ p \notin Pending(g, e.slots, {"write"})
        BY <3>4, <3>8 DEF Pending, Making
      <4>4. Cardinality(Pending(g, e.slots, {"write"}))' =
              Cardinality(Pending(g, e.slots, {"write"})) + 1
        BY <4>3, PendingAre, FS_AddElement
      <4>5. e.file.CurrPos \in Nat /\ Cardinality(Pending(g, e.slots, {"write"})) \in Nat
        BY <1>1, PendingAre DEF Entry, TFileState, Size
      <4> QED  BY <3>6, <4>2, <4>4, <4>5
    <3>9. CASE ~(r.nr = "write" /\ r.fd \in e.slots)
      <4>1. Pending(g, e.slots, {"write"})' = Pending(g, e.slots, {"write"})
        <5>1. (IF r.nr \in {"write"} /\ r.fd \in e.slots THEN {p} ELSE {}) = {}
          BY <3>9
        <5>2. Pending(g, e.slots, {"write"})' = Pending(g, e.slots, {"write"}) \cup {}
          BY <3>4, <5>1
        <5> QED  BY <5>2
      <4>2. Landing(ofds[o])' = Landing(ofds[o])
        <5>1. CASE o # Touched(p, r)
          BY <3>2, <3>3, <5>1 DEF Places
        <5>2. CASE o = Touched(p, r)
          <6>1. r.nr \in Moves \cup {"F_SETFL"}
            BY <3>2, <5>2 DEF Touched
          <6>2. r.fd \in e.slots
            <7>1. /\ r.fd \in Fd \ Busy(g) /\ kfds[g][r.fd].ofd = kfds[g][a].ofd
                  /\ Sole(kfds[g][a].ofd) /\ a \in e.slots \ Busy(g)
              BY <3>1, <3>2, <3>3, <3>7, <5>2, <6>1
            <7> QED  BY <7>1, Zenon DEF Grouped
          <6>3. r.nr \notin {"write", "lseek"}
            BY <3>5, <3>9, <6>2
          <6> QED  BY <3>3, <5>2, <6>3 DEF Places, Lands
        <5> QED  BY <5>1, <5>2
      <4> QED  BY <3>6, <4>1, <4>2
    <3> QED  BY <3>8, <3>9
  <2>a. \A e \in Table(g) : \A a \in e.slots \ Busy(g)' : \A o \in Ofd :
          o = kfds'[g][a].ofd /\ Sole(o)' /\ Pending(g, e.slots, {"lseek"})' = {} =>
            e.file.CurrPos + Cardinality(Pending(g, e.slots, {"write"}))' = Landing(ofds[o])'
    BY <2>3
  <2>b. Table(g)' = Table(g)
    BY <1>1
  <2>4. Stands(g, Table(g), Busy(g))'
    BY <2>a, <2>b DEF Stands
  <2>5. g \in Pid
    BY <1>1
  <2> QED  BY <2>1, <2>4, <2>5 DEF ProgramsKnown
<1> QED  BY <1>4, <1>5

\* The process the thread belongs to.
LEMMA CalledStands ==
  ASSUME TypedInv, LifeInv, TypedInv', LifeInv', NEW p \in Pid, NEW r, NEW g, Making(p, r, g),
         Shifts(p, r), Places(p, r), StandsOn(g)
  PROVE  StandsOn(g)'
<1>1. /\ g \in Pid /\ group[g] = g /\ group[p] = g /\ Live(g)
      /\ Calls(g)' = Calls(g) \cup {p} /\ p \notin Calls(g) /\ stop'[p].regs = r
      /\ stop[p].event = "running" /\ stop'[p].event = "syscall" /\ group' = group
      /\ \A q : Table(q)' = Table(q)
      /\ \A q \in Pid \ {p} : stop'[q] = stop[q]
      /\ \A q \in Calls(g) : q \in Pid /\ stop'[q] = stop[q]
  BY DEF Making
<1>2. Grouped(Table(g), kfds[g], Busy(g)) /\ Follow(g, Busy(g))
  BY <1>1 DEF StandsOn
<1>3. Grouped(Table(g), kfds[g], Busy(g))' /\ (Live(g)' => Follow(g, Busy(g))')
  BY <1>2, MakingStands
<1>4. \A q \in Calls(g)' : Positioned(stop[q].regs, Table(q), kfds[g])'
  <2> TAKE q \in Calls(g)'
  <2>1. PositionedIn(stop'[q].regs, Table(q)', kfds'[g], ofds', size', unlinked')
    <3>1. CASE q = p
      <4>1. PositionedIn(r, Table(p), kfds'[g], ofds', size', unlinked')
        BY <1>2, LatestPositioned
      <4> QED  BY <1>1, <3>1, <4>1
    <3>2. CASE q # p
      <4>1. q \in Calls(g) /\ RegsTyped(r) /\ stop'[q] = stop[q] /\ Table(q)' = Table(q)
        BY <1>1, <3>2 DEF Making
      <4>2. Positioned(stop[q].regs, Table(q), kfds[g])
        BY <4>1 DEF StandsOn
      <4>3. PositionedIn(stop[q].regs, Table(q), kfds'[g], ofds', size', unlinked')
        BY <4>1, <4>2, EarlierPositioned
      <4> QED  BY <4>1, <4>3
    <3> QED  BY <3>1, <3>2
  <2> QED  BY <2>1, PositionedIsNext DEF PositionsAreIn
<1>5. \A a, b \in Calls(g)' : a # b => Commute(stop'[a].regs, stop'[b].regs, kfds'[g])
  <2>1. \A q \in Calls(g) :
          stop[q].regs.nr \in {"lseek", "write"} =>
            kfds'[g][stop[q].regs.fd].ofd = kfds[g][stop[q].regs.fd].ofd
    <3> SUFFICES ASSUME NEW q \in Calls(g), stop[q].regs.nr \in {"lseek", "write"}
                 PROVE  kfds'[g][stop[q].regs.fd].ofd = kfds[g][stop[q].regs.fd].ofd
      OBVIOUS
    <3>1. stop[q].regs.fd \in Fd \cap Slots(stop[q].regs)
      BY DEF Making, RegsTyped, Slots
    <3> QED  BY <3>1 DEF Making
  <2>2. r.nr \in {"lseek", "write"} => kfds'[g][r.fd].ofd = kfds[g][r.fd].ofd
    <3>1. r.nr \in {"lseek", "write"} => r.fd \in Fd /\ Changes(r) = {}
      BY DEF Making, RegsTyped, Changes, Dups, NewFd
    <3> QED  BY <3>1 DEF Making
  <2>3. ASSUME NEW q \in Calls(g)
        PROVE  /\ Commute(r, stop[q].regs, kfds'[g])
               /\ Commute(stop[q].regs, r, kfds'[g])
    <3>1. /\ Apart(stop[q].regs, r) /\ Apart(r, stop[q].regs)
          /\ {r.nr, stop[q].regs.nr} \in {{"lseek"}, {"lseek", "write"}} =>
               kfds[g][r.fd].ofd # kfds[g][stop[q].regs.fd].ofd
      BY DEF Making
    <3>2. {r.nr, stop[q].regs.nr} \in {{"lseek"}, {"lseek", "write"}} =>
            r.nr \in {"lseek", "write"} /\ stop[q].regs.nr \in {"lseek", "write"}
      OBVIOUS
    <3>3. {r.nr, stop[q].regs.nr} = {stop[q].regs.nr, r.nr}
      OBVIOUS
    <3> QED  BY <2>1, <2>2, <3>1, <3>2, <3>3 DEF Commute
  <2>4. ASSUME NEW a \in Calls(g), NEW b \in Calls(g), a # b
        PROVE  Commute(stop[a].regs, stop[b].regs, kfds'[g])
    <3>1. Commute(stop[a].regs, stop[b].regs, kfds[g])
      BY <2>4 DEF StandsOn
    <3>2. {stop[a].regs.nr, stop[b].regs.nr} \in {{"lseek"}, {"lseek", "write"}} =>
            stop[a].regs.nr \in {"lseek", "write"} /\ stop[b].regs.nr \in {"lseek", "write"}
      OBVIOUS
    <3> QED  BY <2>1, <3>1, <3>2 DEF Commute
  <2> QED  BY <1>1, <2>3, <2>4
<1>6. stop'[g].event # "exec" /\ stop'[g].event # "born"
  <2>1. CASE g = p
    BY <1>1, <2>1
  <2>2. CASE g # p
    <3>1. stop[p] # Absent
      BY <1>1, Events
    <3>2. GroupInv
      BY <3>1, ActorsAreThere DEF TypedInv
    <3>3. stop[g].event # "exec"
      <4> SUFFICES ASSUME stop[g].event = "exec" PROVE FALSE
        OBVIOUS
      <4>1. Members(g) = {g}
        BY <1>1, <3>2 DEF GroupInv
      <4> QED  BY <1>1, <2>2, <3>1, <4>1 DEF Members
    <3>4. stop[g].event # "born"
      BY <1>1, <2>2, <3>1, <3>2 DEF GroupInv
    <3> QED  BY <1>1, <2>2, <3>3, <3>4
  <2> QED  BY <2>1, <2>2
<1> QED  BY <1>3, <1>4, <1>5, <1>6 DEF StandsOn

\* Another process.
LEMMA CalledRests ==
  ASSUME TypedInv, LifeInv, OneOwner, NEW p \in Pid, NEW r, Called(p, r),
         Shifts(p, r), Places(p, r), NEW g \in Pid, group[p] # g, group[p] \in Pid, RegsTyped(r)
  PROVE  Rests(g)
<1> DEFINE s == [Running EXCEPT !.event = "syscall", !.regs = r]
<1>1. /\ stop[p] = Running /\ UNCHANGED <<contextVars, group, unlinked>>
      /\ stop' = [stop EXCEPT ![p] = s]
      /\ kfds'[g] = kfds[g]
  BY DEF Called
<1>2. s.event = "syscall" /\ stop[p].event = "running"
  BY <1>1, Events
<1> HIDE DEF s
<1>3. /\ \A q \in Pid : stop'[q] = IF q = p THEN s ELSE stop[q]
      /\ group' = group /\ ProcMap' = ProcMap /\ Fds' = Fds
  BY <1>1 DEF LifeInv, ThreadInv, contextVars
<1>4. Calls(g)' = Calls(g)
  BY <1>3 DEF Calls
<1>5. \A q : Table(q)' = Table(q)
  BY <1>3 DEF Table
<1>6. \A q \in Calls(g) : stop'[q] = stop[q]
  BY <1>3 DEF Calls
<1>7. ASSUME NEW o \in Ofd, Holds(g, o)
      PROVE  /\ ofds'[o].name = ofds[o].name /\ ofds'[o].write = ofds[o].write
             /\ ofds'[o].split = ofds[o].split
             /\ Sole(o) => Landing(ofds[o])' = Landing(ofds[o])
                           /\ size'[ofds[o].name] = size[ofds[o].name]
  <2>1. Stays(o)
    BY <1>1, <1>7 DEF Holds, Stays
  <2>2. Sole(o) => o # Touched(p, r)
    <3> SUFFICES ASSUME Sole(o), o = Touched(p, r) PROVE FALSE
      OBVIOUS
    <3>1. r.fd \in Fd /\ kfds[group[p]][r.fd].ofd = o
      BY DEF Touched, RegsTyped, Moves, Sole
    <3> QED  BY <1>7, <3>1 DEF OneOwner, Holds
  <2> QED  BY <2>1, <2>2 DEF Shifts, Places
<1>8. Live(g)' => Live(g)
  BY <1>3 DEF Live
<1>9. stop'[g].event \in {"exec", "born"} => stop'[g] = stop[g]
  BY <1>2, <1>3
<1> QED  BY <1>1, <1>3, <1>4, <1>5, <1>6, <1>7, <1>8, <1>9 DEF Rests

\* A descriptor refers to what one of the process has referred to, or to what
\* has been opened.
LEMMA CalledOwners ==
  ASSUME TypedInv, KernelTyped', OneOwner, NEW p \in Pid, group[p] \in Pid, NEW r,
         Called(p, r), Shifts(p, r)
  PROVE  OneOwner'
<1>1. /\ \A q \in Pid : q # group[p] => kfds'[q] = kfds[q]
      /\ \A fd \in Fd \ Changes(r) : kfds'[group[p]][fd].ofd = kfds[group[p]][fd].ofd
      /\ Carried(p, r) /\ RegsTyped(r)
  BY DEF Called
<1>2. ASSUME NEW q \in Pid, NEW fd \in Fd, NEW o, o = kfds'[q][fd].ofd, o # None
      PROVE  \/ \E a \in Fd : kfds[q][a].ofd = o /\ kfds'[q][a].ofd = o
             \/ q = group[p] /\ ~Refers(kfds, o)
  <2>1. CASE q # group[p] \/ fd \notin Changes(r)
    BY <1>1, <1>2, <2>1
  <2>2. CASE q = group[p] /\ r.nr = "close" /\ fd = r.fd
    BY <1>1, <1>2, <2>2 DEF Carried
  <2>3. CASE q = group[p] /\ r.nr \in {"open", "creat"} /\ fd = r.ret
    <3>1. o \in Ofd
      BY <1>2 DEF KernelTyped
    <3> QED  BY <1>2, <2>3, <3>1 DEF Shifts
  <2>4. CASE q = group[p] /\ r.nr \in Dups /\ fd = r.ret /\ fd # r.fd
    <3>1. r.fd \in Fd /\ r.fd \notin Changes(r)
      BY <1>1, <2>4 DEF RegsTyped, Changes, Dups, NewFd
    <3>2. kfds'[q][r.fd].ofd = o
      BY <1>1, <1>2, <2>4 DEF Carried, Dups
    <3> QED  BY <1>1, <2>4, <3>1, <3>2
  <2> QED  BY <2>1, <2>2, <2>3, <2>4 DEF Changes
<1>3. ASSUME NEW a \in Pid, NEW b \in Pid, NEW c \in Fd, NEW d \in Fd, NEW o,
             o = kfds'[a][c].ofd, kfds'[b][d].ofd = o, SoleIn(o, ofds')
      PROVE  a = b
  <2>1. o # None /\ o \in Ofd
    BY <1>3 DEF SoleIn, KernelTyped
  <2>2. CASE Refers(kfds, o)
    <3>1. PICK x \in Fd, y \in Fd : kfds[a][x].ofd = o /\ kfds'[a][x].ofd = o /\ kfds[b][y].ofd = o
      BY <1>2, <1>3, <2>1, <2>2
    <3>2. Stays(o)
      BY <3>1 DEF Stays
    <3>3. Sole(o)
      BY <1>3, <2>1, <3>2 DEF Shifts, SoleIn, Sole
    <3> QED  BY <3>1, <3>3 DEF OneOwner
  <2>3. CASE ~Refers(kfds, o)
    <3>1. \A q \in Pid, x \in Fd : kfds[q][x].ofd # o
      BY <2>3 DEF Refers
    <3> QED  BY <1>2, <1>3, <2>1, <3>1
  <2> QED  BY <2>2, <2>3
<1> QED  BY <1>3 DEF OneOwner, Sole, SoleIn

LEMMA CalledKeepsPositions ==
  ASSUME TypedInv, LifeInv, TypedInv', LifeInv', PositionInv, NEW p \in Pid, NEW r,
         Called(p, r), Taken(p, r)
  PROVE  PositionInv'
<1>1. stop[p] = Running /\ RegsTyped(r) /\ quirks \subseteq quirks' /\ KernelTyped'
  BY DEF Called
<1>2. stop[p] # Absent /\ ~Over /\ group[p] \in Pid
  BY <1>1, ActorsAreThere, Events DEF TypedInv
<1>3. Shifts(p, r)
  BY <1>1, <1>2, CallsShift
<1>4. OneOwner' /\ LengthsAgree'
  BY <1>1, <1>2, <1>3, CalledOwners DEF PositionInv, Shifts
<1>5. ASSUME Without(PositionKinds)'
      PROVE  OneWriter' /\ \A g \in Pid : StandsOn(g)'
  <2>1. Without(PositionKinds) /\ "writers" \notin quirks' /\ "race" \notin quirks'
    BY <1>1, <1>5 DEF Without, PositionKinds
  <2>2. OneOwner /\ OneWriter /\ \A g \in Pid : StandsOn(g)
    BY <1>2, <2>1 DEF PositionInv
  <2>3. OneWriter' /\ Places(p, r)
    BY <1>3, <1>5, <2>1, <2>2 DEF Shifts
  <2>4. ASSUME NEW g \in Pid
        PROVE  StandsOn(g)'
    <3>1. CASE g = group[p]
      <4>1. Making(p, r, g)
        BY <2>1, <3>1, CalledMakes
      <4> QED  BY <1>3, <2>2, <2>3, <4>1, CalledStands
    <3>2. CASE g # group[p]
      <4>1. Rests(g)
        BY <1>1, <1>2, <1>3, <2>2, <2>3, <3>2, CalledRests
      <4> QED  BY <2>2, <4>1, RestsStands
    <3> QED  BY <3>1, <3>2
  <2> QED  BY <2>3, <2>4
<1> QED  BY <1>4, <1>5 DEF PositionInv

------------------------------------------------------------------------------
(* A call is handled *)

\* The process the thread belongs to, then.
Turning(p, r, g, name, new) ==
  /\ g \in Pid /\ group[p] = g /\ group[g] = g /\ RegsTyped(r) /\ stop[p].regs = r
  /\ stop[p].event = "syscall" /\ stop'[p].event = "running"
  /\ p \in Calls(g) /\ Calls(g)' = Calls(g) \ {p}
  /\ \A q \in Calls(g) : q \in Pid /\ RegsTyped(stop[q].regs) /\ Table(q) = Table(p)
  /\ \A q \in Calls(g) : q # p => stop'[q] = stop[q] /\ Table(q)' = new
  /\ \A q \in Calls(g) : q # p =>
       /\ Changes(r) \cap Slots(stop[q].regs) = {}
       /\ Changes(stop[q].regs) \cap Slots(r) = {}
  /\ \A q \in Calls(g) : stop[q].regs.nr = "write" => stop[q].regs.fd \notin Busy(g)
  /\ \A q \in Pid \ {p} : stop'[q] = stop[q]
  /\ Live(g) /\ Table(g) = Table(p) /\ Table(g)' = new
  /\ Table(p) \in SUBSET Entry /\ Slotted(Table(p)) /\ new \in SUBSET Entry /\ Slotted(new)
  /\ UNCHANGED <<kfds, ofds, files, group>>
  /\ Turned(r, name, Table(p), new)
  /\ name = IF Follows(r) THEN ofds[kfds[g][r.ret].ofd].name ELSE None
  /\ Changes(r) \subseteq Busy(g)
  /\ \A fd : fd \in Busy(g)' <=> fd \in Busy(g) /\ fd \notin Changes(r)
  /\ Busy(g)' \cap Slots(r) = {}

LEMMA ChangesAre ==
  ASSUME NEW r, RegsTyped(r)
  PROVE  /\ Changes(r) \subseteq Slots(r) /\ Gone(r) \subseteq Changes(r)
         /\ Changes(r) \subseteq Fd
         /\ r.nr \in {"open", "creat"} => /\ r.ret \in Fd \cap Slots(r) /\ Changes(r) = {r.ret}
                                          /\ r.nr \notin Dups
         /\ r.nr \in Dups => r.fd \in Slots(r) /\ r.ret \in Fd
         /\ r.nr \notin {"open", "creat"} => r.fd \in Fd \cap Slots(r)
         /\ Follows(r) => Gone(r) = {r.ret}
         /\ \A fd \in Changes(r) \ Gone(r) : fd = r.ret /\ r.nr \in {"open", "creat"} /\ ~Follows(r)
         /\ r.nr \in {"write", "lseek"} => Changes(r) = {}
<1>1. CASE r.nr \in {"open", "creat"}
  BY <1>1 DEF RegsTyped, Slots, Changes, Gone, Dups, NewFd, Follows
<1>2. CASE r.nr \in Dups
  BY <1>2 DEF RegsTyped, Slots, Changes, Gone, Dups, NewFd, Follows
<1>3. CASE r.nr = "close"
  BY <1>3 DEF RegsTyped, Slots, Changes, Gone, Dups, NewFd, Follows
<1>4. CASE r.nr \notin {"open", "creat", "close"} \cup Dups
  BY <1>4 DEF RegsTyped, Slots, Changes, Gone, Dups, NewFd, Follows
<1> QED  BY <1>1, <1>2, <1>3, <1>4

\* Where an entry of the new table comes from.
LEMMA TurnedFrom ==
  ASSUME NEW r, NEW name, NEW table, NEW new, Turned(r, name, table, new), NEW e \in new
  PROVE  \/ /\ Follows(r) /\ e.slots = {r.ret}
            /\ e.file = NewFileState(name, r.flags, length[name])
         \/ \E f \in table : f \in Left(r, table) /\ Becomes(r, f, e)
<1>1. PICK h : /\ \A f \in Left(r, table) : Becomes(r, f, h[f])
               /\ new = {h[f] : f \in Left(r, table)} \cup Fresh(r, name)
  BY DEF Turned
<1>2. CASE e \in Fresh(r, name)
  BY <1>2 DEF Fresh
<1>3. CASE e \in {h[f] : f \in Left(r, table)}
  BY <1>1, <1>3 DEF Left
<1> QED  BY <1>1, <1>2, <1>3

\* The slot an entry had that referred to the same description.
LEMMA TurnedSlot ==
  ASSUME NEW p, NEW r, NEW g, NEW name, NEW new, Turning(p, r, g, name, new),
         Positioned(r, Table(p), kfds[g]), Grouped(Table(p), kfds[g], Busy(g)),
         NEW e \in new, NEW f \in Table(p), Becomes(r, f, e),
         NEW a \in e.slots, a \notin Busy(g)'
  PROVE  \/ /\ r.nr \in {"open", "creat"} /\ ~Follows(r) /\ a = r.ret
            /\ e.slots = {a} /\ kfds[g][a].ofd # None /\ ~Sole(kfds[g][a].ofd)
         \/ \E c \in f.slots \ Busy(g) :
              /\ kfds[g][c].ofd = kfds[g][a].ofd
              /\ a # c => r.nr \in Dups /\ c = r.fd /\ a = r.ret /\ kfds[g][a].ofd # None
              /\ a = c => a \notin Gone(r)
<1>1. /\ e.slots = (f.slots \ Gone(r)) \cup Joined(r, f.slots) /\ RegsTyped(r)
      /\ \A fd : fd \in Busy(g)' <=> fd \in Busy(g) /\ fd \notin Changes(r)
      /\ Busy(g)' \cap Slots(r) = {}
  BY DEF Becomes, Turning
<1>2. CASE a \in Joined(r, f.slots) /\ a # r.fd
  <2>1. r.nr \in Dups /\ r.fd \in f.slots /\ a = r.ret
    BY <1>2 DEF Joined
  <2>2. r.fd \in Slots(r) /\ r.fd \notin Changes(r)
    BY <1>1, <2>1, ChangesAre DEF Changes, Dups, NewFd
  <2>3. kfds[g][r.fd].ofd # None /\ kfds[g][r.ret].ofd = kfds[g][r.fd].ofd
    BY <2>1 DEF Positioned
  <2> QED  BY <1>1, <1>2, <2>1, <2>2, <2>3
<1>3. CASE ~(a \in Joined(r, f.slots) /\ a # r.fd)
  <2>1. a \in f.slots /\ a \notin Gone(r)
    <3>1. a = r.fd /\ a \in Joined(r, f.slots) => a \in f.slots /\ a \notin Gone(r)
      BY DEF Joined, Gone, Dups, NewFd, Follows
    <3> QED  BY <1>1, <1>3, <3>1
  <2>2. CASE a \notin Changes(r)
    BY <1>1, <2>1, <2>2
  <2>3. CASE a \in Changes(r)
    <3>1. a = r.ret /\ r.nr \in {"open", "creat"} /\ ~Follows(r) /\ r.nr \notin Dups
      BY <1>1, <2>1, <2>3, ChangesAre
    <3>2. f.slots = {r.ret} /\ kfds[g][a].ofd # None /\ ~Sole(kfds[g][a].ofd)
      BY <2>1, <3>1 DEF Positioned, Sole
    <3>3. e.slots = {a}
      BY <1>1, <2>1, <3>1, <3>2 DEF Joined
    <3> QED  BY <3>1, <3>2, <3>3
  <2> QED  BY <2>2, <2>3
<1> QED  BY <1>2, <1>3

LEMMA TurningGroups ==
  ASSUME TypedInv, NEW p, NEW r, NEW g, NEW name, NEW new, Turning(p, r, g, name, new),
         Positioned(r, Table(p), kfds[g]), Grouped(Table(p), kfds[g], Busy(g))
  PROVE  Grouped(new, kfds[g], Busy(g)')
<1>1. /\ RegsTyped(r) /\ new \in SUBSET Entry /\ Table(p) \in SUBSET Entry
      /\ \A fd : fd \in Busy(g)' <=> fd \in Busy(g) /\ fd \notin Changes(r)
      /\ Busy(g)' \cap Slots(r) = {} /\ Changes(r) \subseteq Busy(g)
      /\ Turned(r, name, Table(p), new)
  BY DEF Turning
<1> SUFFICES ASSUME NEW e \in new, NEW a \in e.slots, a \notin Busy(g)'
             PROVE  /\ kfds[g][a].ofd = None => e.slots = {a}
                    /\ \A b \in e.slots \ Busy(g)' : kfds[g][b].ofd = kfds[g][a].ofd
                    /\ \A b \in Fd \ Busy(g)' :
                         Sole(kfds[g][a].ofd) /\ kfds[g][b].ofd = kfds[g][a].ofd => b \in e.slots
  BY DEF Grouped
<1>2. CASE Follows(r) /\ e.slots = {r.ret}
  <2>1. r.nr \in {"open", "creat"} /\ a = r.ret
    BY <1>2 DEF Follows
  <2>2. kfds[g][r.ret].ofd # None /\ \A b \in Fd : kfds[g][b].ofd = kfds[g][r.ret].ofd => b = r.ret
    BY <2>1 DEF Positioned
  <2> QED  BY <1>2, <2>1, <2>2
<1>3. ASSUME NEW f \in Table(p), Becomes(r, f, e)
      PROVE  /\ kfds[g][a].ofd = None => e.slots = {a}
             /\ \A b \in e.slots \ Busy(g)' : kfds[g][b].ofd = kfds[g][a].ofd
             /\ \A b \in Fd \ Busy(g)' :
                  Sole(kfds[g][a].ofd) /\ kfds[g][b].ofd = kfds[g][a].ofd => b \in e.slots
  <2>1. CASE /\ e.slots = {a} /\ kfds[g][a].ofd # None /\ ~Sole(kfds[g][a].ofd)
    BY <2>1
  <2>2. ASSUME NEW c \in f.slots \ Busy(g), kfds[g][c].ofd = kfds[g][a].ofd,
               a # c => r.nr \in Dups /\ c = r.fd /\ a = r.ret /\ kfds[g][a].ofd # None,
               a = c => a \notin Gone(r)
        PROVE  /\ kfds[g][a].ofd = None => e.slots = {a}
               /\ \A b \in e.slots \ Busy(g)' : kfds[g][b].ofd = kfds[g][a].ofd
               /\ \A b \in Fd \ Busy(g)' :
                    Sole(kfds[g][a].ofd) /\ kfds[g][b].ofd = kfds[g][a].ofd => b \in e.slots
    <3>1. /\ e.slots = (f.slots \ Gone(r)) \cup Joined(r, f.slots)
          /\ f.slots \subseteq Fd /\ c \in Fd
      BY <1>1, <1>3 DEF Becomes, Entry
    <3>2. /\ kfds[g][c].ofd = None => f.slots = {c}
          /\ \A b \in f.slots \ Busy(g) : kfds[g][b].ofd = kfds[g][c].ofd
          /\ \A b \in Fd \ Busy(g) :
               Sole(kfds[g][c].ofd) /\ kfds[g][b].ofd = kfds[g][c].ofd => b \in f.slots
      BY DEF Grouped
    <3>3. ASSUME kfds[g][a].ofd = None
          PROVE  e.slots = {a}
      <4>1. a = c /\ f.slots = {a} /\ a \notin Gone(r)
        BY <2>2, <3>2, <3>3
      <4>2. ~(r.nr \in Dups /\ r.fd = a)
        BY <3>3 DEF Positioned
      <4>3. Joined(r, f.slots) = {}
        BY <4>1, <4>2 DEF Joined
      <4> QED  BY <3>1, <4>1, <4>3
    <3>4. ASSUME NEW b \in e.slots, b \notin Busy(g)'
          PROVE  kfds[g][b].ofd = kfds[g][a].ofd
      <4>1. CASE \E d \in f.slots \ Busy(g) : kfds[g][d].ofd = kfds[g][b].ofd
        BY <2>2, <3>2, <4>1
      <4>2. CASE e.slots = {b}
        BY <4>2
      <4> QED  BY <1>3, <3>4, <4>1, <4>2, TurnedSlot
    <3>5. ASSUME NEW b \in Fd, b \notin Busy(g)', NEW o, o = kfds[g][a].ofd, Sole(o),
                 kfds[g][b].ofd = o
          PROVE  b \in e.slots
      <4>0. o # None
        BY <3>5 DEF Sole
      <4>1. CASE b \notin Busy(g)
        <5>1. b \in f.slots
          BY <2>2, <3>2, <3>5, <4>1
        <5>2. b \notin Gone(r)
          BY <1>1, <4>1, ChangesAre
        <5> QED  BY <3>1, <5>1, <5>2
      <4>2. CASE b \in Changes(r) /\ r.nr = "close"
        <5>1. b = r.fd
          BY <4>2 DEF Changes, Dups, NewFd
        <5> QED  BY <3>5, <4>0, <4>2, <5>1 DEF Positioned
      <4>3. CASE b \in Changes(r) /\ r.nr \in {"open", "creat"}
        <5>1. b = r.ret /\ c # r.ret
          BY <1>1, <4>3, ChangesAre
        <5> QED  BY <2>2, <3>1, <3>5, <4>3, <5>1 DEF Positioned
      <4>4. CASE b \in Changes(r) /\ r.nr \in Dups
        <5>1. b = r.ret /\ r.fd # r.ret /\ r.fd \in Fd /\ r.fd \notin Changes(r) /\ r.fd \in Slots(r)
          BY <1>1, <4>4, ChangesAre DEF Changes, Dups, NewFd
        <5>2. r.fd \notin Busy(g) /\ kfds[g][r.fd].ofd = o
          BY <1>1, <3>5, <4>4, <5>1 DEF Positioned
        <5>3. r.fd \in f.slots
          BY <2>2, <3>2, <3>5, <5>1, <5>2
        <5> QED  BY <3>1, <4>4, <5>1, <5>3 DEF Joined
      <4> QED  BY <1>1, <3>5, <4>1, <4>2, <4>3, <4>4 DEF Changes
    <3> QED  BY <3>3, <3>4, <3>5
  <2> QED  BY <1>3, <2>1, <2>2, TurnedSlot
<1> QED  BY <1>1, <1>2, <1>3, TurnedFrom

\* The other calls are about the slots they have been about.
LEMMA TurningPending ==
  ASSUME NEW p, NEW r, NEW g, NEW name, NEW new, Turning(p, r, g, name, new), NEW slots,
         NEW others, \A fd : fd \in others \ slots \/ fd \in slots \ others => fd \in Changes(r),
         NEW nrs, nrs \cap {"open", "creat"} = {}
  PROVE  Pending(g, others, nrs)' = Pending(g, slots, nrs) \ {p}
<1>1. /\ Calls(g)' = Calls(g) \ {p}
      /\ \A q \in Calls(g) : q # p => stop'[q] = stop[q] /\ Changes(r) \cap Slots(stop[q].regs) = {}
      /\ \A q \in Calls(g) : RegsTyped(stop[q].regs)
  BY DEF Turning
<1>2. \A q \in Calls(g) : q # p /\ stop[q].regs.nr \in nrs =>
        (stop[q].regs.fd \in slots <=> stop[q].regs.fd \in others)
  <2> SUFFICES ASSUME NEW q \in Calls(g), q # p, stop[q].regs.nr \in nrs
               PROVE  stop[q].regs.fd \in slots <=> stop[q].regs.fd \in others
    OBVIOUS
  <2>1. stop[q].regs.fd \in Slots(stop[q].regs)
    BY <1>1, ChangesAre
  <2> QED  BY <1>1, <2>1
<1> QED  BY <1>1, <1>2 DEF Pending

\* A position is below the modulus.
LEMMA EnrolledPosition ==
  ASSUME NEW file \in TFileState, NEW n \in 0 .. MaxLength, file.CurrPos + 1 <= n
  PROVE  Enroll(file, 1).CurrPos = file.CurrPos + 1
<1>1. file.CurrPos \in Nat /\ MaxLength \in Nat /\ MaxLength < SizeModulus /\ n \in Nat
  BY AccountingAssumption, SizeModulusAssumption DEF TFileState, Size
<1>2. (file.CurrPos + 1) % SizeModulus = file.CurrPos + 1
  BY <1>1, SizeModulusAssumption
<1> DEFINE pos == (file.CurrPos + 1) % SizeModulus
<1>3. Enroll(file, 1) = [file EXCEPT !.CurrPos = pos, !.MaxPos = Reach(file, pos)]
  BY DEF Enroll
<1> HIDE DEF pos
<1>4. Enroll(file, 1).CurrPos = pos
  BY <1>3 DEF TFileState
<1> QED  BY <1>2, <1>4 DEF pos

\* What a call does to CurrPos.
LEMMA EffectPosition ==
  ASSUME NEW r, NEW file \in TFileState
  PROVE  /\ r.nr \notin {"write", "lseek"} => Effect(r, file).CurrPos = file.CurrPos
         /\ r.nr = "lseek" /\ IntNonNegative(r.ret) => Effect(r, file).CurrPos = r.ret
         /\ r.nr = "write" /\ r.ret = 1 => Effect(r, file) = Enroll(file, 1)
<1>1. CASE r.nr = "write"
  BY <1>1 DEF Effect, Succeeded
<1>2. CASE r.nr = "lseek"
  <2>1. SetCurrPos(file, r.ret).CurrPos = r.ret
    BY DEF SetCurrPos, TFileState
  <2> QED  BY <1>2, <2>1 DEF Effect, Succeeded
<1>3. CASE r.nr \notin {"write", "lseek"}
  <2>1. \A n, k : EnrollNoShift(file, n, k).CurrPos = file.CurrPos
    BY DEF EnrollNoShift, TFileState
  <2> QED  BY <1>3, <2>1 DEF Effect
<1> QED  BY <1>1, <1>2, <1>3

LEMMA TurningStands ==
  ASSUME TypedInv, LengthsAgree, NEW p, NEW r, NEW g, NEW name, NEW new,
         Turning(p, r, g, name, new),
         Positioned(r, Table(p), kfds[g]), Grouped(Table(p), kfds[g], Busy(g)),
         Stands(g, Table(p), Busy(g)),
         \A q \in Calls(g) : q # p => Commute(r, stop[q].regs, kfds[g])
  PROVE  \A e \in new : \A a \in e.slots \ Busy(g)' : \A o \in Ofd :
           o = kfds[g][a].ofd /\ Sole(o) /\ Pending(g, e.slots, {"lseek"})' = {} =>
             e.file.CurrPos + Cardinality(Pending(g, e.slots, {"write"}))' = Landing(ofds[o])
<1>1. /\ RegsTyped(r) /\ new \in SUBSET Entry /\ Table(p) \in SUBSET Entry /\ g \in Pid
      /\ \A fd : fd \in Busy(g)' <=> fd \in Busy(g) /\ fd \notin Changes(r)
      /\ Busy(g)' \cap Slots(r) = {} /\ Changes(r) \subseteq Busy(g)
      /\ Turned(r, name, Table(p), new)
      /\ p \in Calls(g) /\ stop[p].regs = r
      /\ name = IF Follows(r) THEN ofds[kfds[g][r.ret].ofd].name ELSE None
      /\ \A q \in Calls(g) : q \in Pid /\ RegsTyped(stop[q].regs)
      /\ \A q \in Calls(g) : q # p => Changes(r) \cap Slots(stop[q].regs) = {}
  BY DEF Turning
<1> SUFFICES ASSUME NEW e \in new, NEW a \in e.slots, a \notin Busy(g)', NEW o \in Ofd,
                    o = kfds[g][a].ofd, Sole(o), Pending(g, e.slots, {"lseek"})' = {}
             PROVE  e.file.CurrPos + Cardinality(Pending(g, e.slots, {"write"}))' = Landing(ofds[o])
  OBVIOUS
<1>a. Landing(ofds[o]) \in 0 .. MaxLength
  <2>1. ofds[o].name # None
    <3>1. a \in Fd
      BY <1>1 DEF Entry
    <3> QED  BY <1>1, <3>1, AccountingAssumption, Zenon DEF TypedInv, HeldInv
  <2> QED  BY <2>1 DEF TypedInv, KernelTyped, Description, Landing
<1>2. CASE /\ Follows(r) /\ e.slots = {r.ret}
           /\ e.file = NewFileState(name, r.flags, length[name])
  <2>1. r.nr \in {"open", "creat"} /\ a = r.ret /\ name = ofds[o].name
    BY <1>1, <1>2 DEF Follows
  <2>2. /\ ofds[o].name = r.name /\ r.name \notin unlinked
        /\ Landing(ofds[o]) = IF "O_APPEND" \in r.flags THEN size[r.name] ELSE 0
    BY <1>2, <2>1 DEF Positioned
  <2>3. length[name] = size[r.name]
    <3>1. r.name \in Name
      <4>1. ofds[o].name # None
        <5>1. a \in Fd
          BY <1>1 DEF Entry
        <5> QED  BY <1>1, <5>1, AccountingAssumption, Zenon DEF TypedInv, HeldInv
      <4> QED  BY <2>2, <4>1 DEF TypedInv, KernelTyped, Description
    <3> QED  BY <2>1, <2>2, <3>1 DEF LengthsAgree
  <2>4. e.file.CurrPos = Landing(ofds[o])
    BY <1>2, <2>1, <2>2, <2>3 DEF NewFileState
  <2>5. Pending(g, e.slots, {"write"})' = {}
    <3>1. Pending(g, e.slots, {"write"})' = Pending(g, {}, {"write"}) \ {p}
      <4>1. \A fd : fd \in e.slots \ {} \/ fd \in {} \ e.slots => fd \in Changes(r)
        BY <1>1, <1>2, <2>1, ChangesAre
      <4> QED  BY <4>1, TurningPending
    <3> QED  BY <3>1 DEF Pending
  <2>6. Cardinality(Pending(g, e.slots, {"write"}))' = 0
    BY <2>5, FS_EmptySet
  <2>7. Landing(ofds[o]) \in Nat
    BY <1>a, LengthsAreSizes
  <2> QED  BY <2>4, <2>6, <2>7
<1>3. ASSUME NEW f \in Table(p), Becomes(r, f, e)
      PROVE  e.file.CurrPos + Cardinality(Pending(g, e.slots, {"write"}))' = Landing(ofds[o])
  <2>1. PICK c \in f.slots \ Busy(g) : kfds[g][c].ofd = o
    BY <1>3, TurnedSlot
  <2>2. /\ e.slots = (f.slots \ Gone(r)) \cup Joined(r, f.slots) /\ f.file \in TFileState
        /\ Like(e.file, IF On(r, f) THEN Effect(r, f.file) ELSE f.file)
        /\ f.slots \subseteq Fd
    BY <1>1, <1>3 DEF Becomes, Entry
  <2>3. \A nrs : nrs \cap {"open", "creat"} = {} =>
          Pending(g, e.slots, nrs)' = Pending(g, f.slots, nrs) \ {p}
    <3>1. \A fd : fd \in e.slots \ f.slots \/ fd \in f.slots \ e.slots => fd \in Changes(r)
      <4>1. \A fd \in Joined(r, f.slots) : fd \in Changes(r) \/ fd \in f.slots
        BY DEF Joined, Changes, Dups, NewFd
      <4>2. \A fd \in f.slots \cap Gone(r) : fd \in Changes(r)
        BY <1>1, ChangesAre
      <4>3. \A fd \in Joined(r, f.slots) : fd \in f.slots => fd \notin Gone(r) \/ fd \in Changes(r)
        BY <4>2
      <4> QED  BY <2>2, <4>1, <4>2
    <3> QED  BY <3>1, TurningPending
  <2>4. /\ Pending(g, e.slots, {"write"})' = Pending(g, f.slots, {"write"}) \ {p}
        /\ Pending(g, f.slots, {"lseek"}) \ {p} = {}
    BY <2>3
  <2>5. \A n : Cardinality(Pending(g, f.slots, n)) \in Nat /\ IsFiniteSet(Pending(g, f.slots, n))
    BY PendingAre
  <2>6. f.file.CurrPos \in Nat
    BY <2>2 DEF TFileState, Size
  <2>7. CASE r.nr = "lseek" /\ r.fd \in f.slots
    <3>1. On(r, f) /\ r.fd \notin Busy(g)
      BY <1>1, <2>7, ChangesAre DEF On
    <3>2. kfds[g][r.fd].ofd = o
      BY <2>1, <2>7, <3>1 DEF Grouped
    <3>3. Landing(ofds[o]) = r.ret /\ IntNonNegative(r.ret)
      BY <2>7, <3>2 DEF Positioned
    <3>4. e.file.CurrPos = r.ret
      BY <2>2, <2>7, <3>1, <3>3, EffectPosition DEF Like
    <3>5. Pending(g, e.slots, {"write"})' = {}
      <4> SUFFICES ASSUME NEW q \in Pending(g, f.slots, {"write"}), q # p PROVE FALSE
        BY <2>4
      <4>1. q \in Calls(g) /\ stop[q].regs.nr = "write" /\ stop[q].regs.fd \in f.slots
        BY DEF Pending
      <4>2. kfds[g][r.fd].ofd # kfds[g][stop[q].regs.fd].ofd
        <5>1. {r.nr, stop[q].regs.nr} \in {{"lseek"}, {"lseek", "write"}}
          BY <2>7, <4>1
        <5> QED  BY <4>1, <5>1 DEF Commute
      <4>3. stop[q].regs.fd \notin Busy(g)
        BY <4>1 DEF Turning
      <4> QED  BY <2>1, <3>2, <4>1, <4>2, <4>3 DEF Grouped
    <3>6. Cardinality(Pending(g, e.slots, {"write"}))' = 0
      BY <3>5, FS_EmptySet
    <3>7. r.ret \in Nat
      BY <1>a, <3>3, LengthsAreSizes
    <3> QED  BY <3>3, <3>4, <3>6, <3>7
  <2>8. CASE ~(r.nr = "lseek" /\ r.fd \in f.slots)
    <3>1. Pending(g, f.slots, {"lseek"}) = {}
      BY <1>1, <2>4, <2>8 DEF Pending
    <3>2. f.file.CurrPos + Cardinality(Pending(g, f.slots, {"write"})) = Landing(ofds[o])
      BY <2>1, <3>1 DEF Stands
    <3>3. CASE r.nr = "write" /\ r.fd \in f.slots
      <4>1. p \in Pending(g, f.slots, {"write"}) /\ On(r, f)
        BY <1>1, <3>3 DEF Pending, On
      <4>2. Cardinality(Pending(g, e.slots, {"write"}))' =
              Cardinality(Pending(g, f.slots, {"write"})) - 1
        <5>1. Cardinality(Pending(g, f.slots, {"write"}) \ {p}) =
                Cardinality(Pending(g, f.slots, {"write"})) - 1
          BY <2>5, <4>1, FS_RemoveElement
        <5> QED  BY <2>4, <5>1
      <4>3. Cardinality(Pending(g, e.slots, {"write"}))' \in Nat
        <5>1. Cardinality(Pending(g, f.slots, {"write"}) \ {p}) \in Nat
          BY <2>5, FS_RemoveElement, FS_CardinalityType
        <5> QED  BY <2>4, <5>1
      <4>4. f.file.CurrPos + 1 <= Landing(ofds[o])
        BY <2>5, <2>6, <3>2, <4>2, <4>3
      <4>5. e.file.CurrPos = f.file.CurrPos + 1
        <5>1. Effect(r, f.file) = Enroll(f.file, 1)
          BY <2>2, <3>3, EffectPosition DEF Positioned
        <5> QED  BY <1>a, <2>2, <4>1, <4>4, <5>1, EnrolledPosition DEF Like
      <4> QED  BY <2>5, <2>6, <3>2, <4>2, <4>5
    <3>4. CASE ~(r.nr = "write" /\ r.fd \in f.slots)
      <4>1. p \notin Pending(g, f.slots, {"write"})
        BY <1>1, <3>4 DEF Pending
      <4>2. Pending(g, e.slots, {"write"})' = Pending(g, f.slots, {"write"})
        BY <2>4, <4>1
      <4>3. e.file.CurrPos = f.file.CurrPos
        BY <2>2, <2>8, <3>4, EffectPosition DEF Like, On
      <4> QED  BY <3>2, <4>2, <4>3
    <3> QED  BY <3>3, <3>4
  <2> QED  BY <2>7, <2>8
<1>4. Turned(r, name, Table(p), new)
  BY <1>1
<1>5. \/ /\ Follows(r) /\ e.slots = {r.ret}
         /\ e.file = NewFileState(name, r.flags, length[name])
      \/ \E f \in Table(p) : f \in Left(r, Table(p)) /\ Becomes(r, f, e)
  BY <1>4, TurnedFrom, Zenon
<1> QED  BY <1>2, <1>3, <1>5

LEMMA SyscallIsTurned ==
  ASSUME TypedInv, LifeInv, OutputSize \in Nat, NEW p \in Pid, HandleSyscall(p),
         UNCHANGED <<files, use, kfds, ofds>>, NEW r, r = stop[p].regs
  PROVE  \/ Over' /\ UNCHANGED <<contextVars, group, struck>> /\ stop' = [q \in Pid |-> Absent]
         \/ /\ ContextTyped'
            /\ \E new : Answered(p, new)
                        /\ Turns(p, r, IF Follows(r) THEN At(p, r.ret).name ELSE None, new)
<1>1. CASE Over' /\ UNCHANGED <<contextVars, group, struck>> /\ stop' = [q \in Pid |-> Absent]
  BY <1>1
<1>2. ASSUME ContextTyped', NEW new, Answered(p, new)
      PROVE  \/ Over' /\ UNCHANGED <<contextVars, group, struck>> /\ stop' = [q \in Pid |-> Absent]
             \/ /\ ContextTyped'
                /\ \E n : Answered(p, n)
                          /\ Turns(p, r, IF Follows(r) THEN At(p, r.ret).name ELSE None, n)
  <2>1. CASE Follows(r) /\ ~IsOpen(p, r.ret)
    BY <2>1 DEF HandleSyscall, Over
  <2>2. CASE ~(Follows(r) /\ ~IsOpen(p, r.ret))
    <3>1. stop[p].event = "syscall" /\ RegsTyped(r) /\ SyscallExit(p, AsRead(p, r))
      BY <2>2 DEF HandleSyscall, TypedInv, CallsTyped
    <3>2. stop[p] # Absent /\ group[p] \in Pid
      BY <3>1, Events, ActorsAreThere DEF TypedInv
    <3>3. RegsTyped(AsRead(p, r))
      BY <2>2, <3>1, <3>2, AsReadTyped DEF TypedInv
    <3>4. p \in Registered /\ Slotted(Table(p))
      BY <1>2, AnsweredKeeps
    <3> DEFINE name == IF Follows(r) THEN At(p, r.ret).name ELSE None
    <3>5. PICK n : Turns(p, r, name, n)
      BY <3>1, <3>3, <3>4, SyscallTurns DEF TypedInv
    <3>6. ProcMap[p] \in ProcState
      BY <3>4, TableOfRegistered DEF TypedInv
    <3> HIDE DEF name
    <3>7. n = new
      <4>1. Fds'[ProcMap[p]] = new
        BY <1>2, <3>6 DEF Answered, TypedInv, ContextTyped
      <4>2. Fds'[ProcMap[p]] = n
        BY <3>5, <3>6 DEF Turns, TypedInv, ContextTyped
      <4> QED  BY <4>1, <4>2
    <3> QED  BY <1>2, <3>5, <3>7 DEF name
  <2> QED  BY <2>1, <2>2
<1> QED  BY <1>1, <1>2, SyscallAnswered

LEMMA AnsweredTurns ==
  ASSUME TypedInv, LifeInv, NEW p \in Pid, NEW new, Answered(p, new), ContextTyped',
         UNCHANGED <<files, use, kfds, ofds>>, NEW r, r = stop[p].regs, NEW g, g = group[p],
         NEW name, name = (IF Follows(r) THEN At(p, r.ret).name ELSE None),
         Turns(p, r, name, new),
         \A a, b \in Calls(g) : a # b => Apart(stop[a].regs, stop[b].regs)
  PROVE  Turning(p, r, g, name, new)
<1>1. /\ stop[p].event = "syscall" /\ RegsTyped(r) /\ stop' = [stop EXCEPT ![p] = Running]
      /\ UNCHANGED <<ProcMap, GroupLeaders, group>>
      /\ Fds' = [Fds EXCEPT ![ProcMap[p]] = new] /\ new \in SUBSET Entry
  BY DEF Answered
<1>2. Running.event = "running" /\ stop[p] # Absent /\ stop[p].event # "born"
  BY <1>1, Events
<1>3. /\ \A q \in Pid : stop'[q] = IF q = p THEN Running ELSE stop[q]
      /\ group' = group /\ ProcMap' = ProcMap
  BY <1>1 DEF LifeInv, ThreadInv
<1>4. /\ g \in Pid /\ group[g] = g /\ p \in Registered /\ g \in Registered /\ Table(g) = Table(p)
      /\ Table(p) \in SUBSET Entry /\ ProcMap[g] = ProcMap[p] /\ ProcMap[p] \in ProcState
      /\ \A q \in Registered : ProcMap[q] = ProcMap[p] <=> group[q] = g
  BY <1>2, ActorsAreThere, LeadersAreKnown, TableOfRegistered DEF TypedInv
<1>5. \A q \in Registered : group[q] = g => Table(q)' = new /\ Table(q) = Table(p)
  BY <1>1, <1>3, <1>4 DEF TypedInv, ContextTyped, Table
<1>6. Calls(g)' = Calls(g) \ {p} /\ p \in Calls(g)
  BY <1>1, <1>2, <1>3 DEF Calls
<1>7. ASSUME NEW q \in Calls(g)
      PROVE  q \in Pid /\ RegsTyped(stop[q].regs) /\ Table(q) = Table(p) /\ q \in Registered
  <2>1. q \in Pid /\ group[q] = g /\ stop[q].event = "syscall"
    BY DEF Calls
  <2>2. stop[q] # Absent /\ stop[q].event # "born"
    BY <2>1, Events
  <2>3. q \in Registered
    BY <2>1, <2>2, LeadersAreKnown DEF TypedInv
  <2> QED  BY <1>5, <2>1, <2>3 DEF TypedInv, CallsTyped
<1>8. \A q \in Calls(g) : q # p => stop'[q] = stop[q] /\ Table(q)' = new
  BY <1>3, <1>5, <1>7 DEF Calls
<1>9. \A q \in Calls(g) : q # p =>
        /\ Changes(r) \cap Slots(stop[q].regs) = {}
        /\ Changes(stop[q].regs) \cap Slots(r) = {}
  BY <1>6, ApartSlots
<1>10. Live(g)
  BY <1>1, <1>4 DEF Live
<1>11. Slotted(Table(p)) /\ Slotted(new) /\ Turned(r, name, Table(p), new)
  BY AnsweredKeeps DEF Turns
<1>12. \A fd : fd \in Busy(g) <=> \E q \in Calls(g) : fd \in Changes(stop[q].regs)
  BY BusyIs
<1>13. \A fd : fd \in Busy(g)' <=> \E q \in Calls(g)' : fd \in Changes(stop'[q].regs)
  BY DEF Busy
<1>14. Changes(r) \subseteq Slots(r) /\ Changes(r) \subseteq Busy(g)
  BY <1>1, <1>6, <1>12, ChangesAre
<1>15. \A fd : fd \in Busy(g)' <=> fd \in Busy(g) /\ fd \notin Changes(r)
  <2> TAKE fd
  <2>1. fd \in Busy(g)' <=> \E q \in Calls(g) : q # p /\ fd \in Changes(stop[q].regs)
    BY <1>6, <1>8, <1>13
  <2> QED  BY <1>9, <1>12, <1>14, <2>1
<1>16. Busy(g)' \cap Slots(r) = {}
  BY <1>6, <1>8, <1>9, <1>13
<1>17. \A q \in Calls(g) : stop[q].regs.nr = "write" => stop[q].regs.fd \notin Busy(g)
  <2> SUFFICES ASSUME NEW q \in Calls(g), stop[q].regs.nr = "write", stop[q].regs.fd \in Busy(g)
               PROVE  FALSE
    OBVIOUS
  <2>1. PICK x \in Calls(g) : stop[q].regs.fd \in Changes(stop[x].regs)
    BY <1>12
  <2>2. stop[q].regs.fd \in Slots(stop[q].regs) /\ Changes(stop[q].regs) = {}
    BY <1>7, ChangesAre
  <2>3. Changes(stop[x].regs) \cap Slots(stop[q].regs) = {}
    BY <2>1, <2>2, ApartSlots
  <2> QED  BY <2>1, <2>2, <2>3
<1>18. name = IF Follows(r) THEN ofds[kfds[g][r.ret].ofd].name ELSE None
  BY DEF At, Descriptors
<1>19. Table(g)' = new
  BY <1>4, <1>5
<1>20. stop'[p].event = "running" /\ \A q \in Pid \ {p} : stop'[q] = stop[q]
  BY <1>2, <1>3
<1> QED  BY <1>1, <1>3, <1>4, <1>6, <1>7, <1>8, <1>9, <1>10, <1>11, <1>14, <1>15, <1>16, <1>17,
            <1>18, <1>19, <1>20 DEF Turning

\* The other calls still to be handled.
LEMMA TurningPositioned ==
  ASSUME NEW p, NEW r, NEW g, NEW name, NEW new, Turning(p, r, g, name, new),
         NEW q \in Calls(g), q # p, Commute(r, stop[q].regs, kfds[g]),
         Positioned(stop[q].regs, Table(q), kfds[g])
  PROVE  PositionedIn(stop[q].regs, new, kfds[g], ofds, size, unlinked)
<1> SUFFICES ASSUME NEW s, s = stop[q].regs
             PROVE  PositionedIn(s, new, kfds[g], ofds, size, unlinked)
  OBVIOUS
<1>1. /\ RegsTyped(s) /\ RegsTyped(r) /\ Table(q) = Table(p) /\ Turned(r, name, Table(p), new)
      /\ Changes(r) \cap Slots(s) = {}
      /\ PositionedIn(s, Table(p), kfds[g], ofds, size, unlinked)
  BY PositionedIs DEF Turning, PositionsAreIn
<1>2. ASSUME s.nr \in {"open", "creat"}, NEW e \in new, s.ret \in e.slots
      PROVE  e.slots = {s.ret}
  <2>1. CASE Follows(r) /\ e.slots = {r.ret}
    BY <1>2, <2>1
  <2>2. ASSUME NEW f \in Table(p), Becomes(r, f, e)
        PROVE  e.slots = {s.ret}
    <3>1. s.ret \in Slots(s) /\ Slots(r) \cap Slots(s) = {}
      BY <1>1, <1>2, ChangesAre DEF Commute, Apart
    <3>2. e.slots = (f.slots \ Gone(r)) \cup Joined(r, f.slots) /\ Gone(r) \subseteq Slots(r)
      BY <1>1, <2>2, ChangesAre DEF Becomes
    <3>3. \A fd \in Joined(r, f.slots) : r.nr \in Dups /\ fd = r.ret /\ r.fd \in f.slots
                                         /\ fd \in Slots(r) /\ r.fd \in Slots(r)
      BY <1>1, ChangesAre DEF Joined, Slots, Dups
    <3>4. s.ret \in f.slots
      BY <1>2, <3>1, <3>2, <3>3
    <3>5. f.slots = {s.ret}
      BY <1>1, <1>2, <3>4 DEF PositionedIn
    <3> QED  BY <3>1, <3>2, <3>3, <3>5
  <2> QED  BY <1>1, <2>1, <2>2, TurnedFrom
<1>3. s.nr \notin {"open", "creat"} => PositionedIn(s, new, kfds[g], ofds, size, unlinked)
  BY <1>1 DEF PositionedIn
<1>4. s.nr \in {"open", "creat"} => PositionedIn(s, new, kfds[g], ofds, size, unlinked)
  BY <1>1, <1>2 DEF PositionedIn
<1> QED  BY <1>3, <1>4

LEMMA TurningKeeps ==
  ASSUME TypedInv, LifeInv, TypedInv', LifeInv', LengthsAgree, NEW p \in Pid, NEW r, NEW g,
         NEW name, NEW new, Turning(p, r, g, name, new), StandsOn(g)
  PROVE  StandsOn(g)'
<1>1. /\ g \in Pid /\ group[g] = g /\ group[p] = g /\ stop[p].event = "syscall"
      /\ stop'[p].event = "running"
      /\ p \in Calls(g) /\ Calls(g)' = Calls(g) \ {p} /\ stop[p].regs = r
      /\ \A q \in Calls(g) : q # p => stop'[q] = stop[q] /\ Table(q)' = new
      /\ \A q \in Pid \ {p} : stop'[q] = stop[q]
      /\ Live(g) /\ Table(g) = Table(p) /\ Table(g)' = new
      /\ UNCHANGED <<kfds, ofds, size, unlinked, group>>
  BY DEF Turning, files
<1>2. /\ Positioned(r, Table(p), kfds[g])
      /\ Grouped(Table(p), kfds[g], Busy(g)) /\ Follow(g, Busy(g))
      /\ \A q \in Calls(g) : q # p => Commute(r, stop[q].regs, kfds[g])
  BY <1>1 DEF StandsOn
<1>3. ProgramsKnown /\ ProgramsKnown'
  BY ProgramsAre, ProgramsAreNext
<1>4. \A o : Sole(o)' <=> Sole(o)
  BY <1>1 DEF Sole
<1>5. \A a, b \in Calls(g)' : a # b => Commute(stop'[a].regs, stop'[b].regs, kfds'[g])
  BY <1>1 DEF StandsOn
<1>6. \A q \in Calls(g)' : Positioned(stop[q].regs, Table(q), kfds[g])'
  <2> TAKE q \in Calls(g)'
  <2>1. q \in Calls(g) /\ q # p
    BY <1>1
  <2>2. PositionedIn(stop[q].regs, new, kfds[g], ofds, size, unlinked)
    BY <1>2, <2>1, TurningPositioned DEF StandsOn
  <2>3. PositionedIn(stop'[q].regs, Table(q)', kfds'[g], ofds', size', unlinked')
    BY <1>1, <2>1, <2>2
  <2> QED  BY <2>3, PositionedIsNext DEF PositionsAreIn
<1>7. Grouped(Table(g), kfds[g], Busy(g))'
  <2>1. Grouped(new, kfds[g], Busy(g)')
    BY <1>2, TurningGroups
  <2> QED  BY <1>1, <1>4, <2>1 DEF Grouped
<1>8. Live(g)' => Follow(g, Busy(g))'
  <2>1. Stands(g, Table(p), Busy(g))
    BY <1>1, <1>2, <1>3 DEF ProgramsKnown
  <2>2. \A e \in new : \A a \in e.slots \ Busy(g)' : \A o \in Ofd :
          o = kfds[g][a].ofd /\ Sole(o) /\ Pending(g, e.slots, {"lseek"})' = {} =>
            e.file.CurrPos + Cardinality(Pending(g, e.slots, {"write"}))' = Landing(ofds[o])
    BY <1>2, <2>1, TurningStands
  <2>3. \A o : Landing(ofds[o])' = Landing(ofds[o])
    BY <1>1 DEF Landing
  <2>4. \A e \in new : \A a \in e.slots \ Busy(g)' : \A o \in Ofd :
          o = kfds'[g][a].ofd /\ Sole(o)' /\ Pending(g, e.slots, {"lseek"})' = {} =>
            e.file.CurrPos + Cardinality(Pending(g, e.slots, {"write"}))' = Landing(ofds[o])'
    BY <1>1, <1>4, <2>2, <2>3
  <2>5. Stands(g, Table(g), Busy(g))'
    BY <1>1, <2>4 DEF Stands
  <2> QED  BY <1>1, <1>3, <2>5 DEF ProgramsKnown
<1>9. stop'[g].event # "exec" /\ stop'[g].event # "born"
  <2>1. CASE g = p
    BY <1>1, <2>1
  <2>2. CASE g # p
    <3>1. stop[p] # Absent /\ stop[p].event # "born"
      BY <1>1, Events
    <3>2. stop[g].event # "exec"
      BY <1>1, <2>2, <3>1, LonersAreApart DEF TypedInv
    <3>3. stop[g].event # "born"
      <4>1. GroupInv
        BY <3>1, ActorsAreThere DEF TypedInv
      <4> QED  BY <1>1, <2>2, <3>1, <4>1 DEF GroupInv
    <3> QED  BY <1>1, <2>2, <3>2, <3>3
  <2> QED  BY <2>1, <2>2
<1> QED  BY <1>5, <1>6, <1>7, <1>8, <1>9 DEF StandsOn

\* What is the same for a process of which neither the descriptors nor the
\* descriptions nor the threads have changed.
LEMMA KernelRests ==
  ASSUME KernelTyped, UNCHANGED <<files, ofds>>, NEW g \in Pid, kfds'[g] = kfds[g],
         Calls(g)' = Calls(g), \A q \in Calls(g) : stop'[q] = stop[q] /\ Table(q)' = Table(q),
         Live(g)' => Live(g) /\ Table(g)' = Table(g),
         stop'[g].event = "exec" => stop[g].event = "exec" /\ Table(g)' = Table(g),
         stop'[g].event = "born" /\ group'[g] = g => stop[g].event = "born" /\ group[g] = g
  PROVE  Rests(g)
<1>1. \A o : Landing(ofds[o])' = Landing(ofds[o]) /\ size' = size /\ unlinked' = unlinked
  BY DEF Landing, files
<1> QED  BY <1>1 DEF Rests

LEMMA AnsweredRests ==
  ASSUME TypedInv, LifeInv, NEW p \in Pid, NEW new, Answered(p, new),
         UNCHANGED <<files, use, kfds, ofds>>, NEW g \in Pid, group[p] # g
  PROVE  Rests(g)
<1>1. /\ stop[p].event = "syscall" /\ stop' = [stop EXCEPT ![p] = Running]
      /\ UNCHANGED <<ProcMap, GroupLeaders, group>> /\ Fds' = [Fds EXCEPT ![ProcMap[p]] = new]
  BY DEF Answered
<1>2. Running.event = "running" /\ stop[p] # Absent /\ stop[p].event # "born"
  BY <1>1, Events
<1>3. /\ \A q \in Pid : stop'[q] = IF q = p THEN Running ELSE stop[q]
      /\ group' = group /\ ProcMap' = ProcMap
  BY <1>1 DEF LifeInv, ThreadInv
<1>4. /\ p \in Registered /\ group[p] \in Pid
      /\ \A q \in Registered : ProcMap[q] = ProcMap[p] <=> group[q] = group[p]
  BY <1>2, ActorsAreThere, LeadersAreKnown DEF TypedInv
<1>5. \A q \in Registered : group[q] # group[p] => Table(q)' = Table(q)
  <2>1. \A q \in Registered : ProcMap[q] \in ProcState
    BY TableOfRegistered DEF TypedInv
  <2> QED  BY <1>1, <1>3, <1>4, <2>1 DEF TypedInv, ContextTyped, Table
<1>6. \A q \in Pid : stop[q] # Absent /\ stop[q].event # "born" => q \in Registered
  BY LeadersAreKnown DEF TypedInv
<1>7. Calls(g)' = Calls(g)
  BY <1>3 DEF Calls
<1>8. ASSUME NEW q \in Calls(g)
      PROVE  stop'[q] = stop[q] /\ Table(q)' = Table(q)
  <2>1. q \in Pid /\ group[q] = g /\ stop[q].event = "syscall"
    BY DEF Calls
  <2>2. q \in Registered
    BY <1>6, <2>1, Events
  <2> QED  BY <1>3, <1>5, <2>1, <2>2
<1>9. ASSUME Live(g)'
      PROVE  Live(g) /\ Table(g)' = Table(g)
  <2>1. Live(g)
    BY <1>2, <1>3, <1>9 DEF Live
  <2>2. PICK q \in Pid : group[q] = g /\ stop[q].event \in {"running", "syscall", "fork", "clone"}
    BY <2>1 DEF Live
  <2>3. stop[q] # Absent /\ stop[q].event # "born"
    BY <2>2, Events
  <2>4. g \in Registered /\ group[g] = g
    BY <2>1, <2>2, <2>3, LeadersAreKnown DEF TypedInv, Live
  <2> QED  BY <1>5, <2>1, <2>4
<1>10. stop'[g].event = "exec" => stop[g].event = "exec" /\ Table(g)' = Table(g)
  <2> SUFFICES ASSUME stop'[g].event = "exec"
               PROVE  stop[g].event = "exec" /\ Table(g)' = Table(g)
    OBVIOUS
  <2>1. g # p /\ stop'[g] = stop[g]
    BY <1>2, <1>3
  <2>2. group[g] # group[p]
    BY <1>2, <2>1, LonersAreApart DEF TypedInv
  <2>3. g \in Registered
    BY <1>6, <2>1, Events
  <2> QED  BY <1>5, <2>1, <2>2, <2>3
<1>11. stop'[g].event = "born" => stop[g].event = "born"
  BY <1>2, <1>3
<1> QED  BY <1>3, <1>7, <1>8, <1>9, <1>10, <1>11, KernelRests DEF TypedInv

LEMMA SyscallKeepsPositions ==
  ASSUME TypedInv, LifeInv, TypedInv', LifeInv', PositionInv, OutputSize \in Nat, NEW p \in Pid,
         HandleSyscall(p), UNCHANGED <<files, use, kfds, ofds, quirks>>
  PROVE  PositionInv'
<1>1. OneOwner' /\ LengthsAgree' /\ (OneWriter => OneWriter')
  BY DEF PositionInv, OneOwner, LengthsAgree, OneWriter, Sole, files
<1>2. stop[p].event = "syscall"
  BY DEF HandleSyscall
<1>3. ~Over
  BY <1>2, Events DEF Over
<1>4. CASE Over'
  BY <1>1, <1>4 DEF PositionInv
<1>5. ASSUME Without(PositionKinds), ContextTyped', NEW r, r = stop[p].regs, NEW new, Answered(p, new),
             Turns(p, r, IF Follows(r) THEN At(p, r.ret).name ELSE None, new)
      PROVE  \A g \in Pid : StandsOn(g)'
  <2> TAKE g \in Pid
  <2>1. StandsOn(g) /\ LengthsAgree
    BY <1>3, <1>5 DEF PositionInv
  <2>2. CASE g = group[p]
    <3>1. \A a, b \in Calls(g) : a # b => Apart(stop[a].regs, stop[b].regs)
      BY <2>1 DEF StandsOn, Commute
    <3>2. Turning(p, r, g, IF Follows(r) THEN At(p, r.ret).name ELSE None, new)
      BY <1>5, <2>2, <3>1, AnsweredTurns
    <3> QED  BY <2>1, <3>2, TurningKeeps
  <2>3. CASE g # group[p]
    BY <1>5, <2>1, <2>3, AnsweredRests, RestsStands
  <2> QED  BY <2>2, <2>3
<1>6. Without(PositionKinds)' => Without(PositionKinds)
  BY DEF Without
<1> QED  BY <1>1, <1>3, <1>4, <1>5, <1>6, SyscallIsTurned DEF PositionInv

------------------------------------------------------------------------------
(* Processes and threads begin and end *)

\* The context has done nothing, and the files are as they were.
LEMMA ThreadsRest ==
  ASSUME UNCHANGED <<files, contextVars>>, NEW g \in Pid, kfds'[g] = kfds[g],
         \A o \in Ofd : Holds(g, o) =>
           /\ ofds'[o].name = ofds[o].name /\ ofds'[o].write = ofds[o].write
           /\ ofds'[o].split = ofds[o].split /\ ofds'[o].append = ofds[o].append
           /\ ofds'[o].pos = ofds[o].pos,
         \A q \in Pid : q \in Calls(g)' <=> q \in Calls(g),
         \A q \in Calls(g) : stop'[q] = stop[q],
         Live(g)' => Live(g), stop'[g].event = "exec" => stop[g].event = "exec",
         stop'[g].event = "born" /\ group'[g] = g => stop[g].event = "born" /\ group[g] = g
  PROVE  Rests(g)
<1>1. UNCHANGED <<size, unlinked>> /\ \A q : Table(q)' = Table(q)
  BY DEF files, contextVars, Table
<1>2. Calls(g)' = Calls(g)
  BY DEF Calls
<1>3. \A o \in Ofd : Holds(g, o) =>
        /\ Landing(ofds[o])' = Landing(ofds[o])
        /\ size'[ofds[o].name] = size[ofds[o].name]
  BY <1>1 DEF Landing
<1> QED  BY <1>1, <1>2, <1>3 DEF Rests

\* No process comes to hold what another one does.
LEMMA OwnersStay ==
  ASSUME OneOwner,
         \A q \in Pid, fd \in Fd :
           Sole(kfds[q][fd].ofd)' =>
             Sole(kfds'[q][fd].ofd) /\ \E a \in Fd : kfds[q][a].ofd = kfds'[q][fd].ofd
  PROVE  OneOwner'
<1>1. ASSUME NEW p \in Pid, NEW q \in Pid, NEW a \in Fd, NEW b \in Fd,
             Sole(kfds[p][a].ofd)', kfds'[q][b].ofd = kfds'[p][a].ofd
      PROVE  p = q
  <2>1. Sole(kfds[q][b].ofd)'
    BY <1>1 DEF Sole
  <2>2. PICK c \in Fd : kfds[p][c].ofd = kfds'[p][a].ofd
    BY <1>1
  <2>3. PICK d \in Fd : kfds[q][d].ofd = kfds'[q][b].ofd
    BY <2>1
  <2>4. Sole(kfds'[p][a].ofd)
    BY <1>1
  <2>5. Sole(kfds[p][c].ofd) /\ kfds[q][d].ofd = kfds[p][c].ofd
    BY <1>1, <2>2, <2>3, <2>4
  <2> QED  BY <2>5 DEF OneOwner
<1> QED  BY <1>1 DEF OneOwner

LEMMA WritersStay ==
  ASSUME OneWriter,
         \A d \in Ofd : ofds'[d].write => ofds[d].write /\ ofds'[d].name = ofds[d].name
  PROVE  OneWriter'
BY DEF OneWriter

\* A process all descriptions of which more than one TFileState follows.
LEMMA UnfollowedStands ==
  ASSUME NEW g \in Pid, Calls(g)' = {}, \A fd \in Fd : ~Sole(kfds[g][fd].ofd)',
         Live(g)' => /\ Table(g)' \in SUBSET Entry
                     /\ \A e \in Table(g)' : \A a, b \in e.slots :
                          /\ kfds'[g][a].ofd = None => e.slots = {a}
                          /\ kfds'[g][b].ofd = kfds'[g][a].ofd,
         stop'[g].event # "exec"
  PROVE  StandsOn(g)'
<1>1. Live(g)' => Grouped(Table(g), kfds[g], Busy(g))' /\ Follow(g, Busy(g))'
  <2> SUFFICES ASSUME Live(g)'
               PROVE  Grouped(Table(g), kfds[g], Busy(g))' /\ Follow(g, Busy(g))'
    OBVIOUS
  <2>1. \A e \in Table(g)' : \A a \in e.slots : a \in Fd /\ ~Sole(kfds[g][a].ofd)'
    BY DEF Entry
  <2> QED  BY <2>1 DEF Grouped, Follow
<1> QED  BY <1>1 DEF StandsOn

LEMMA ForkKeepsPositions ==
  ASSUME TypedInv, LifeInv, TypedInv', LifeInv', PositionInv, NEW p \in Pid, NEW child \in Pid,
         stop[p] = Running, Fork(p, child), UNCHANGED contextVars, quirks \subseteq quirks'
  PROVE  PositionInv'
<1> DEFINE inherited == {kfds[p][fd].ofd : fd \in {f \in Fd : Writable(p, f)}}
           s == [Running EXCEPT !.event = "fork", !.child = child]
           born == [Absent EXCEPT !.event = "born"]
<1>1. /\ s.event = "fork" /\ s.child = child /\ born.event = "born" /\ Running.event = "running"
      /\ Absent.event = "absent" /\ Running # Absent
  BY Events
<1>2. /\ kfds' = [kfds EXCEPT ![child] = kfds[p]] /\ ofds' = Split(ofds, inherited)
      /\ stop' = [stop EXCEPT ![p] = s, ![child] = born]
      /\ group' = [group EXCEPT ![child] = child]
      /\ stop[child] = Absent /\ Members(p) = {p} /\ UNCHANGED files
  BY DEF Fork
<1>3. group[p] = p /\ \A q \in Pid : stop[q] # Absent /\ group[q] = p => q = p
  BY <1>1, <1>2, LonersAre DEF TypedInv
<1>4. \A fd \in Fd : kfds[p][fd].ofd # None /\ ofds[kfds[p][fd].ofd].write
                     => kfds[p][fd].ofd \in inherited
  BY <1>3 DEF Writable, IsOpen, At, Descriptors
<1>5. \A o \in inherited : /\ o # None /\ ofds[o].write /\ \E fd \in Fd : kfds[p][fd].ofd = o
  BY <1>3 DEF Writable, IsOpen, At, Descriptors
<1> HIDE DEF s, born, inherited
<1>6. /\ \A q \in Pid : stop'[q] = IF q = child THEN born ELSE IF q = p THEN s ELSE stop[q]
      /\ \A q \in Pid : group'[q] = IF q = child THEN child ELSE group[q]
      /\ \A q \in Pid : kfds'[q] = IF q = child THEN kfds[p] ELSE kfds[q]
      /\ \A q : Table(q)' = Table(q)
      /\ p # child
  BY <1>1, <1>2 DEF LifeInv, ThreadInv, TypedInv, KernelTyped, contextVars, Table
<1>7. \A q \in Pid : stop[q] # Absent => group[q] # child
  BY <1>2, NobodyYet DEF TypedInv
<1>8. \A o \in Ofd : /\ ofds'[o].name = ofds[o].name /\ ofds'[o].write = ofds[o].write
                     /\ ofds'[o].append = ofds[o].append /\ ofds'[o].pos = ofds[o].pos
                     /\ ofds'[o].split <=> (ofds[o].split \/ o \in inherited)
  <2>1. \A o \in Ofd : ofds'[o] = [ofds[o] EXCEPT !.split = @ \/ o \in inherited]
    BY <1>2 DEF Split
  <2>2. \A o \in Ofd : ofds[o] \in Description
    BY DEF TypedInv, KernelTyped
  <2> QED  BY <2>1, <2>2 DEF Description
<1>9. \A q \in Pid, fd \in Fd : kfds[q][fd].ofd \in Ofd \cup {None}
  BY DEF TypedInv, KernelTyped
<1>10. OneOwner /\ LengthsAgree /\ ~Over
  BY <1>1 DEF PositionInv, Over
<1>11. \A fd \in Fd : ~Sole(kfds[p][fd].ofd)' /\ ~Sole(kfds[child][fd].ofd)'
  <2>1. \A fd \in Fd : ~SoleIn(kfds[p][fd].ofd, ofds')
    BY <1>4, <1>8, <1>9 DEF SoleIn
  <2> QED  BY <1>6, <2>1 DEF Sole, SoleIn
<1>12. OneOwner'
  <2>1. ASSUME NEW q \in Pid, NEW fd \in Fd, Sole(kfds[q][fd].ofd)'
        PROVE  Sole(kfds'[q][fd].ofd) /\ \E a \in Fd : kfds[q][a].ofd = kfds'[q][fd].ofd
    <3>1. q # p /\ q # child /\ kfds'[q] = kfds[q]
      BY <1>6, <1>11, <2>1
    <3>2. SoleIn(kfds[q][fd].ofd, ofds')
      BY <2>1, <3>1 DEF Sole, SoleIn
    <3>3. SoleIn(kfds[q][fd].ofd, ofds)
      BY <1>8, <1>9, <3>2 DEF SoleIn
    <3> QED  BY <3>1, <3>3 DEF Sole, SoleIn
  <2> QED  BY <1>10, <2>1, OwnersStay
<1>13. OneWriter => OneWriter'
  BY <1>8, WritersStay
<1>14. LengthsAgree'
  BY <1>2, <1>10 DEF LengthsAgree, files
<1>15. ASSUME Without(PositionKinds)', NEW g \in Pid
       PROVE  StandsOn(g)'
  <2>1. \A q \in Pid : StandsOn(q)
    BY <1>10, <1>15 DEF PositionInv, Without
  <2>2. CASE g # p /\ g # child
    <3>1. ASSUME NEW o \in Ofd, Holds(g, o)
          PROVE  ofds'[o].split = ofds[o].split
      <4>1. o \in inherited => ofds[o].split
        <5> SUFFICES ASSUME o \in inherited, ~ofds[o].split PROVE FALSE
          BY DEF TypedInv, KernelTyped, Description
        <5>1. Sole(o)
          BY <1>5 DEF Sole
        <5> QED  BY <1>5, <1>10, <2>2, <3>1, <5>1 DEF OneOwner, Holds
      <4>2. ofds[o].split \in BOOLEAN /\ ofds'[o].split \in BOOLEAN
        BY DEF TypedInv, KernelTyped, Description
      <4> QED  BY <1>8, <4>1, <4>2
    <3>2. \A q \in Pid : q \in Calls(g)' <=> q \in Calls(g)
      <4> TAKE q \in Pid
      <4>1. CASE q = child
        BY <1>1, <1>2, <1>6, <2>2, <4>1 DEF Calls
      <4>2. CASE q = p
        BY <1>1, <1>2, <1>6, <4>2 DEF Calls
      <4>3. CASE q # child /\ q # p
        BY <1>6, <4>3 DEF Calls
      <4> QED  BY <4>1, <4>2, <4>3
    <3>3. \A q \in Calls(g) : stop'[q] = stop[q]
      BY <1>1, <1>2, <1>6 DEF Calls
    <3>4. Live(g)' => Live(g)
      BY <1>1, <1>2, <1>6, <2>2 DEF Live
    <3>5. stop'[g] = stop[g] /\ group'[g] = group[g] /\ kfds'[g] = kfds[g]
      BY <1>6, <2>2
    <3>6. Rests(g)
      BY <1>2, <1>8, <3>1, <3>2, <3>3, <3>4, <3>5, ThreadsRest
    <3> QED  BY <2>1, <3>6, RestsStands
  <2>3. CASE g = p
    <3>1. \A q \in Pid : group'[q] = p => stop'[q].event # "syscall"
      <4> SUFFICES ASSUME NEW q \in Pid, group'[q] = p PROVE stop'[q].event # "syscall"
        OBVIOUS
      <4>1. q # child /\ group[q] = p
        BY <1>6
      <4>2. q = p \/ stop[q] = Absent
        BY <1>3, <4>1
      <4> QED  BY <1>1, <1>6, <4>1, <4>2
    <3>2. Calls(p)' = {}
      BY <3>1 DEF Calls
    <3>3. Live(p) /\ Calls(p) = {}
      BY <1>1, <1>3 DEF Live, Calls
    <3>4. Busy(p) = {}
      BY <3>3 DEF Busy
    <3>5. Grouped(Table(p), kfds[p], {}) /\ Table(p) \in SUBSET Entry
      BY <2>1, <3>3, <3>4, ProgramsAre DEF StandsOn, ProgramsKnown
    <3>6. \A e \in Table(p)' : \A a, b \in e.slots :
            /\ kfds'[p][a].ofd = None => e.slots = {a}
            /\ kfds'[p][b].ofd = kfds'[p][a].ofd
      BY <1>6, <3>5 DEF Grouped
    <3>7. stop'[p].event # "exec"
      BY <1>1, <1>6
    <3> QED  BY <1>6, <1>11, <2>3, <3>2, <3>5, <3>6, <3>7, UnfollowedStands
  <2>4. CASE g = child
    <3>1. \A q \in Pid : group'[q] = child => stop'[q].event \in {"absent", "born"}
      <4> SUFFICES ASSUME NEW q \in Pid, group'[q] = child, q # child
                   PROVE  stop'[q].event = "absent"
        BY <1>1, <1>6
      <4>1. stop[q] = Absent
        BY <1>6, <1>7
      <4>2. q # p
        BY <1>1, <4>1
      <4> QED  BY <1>1, <1>6, <4>1, <4>2
    <3>2. Calls(child)' = {} /\ ~Live(child)'
      BY <3>1 DEF Calls, Live
    <3>3. stop'[child].event # "exec"
      BY <1>1, <1>6
    <3> QED  BY <1>11, <2>4, <3>2, <3>3, UnfollowedStands
  <2> QED  BY <2>2, <2>3, <2>4
<1>16. Without(PositionKinds)' => Without(PositionKinds)
  BY DEF Without
<1> QED  BY <1>10, <1>12, <1>13, <1>14, <1>15, <1>16 DEF PositionInv

LEMMA CloneKeepsPositions ==
  ASSUME TypedInv, LifeInv, TypedInv', LifeInv', PositionInv, NEW p \in Pid, NEW thread \in Pid,
         stop[p] = Running, Clone(p, thread), UNCHANGED contextVars
  PROVE  PositionInv'
<1> DEFINE s == [Running EXCEPT !.event = "clone", !.child = thread]
           born == [Absent EXCEPT !.event = "born"]
<1>1. /\ s.event = "clone" /\ born.event = "born" /\ Running.event = "running"
      /\ Absent.event = "absent" /\ Running # Absent
  BY Events
<1>2. /\ stop' = [stop EXCEPT ![p] = s, ![thread] = born]
      /\ group' = [group EXCEPT ![thread] = group[p]]
      /\ stop[thread] = Absent /\ UNCHANGED <<kfds, ofds, files, quirks>>
  BY DEF Clone
<1> HIDE DEF s, born
<1>3. /\ \A q \in Pid : stop'[q] = IF q = thread THEN born ELSE IF q = p THEN s ELSE stop[q]
      /\ \A q \in Pid : group'[q] = IF q = thread THEN group[p] ELSE group[q]
      /\ p # thread
  <2>1. stop = [q \in Pid |-> stop[q]] /\ group \in [Pid -> Pid \cup {None}]
    BY Zenon DEF LifeInv, ThreadInv, TypedInv, KernelTyped
  <2>2. p # thread
    BY <1>1, <1>2
  <2> QED  BY <1>2, <2>1, <2>2
<1>4. group[p] # thread
  BY <1>1, <1>2, NobodyYet DEF TypedInv
<1>5. ASSUME NEW g \in Pid
      PROVE  Rests(g)
  <2>1. \A q \in Pid : q \in Calls(g)' <=> q \in Calls(g)
    <3> SUFFICES ASSUME NEW q \in Pid PROVE q \in Calls(g)' <=> q \in Calls(g)
      OBVIOUS
    <3>1. CASE q \in {p, thread}
      <4>1. stop[q].event # "syscall" /\ stop'[q].event # "syscall"
        BY <1>1, <1>2, <1>3, <3>1
      <4> QED  BY <4>1 DEF Calls
    <3>2. CASE q \notin {p, thread}
      <4>1. stop'[q] = stop[q] /\ group'[q] = group[q]
        BY <1>3, <3>2
      <4> QED  BY <4>1 DEF Calls
    <3> QED  BY <3>1, <3>2
  <2>2. \A q \in Calls(g) : stop'[q] = stop[q]
    <3>1. \A q \in Calls(g) : q \in Pid /\ stop[q].event = "syscall"
      BY DEF Calls
    <3> QED  BY <1>1, <1>2, <1>3, <3>1
  <2>3. Live(g)' => Live(g)
    BY <1>1, <1>2, <1>3, <1>4 DEF Live
  <2>4. /\ stop'[g].event = "exec" => stop[g].event = "exec"
        /\ stop'[g].event = "born" /\ group'[g] = g => stop[g].event = "born" /\ group[g] = g
    BY <1>1, <1>3, <1>4
  <2> QED  BY <1>2, <2>1, <2>2, <2>3, <2>4, ThreadsRest
<1>6. OneOwner' /\ LengthsAgree' /\ (OneWriter => OneWriter')
  BY <1>2 DEF PositionInv, OneOwner, LengthsAgree, OneWriter, Sole, files
<1>7. ~Over /\ (Without(PositionKinds)' => Without(PositionKinds))
  BY <1>1, <1>2 DEF Without, Over
<1> QED  BY <1>5, <1>6, <1>7, RestsStands DEF PositionInv

LEMMA ThreadExitKeepsPositions ==
  ASSUME TypedInv, LifeInv, TypedInv', LifeInv', PositionInv, NEW p \in Pid,
         stop[p] = Running, ThreadExit(p), UNCHANGED contextVars
  PROVE  PositionInv'
<1> DEFINE s == [Running EXCEPT !.event = "exit"]
<1>1. s.event = "exit" /\ Running.event = "running" /\ Running # Absent
  BY Events
<1>2. /\ stop' = [stop EXCEPT ![p] = s] /\ UNCHANGED <<group, kfds, ofds, files, quirks>>
  BY DEF ThreadExit
<1> HIDE DEF s
<1>3. \A q \in Pid : stop'[q] = IF q = p THEN s ELSE stop[q]
  BY <1>2 DEF LifeInv, ThreadInv
<1>4. ASSUME NEW g \in Pid
      PROVE  Rests(g)
  <2>1. \A q \in Pid : q \in Calls(g)' <=> q \in Calls(g)
    BY <1>1, <1>2, <1>3 DEF Calls
  <2>2. \A q \in Calls(g) : stop'[q] = stop[q]
    BY <1>1, <1>3 DEF Calls
  <2>3. Live(g)' => Live(g)
    BY <1>1, <1>2, <1>3 DEF Live
  <2>4. /\ stop'[g].event = "exec" => stop[g].event = "exec"
        /\ stop'[g].event = "born" /\ group'[g] = g => stop[g].event = "born" /\ group[g] = g
    BY <1>1, <1>2, <1>3
  <2> QED  BY <1>2, <2>1, <2>2, <2>3, <2>4, ThreadsRest
<1>5. OneOwner' /\ LengthsAgree' /\ (OneWriter => OneWriter')
  BY <1>2 DEF PositionInv, OneOwner, LengthsAgree, OneWriter, Sole, files
<1>6. ~Over /\ (Without(PositionKinds)' => Without(PositionKinds))
  BY <1>1, <1>2 DEF Without, Over
<1> QED  BY <1>4, <1>5, <1>6, RestsStands DEF PositionInv

LEMMA ExecKeepsPositions ==
  ASSUME TypedInv, LifeInv, TypedInv', LifeInv', PositionInv, NEW p \in Pid,
         stop[p] = Running, Exec(p), UNCHANGED contextVars, quirks \subseteq quirks'
  PROVE  PositionInv'
<1> DEFINE table == [fd \in Fd |-> IF kfds[p][fd].cloexec THEN Closed ELSE kfds[p][fd]]
           dups == {o \in Ofd : ofds[o].write /\ \E a, b \in Fd :
                                  a # b /\ table[a].ofd = o /\ table[b].ofd = o}
           fds == [kfds EXCEPT ![p] = table]
           descriptions == Split(ofds, dups)
           s == [Running EXCEPT !.event = "exec"]
<1>1. s.event = "exec" /\ Running.event = "running" /\ Absent.event = "absent" /\ Running # Absent
  BY Events
<1>2. /\ SetDescriptors(fds, descriptions) /\ group' = group /\ Members(p) = {p}
      /\ stop' = [stop EXCEPT ![p] = s] /\ UNCHANGED files
  BY DEF Exec
<1>3. table \in [Fd -> [ofd : Ofd \cup {None}, cloexec : BOOLEAN]]
  BY FreeTyped DEF TypedInv, KernelTyped
<1>4. \A fd \in Fd : table[fd] = kfds[p][fd] \/ table[fd].ofd = None
  BY DEF Closed
<1>5. \A o \in dups : /\ ofds[o].write /\ o \in Ofd
                      /\ \E fd \in Fd : table[fd].ofd = o
  OBVIOUS
<1>6. \A a, b \in Fd : a # b /\ table[b].ofd = table[a].ofd /\ table[a].ofd \in Ofd
                       /\ ofds[table[a].ofd].write => table[a].ofd \in dups
  OBVIOUS
<1> HIDE DEF table, dups, s
<1>7. fds \in Entries /\ \A q \in Pid : fds[q] = IF q = p THEN table ELSE kfds[q]
  BY <1>3 DEF TypedInv, KernelTyped, Entries
<1>8. /\ descriptions \in [Ofd -> Description]
      /\ \A o \in Ofd :
           /\ descriptions[o].name = ofds[o].name /\ descriptions[o].write = ofds[o].write
           /\ descriptions[o].append = ofds[o].append /\ descriptions[o].pos = ofds[o].pos
           /\ descriptions[o].split <=> (ofds[o].split \/ o \in dups)
  <2>1. \A o \in Ofd : descriptions[o] = [ofds[o] EXCEPT !.split = @ \/ o \in dups]
    BY DEF Split
  <2>2. \A o \in Ofd : ofds[o] \in Description
    BY DEF TypedInv, KernelTyped
  <2>3. descriptions \in [Ofd -> Description]
    BY SplitTyped DEF TypedInv, KernelTyped
  <2> HIDE DEF descriptions
  <2> QED  BY <2>1, <2>2, <2>3 DEF Description
<1> HIDE DEF fds, descriptions
<1>9. /\ kfds' = fds
      /\ \A q \in Pid, fd \in Fd :
           fds[q][fd].ofd # None => ofds'[fds[q][fd].ofd] = descriptions[fds[q][fd].ofd]
      /\ \A o \in Ofd : ofds'[o] = descriptions[o] \/ ofds'[o] = Free
  BY <1>2, <1>7, <1>8, DescriptorsSet
<1>10. \A q \in Pid, fd \in Fd : fds[q][fd].ofd \in Ofd \cup {None}
  BY <1>7 DEF Entries
<1>11. /\ \A q \in Pid : stop'[q] = IF q = p THEN s ELSE stop[q]
       /\ \A q : Table(q)' = Table(q)
  BY <1>2 DEF LifeInv, ThreadInv, contextVars, Table
<1>12. group[p] = p /\ \A q \in Pid : stop[q] # Absent /\ group[q] = p => q = p
  BY <1>1, <1>2, LonersAre DEF TypedInv
<1>13. OneOwner /\ LengthsAgree /\ ~Over
  BY <1>1 DEF PositionInv, Over
<1>14. \A q \in Pid, fd \in Fd :
         Sole(kfds[q][fd].ofd)' =>
           /\ Sole(kfds'[q][fd].ofd) /\ kfds'[q][fd].ofd = kfds[q][fd].ofd
           /\ kfds'[q][fd].ofd \in Ofd /\ kfds'[q][fd].ofd \notin dups
           /\ LandingIn(kfds'[q][fd].ofd, ofds', size') = LandingIn(kfds'[q][fd].ofd, ofds, size)
  <2> SUFFICES ASSUME NEW q \in Pid, NEW fd \in Fd, NEW o, o = kfds'[q][fd].ofd, Sole(o)'
               PROVE  /\ Sole(o) /\ o = kfds[q][fd].ofd /\ o \in Ofd /\ o \notin dups
                      /\ LandingIn(o, ofds', size') = LandingIn(o, ofds, size)
    BY DEF Sole
  <2>1. o = fds[q][fd].ofd /\ o # None /\ o \in Ofd
    BY <1>9, <1>10 DEF Sole
  <2>2. o = kfds[q][fd].ofd
    BY <1>4, <1>7, <2>1
  <2>3. ofds'[o] = descriptions[o]
    BY <1>9, <2>1
  <2>4. Sole(o) /\ o \notin dups
    BY <1>8, <2>1, <2>3 DEF Sole
  <2>5. LandingIn(o, ofds', size') = LandingIn(o, ofds, size)
    BY <1>2, <1>8, <2>1, <2>3 DEF LandingIn, files
  <2> QED  BY <2>1, <2>2, <2>4, <2>5
<1>15. OneOwner'
  <2>1. \A q \in Pid, fd \in Fd :
          Sole(kfds[q][fd].ofd)' =>
            Sole(kfds'[q][fd].ofd) /\ \E a \in Fd : kfds[q][a].ofd = kfds'[q][fd].ofd
    BY <1>14
  <2> QED  BY <1>13, <2>1, OwnersStay
<1>16. OneWriter => OneWriter'
  <2>1. \A d \in Ofd : ofds'[d].write => ofds[d].write /\ ofds'[d].name = ofds[d].name
    BY <1>8, <1>9 DEF Free
  <2> QED  BY <2>1, WritersStay
<1>17. LengthsAgree'
  BY <1>2, <1>13 DEF LengthsAgree, files
<1>18. ASSUME Without(PositionKinds)', NEW g \in Pid
       PROVE  StandsOn(g)'
  <2>1. \A q \in Pid : StandsOn(q)
    BY <1>13, <1>18 DEF PositionInv, Without
  <2>2. CASE g # p
    <3>1. kfds'[g] = kfds[g] /\ stop'[g] = stop[g]
      BY <1>7, <1>9, <1>11, <2>2
    <3>2. ASSUME NEW o \in Ofd, Holds(g, o)
          PROVE  /\ ofds'[o].name = ofds[o].name /\ ofds'[o].write = ofds[o].write
                 /\ ofds'[o].split = ofds[o].split /\ ofds'[o].append = ofds[o].append
                 /\ ofds'[o].pos = ofds[o].pos
      <4>1. PICK x \in Fd : kfds[g][x].ofd = o
        BY <3>2 DEF Holds
      <4>2. o # None
        BY AccountingAssumption, Zenon
      <4>3. ofds'[o] = descriptions[o]
        BY <1>9, <3>1, <4>1, <4>2
      <4>4. o \in dups => ofds[o].split
        <5> SUFFICES ASSUME o \in dups, ~ofds[o].split PROVE FALSE
          BY DEF TypedInv, KernelTyped, Description
        <5>1. PICK y \in Fd : table[y].ofd = o
          BY <1>5
        <5>2. kfds[p][y].ofd = o
          BY <1>4, <4>2, <5>1
        <5>3. Sole(o)
          BY <1>5, <4>2 DEF Sole
        <5> QED  BY <1>13, <2>2, <4>1, <5>2, <5>3 DEF OneOwner
      <4>5. ofds[o].split \in BOOLEAN /\ ofds'[o].split \in BOOLEAN
        BY DEF TypedInv, KernelTyped, Description
      <4> QED  BY <1>8, <4>3, <4>4, <4>5
    <3>3. \A q \in Pid : q \in Calls(g)' <=> q \in Calls(g)
      BY <1>1, <1>2, <1>11, <1>12, <2>2 DEF Calls
    <3>4. \A q \in Calls(g) : stop'[q] = stop[q]
      BY <1>1, <1>11, <1>12, <2>2 DEF Calls
    <3>5. Live(g)' => Live(g)
      BY <1>1, <1>2, <1>11 DEF Live
    <3>6. Rests(g)
      BY <1>2, <3>1, <3>2, <3>3, <3>4, <3>5, ThreadsRest
    <3> QED  BY <2>1, <3>6, RestsStands
  <2>3. CASE g = p
    <3>1. \A q \in Pid : group'[q] = p => stop'[q].event \in {"absent", "exec"}
      BY <1>1, <1>2, <1>11, <1>12
    <3>2. Calls(p)' = {} /\ ~Live(p)'
      BY <3>1 DEF Calls, Live
    <3>3. stop'[p].event = "exec"
      BY <1>1, <1>11
    <3>4. Live(p) /\ Calls(p) = {}
      BY <1>1, <1>12 DEF Live, Calls
    <3>5. Busy(p) = {}
      BY <3>4 DEF Busy
    <3>6. ProgramsKnown /\ ProgramsKnown'
      BY ProgramsAre, ProgramsAreNext
    <3>7. Stands(p, Table(p), {}) /\ Table(p) \in SUBSET Entry
      BY <2>1, <3>4, <3>5, <3>6 DEF StandsOn, ProgramsKnown
    <3>8. \A slots, nrs : Pending(p, slots, nrs)' = {} /\ Pending(p, slots, nrs) = {}
      BY <3>2, <3>4 DEF Pending
    <3>9. \A e \in Table(p)' : \A a \in e.slots \ {} : \A o \in Ofd :
            o = kfds'[p][a].ofd /\ Sole(o)' /\ Pending(p, e.slots, {"lseek"})' = {} =>
              e.file.CurrPos + Cardinality(Pending(p, e.slots, {"write"}))' = Landing(ofds[o])'
      <4> SUFFICES ASSUME NEW e \in Table(p)', NEW a \in e.slots, NEW o \in Ofd,
                          o = kfds'[p][a].ofd, Sole(o)'
                   PROVE  e.file.CurrPos + Cardinality(Pending(p, e.slots, {"write"}))'
                          = Landing(ofds[o])'
        OBVIOUS
      <4>1. e \in Table(p) /\ a \in Fd
        BY <1>11, <3>7 DEF Entry
      <4>2. Sole(kfds[p][a].ofd)'
        BY DEF Sole
      <4>3. Sole(o) /\ o = kfds[p][a].ofd /\ Landing(ofds[o])' = Landing(ofds[o])
        BY <1>14, <4>1, <4>2 DEF Landing, LandingIn
      <4>4. e.file.CurrPos + Cardinality(Pending(p, e.slots, {"write"})) = Landing(ofds[o])
        BY <3>7, <3>8, <4>1, <4>3 DEF Stands
      <4>5. Cardinality(Pending(p, e.slots, {"write"}))' = Cardinality(Pending(p, e.slots, {"write"}))
        BY <3>8
      <4> QED  BY <4>3, <4>4, <4>5
    <3>10. Follow(p, {})'
      <4>1. Stands(p, Table(p), {})'
        BY <3>9 DEF Stands
      <4> QED  BY <3>3, <3>6, <4>1 DEF ProgramsKnown
    <3>11. \A a, b \in Fd : Sole(kfds[p][a].ofd)' /\ kfds'[p][b].ofd = kfds'[p][a].ofd => a = b
      <4> SUFFICES ASSUME NEW a \in Fd, NEW b \in Fd, Sole(kfds[p][a].ofd)',
                          kfds'[p][b].ofd = kfds'[p][a].ofd, a # b
                   PROVE  FALSE
        OBVIOUS
      <4>1. /\ Sole(kfds'[p][a].ofd) /\ kfds'[p][a].ofd \in Ofd /\ kfds'[p][a].ofd \notin dups
        BY <1>14
      <4>2. table[a].ofd = kfds'[p][a].ofd /\ table[b].ofd = kfds'[p][a].ofd
        BY <1>7, <1>9
      <4> QED  BY <1>6, <4>1, <4>2 DEF Sole
    <3> QED  BY <2>3, <3>2, <3>3, <3>10, <3>11 DEF StandsOn
  <2> QED  BY <2>2, <2>3
<1>19. Without(PositionKinds)' => Without(PositionKinds)
  BY DEF Without
<1> QED  BY <1>13, <1>15, <1>16, <1>17, <1>18, <1>19 DEF PositionInv

LEMMA ExitKeepsPositions ==
  ASSUME TypedInv, LifeInv, TypedInv', LifeInv', PositionInv, NEW p \in Pid,
         stop[p] = Running, Exit(p), UNCHANGED contextVars, quirks \subseteq quirks'
  PROVE  PositionInv'
<1> DEFINE fds == [kfds EXCEPT ![group[p]] = AllClosed]
           s == [Running EXCEPT !.event = "exit"]
<1>1. s.event = "exit" /\ Running.event = "running" /\ Absent.event = "absent" /\ Running # Absent
  BY Events
<1>2. /\ SetDescriptors(fds, ofds) /\ group' = group /\ UNCHANGED files
      /\ stop' = [q \in Pid |-> IF q \in Members(p) THEN s ELSE stop[q]]
  BY DEF Exit
<1>3. group[p] \in Pid /\ OneOwner /\ LengthsAgree /\ ~Over
  BY <1>1, ActorsAreThere DEF TypedInv, PositionInv
<1>4. /\ AllClosed \in [Fd -> [ofd : Ofd \cup {None}, cloexec : BOOLEAN]]
      /\ \A fd \in Fd : AllClosed[fd].ofd = None
  BY FreeTyped DEF AllClosed, Closed
<1> HIDE DEF s
<1>5. fds \in Entries /\ \A q \in Pid : fds[q] = IF q = group[p] THEN AllClosed ELSE kfds[q]
  BY <1>3, <1>4 DEF TypedInv, KernelTyped, Entries
<1> HIDE DEF fds
<1>6. /\ kfds' = fds
      /\ \A q \in Pid, fd \in Fd : fds[q][fd].ofd # None => ofds'[fds[q][fd].ofd] = ofds[fds[q][fd].ofd]
      /\ \A o \in Ofd : ofds'[o] = ofds[o] \/ ofds'[o] = Free
  <2>1. ofds \in [Ofd -> Description]
    BY DEF TypedInv, KernelTyped
  <2> QED  BY <1>2, <1>5, <2>1, DescriptorsSet
<1>7. \A q \in Pid : stop'[q] = IF stop[q] # Absent /\ group[q] = group[p] THEN s ELSE stop[q]
  BY <1>2 DEF Members
<1>8. OneOwner'
  <2>1. ASSUME NEW q \in Pid, NEW fd \in Fd, NEW o, o = kfds'[q][fd].ofd, Sole(o)'
        PROVE  Sole(o) /\ kfds[q][fd].ofd = o
    <3>1. o # None /\ fds[q][fd].ofd = o
      BY <1>6, <2>1 DEF Sole
    <3>2. ofds'[o] = ofds[o]
      BY <1>6, <3>1
    <3>3. kfds[q][fd].ofd = o
      BY <1>4, <1>5, <3>1
    <3> QED  BY <2>1, <3>2, <3>3 DEF Sole
  <2>2. \A q \in Pid, fd \in Fd :
          Sole(kfds[q][fd].ofd)' =>
            Sole(kfds'[q][fd].ofd) /\ \E a \in Fd : kfds[q][a].ofd = kfds'[q][fd].ofd
    <3> SUFFICES ASSUME NEW q \in Pid, NEW fd \in Fd, NEW o, o = kfds'[q][fd].ofd, Sole(o)'
                 PROVE  Sole(o) /\ \E a \in Fd : kfds[q][a].ofd = o
      BY DEF Sole
    <3> QED  BY <2>1
  <2> QED  BY <1>3, <2>2, OwnersStay
<1>9. OneWriter => OneWriter'
  <2>1. \A d \in Ofd : ofds'[d].write => ofds[d].write /\ ofds'[d].name = ofds[d].name
    BY <1>6 DEF Free
  <2> QED  BY <2>1, WritersStay
<1>10. LengthsAgree'
  BY <1>2, <1>3 DEF LengthsAgree, files
<1>11. ASSUME Without(PositionKinds)', NEW g \in Pid
       PROVE  StandsOn(g)'
  <2>1. \A q \in Pid : StandsOn(q)
    BY <1>3, <1>11 DEF PositionInv, Without
  <2>2. CASE g = group[p]
    <3>1. \A q \in Pid : group'[q] = g => stop'[q].event \in {"absent", "exit"}
      BY <1>1, <1>2, <1>7, <2>2
    <3>2. Calls(g)' = {} /\ ~Live(g)'
      BY <3>1 DEF Calls, Live
    <3>3. \A fd \in Fd : ~Sole(kfds[g][fd].ofd)'
      BY <1>4, <1>5, <1>6, <2>2 DEF Sole
    <3>4. stop'[g].event # "exec"
      <4>1. GroupInv /\ group[g] = g
        BY <1>1, <2>2, ActorsAreThere DEF TypedInv
      <4> QED  BY <1>2, <3>1, <4>1
    <3> QED  BY <3>2, <3>3, <3>4, UnfollowedStands
  <2>3. CASE g # group[p]
    <3>1. kfds'[g] = kfds[g]
      BY <1>5, <1>6, <2>3
    <3>2. ASSUME NEW o \in Ofd, Holds(g, o)
          PROVE  ofds'[o] = ofds[o]
      <4>1. PICK x \in Fd : kfds[g][x].ofd = o
        BY <3>2 DEF Holds
      <4>2. o # None
        BY AccountingAssumption, Zenon
      <4> QED  BY <1>6, <3>1, <4>1, <4>2
    <3>3. \A q \in Pid : q \in Calls(g)' <=> q \in Calls(g)
      BY <1>2, <1>7, <2>3 DEF Calls
    <3>4. \A q \in Calls(g) : stop'[q] = stop[q]
      BY <1>7, <2>3 DEF Calls
    <3>5. Live(g)' => Live(g)
      BY <1>2, <1>7, <2>3 DEF Live
    <3>6. /\ stop'[g].event = "exec" => stop[g].event = "exec"
          /\ stop'[g].event = "born" => stop[g].event = "born"
          /\ group'[g] = group[g]
      BY <1>1, <1>2, <1>7
    <3>7. Rests(g)
      BY <1>2, <3>1, <3>2, <3>3, <3>4, <3>5, <3>6, ThreadsRest
    <3> QED  BY <2>1, <3>7, RestsStands
  <2> QED  BY <2>2, <2>3
<1>12. Without(PositionKinds)' => Without(PositionKinds)
  BY DEF Without
<1> QED  BY <1>3, <1>8, <1>9, <1>10, <1>11, <1>12 DEF PositionInv

\* Nothing has changed but which signals are pending and which names there are.
LEMMA NamesKeepPositions ==
  ASSUME TypedInv, LifeInv, TypedInv', LifeInv', PositionInv,
         UNCHANGED <<contextVars, group, kfds, ofds, stop, size>>, quirks \subseteq quirks',
         unlinked \subseteq unlinked', \A name \in Name \ unlinked' : length'[name] = length[name],
         "gone" \notin quirks' => \A name \in unlinked' \ unlinked : ~Opening(name)
  PROVE  PositionInv'
<1>1. OneOwner' /\ (OneWriter => OneWriter') /\ LengthsAgree'
  BY DEF PositionInv, OneOwner, OneWriter, Sole, LengthsAgree
<1>2. Over' <=> Over
  BY DEF Over
<1>3. /\ \A g : Calls(g)' = Calls(g) /\ (Live(g)' <=> Live(g))
      /\ \A q : Table(q)' = Table(q)
      /\ \A o : Landing(ofds[o])' = Landing(ofds[o])
  BY DEF contextVars, Table, Calls, Live, Landing
<1>4. ASSUME Without(PositionKinds)', NEW g \in Pid
      PROVE  Rests(g)
  <2>1. "gone" \notin quirks'
    BY <1>4 DEF Without, PositionKinds
  <2>2. \A q \in Calls(g) : Follows(stop[q].regs) /\ stop[q].regs.name \notin unlinked =>
                              stop[q].regs.name \notin unlinked'
    BY <2>1 DEF Calls, Opening
  <2> QED  BY <1>3, <2>2 DEF Rests
<1>5. Without(PositionKinds)' => Without(PositionKinds)
  BY DEF Without
<1> QED  BY <1>1, <1>2, <1>4, <1>5, RestsStands DEF PositionInv

LEMMA UnlinkKeepsPositions ==
  ASSUME TypedInv, LifeInv, TypedInv', LifeInv', PositionInv, NEW name \in Name,
         Unlink(name), UNCHANGED contextVars
  PROVE  PositionInv'
<1>1. /\ UNCHANGED <<size, group, kfds, ofds, stop>> /\ unlinked' = unlinked \cup {name}
      /\ length' = [length EXCEPT ![name] = 0]
      /\ quirks' = quirks \cup Kind("gone", Opening(name)) \cup Kind("stale", Copying(name))
  BY DEF Unlink
<1>2. \A x \in Name \ unlinked' : length'[x] = length[x]
  BY <1>1 DEF TypedInv, KernelTyped
<1>3. "gone" \notin quirks' => ~Opening(name)
  BY <1>1 DEF Kind
<1>4. quirks \subseteq quirks'
  BY <1>1
<1>5. \A x \in unlinked' \ unlinked : x = name
  BY <1>1
<1> QED  BY <1>1, <1>2, <1>3, <1>4, <1>5, NamesKeepPositions

LEMMA TakeSignalKeepsPositions ==
  ASSUME TypedInv, LifeInv, TypedInv', LifeInv', PositionInv, NEW p \in Pid,
         TakeSignal(p), quirks \subseteq quirks'
  PROVE  PositionInv'
<1>1. stop[p] = Running /\ UNCHANGED contextVars
  BY DEF TakeSignal
<1>2. CASE Exit(p)
  BY <1>1, <1>2, ExitKeepsPositions
<1>3. CASE UNCHANGED <<files, use, group, kfds, ofds, stop, grown>>
  <2>1. UNCHANGED <<contextVars, group, kfds, ofds, stop, size>> /\ unlinked' = unlinked /\ length' = length
    BY <1>1, <1>3 DEF files
  <2> QED  BY <2>1, NamesKeepPositions
<1> QED  BY <1>1, <1>2, <1>3 DEF TakeSignal

------------------------------------------------------------------------------
(* The births, the programs and the ends of processes are handled *)

LEMMA HandlersKeepPositions ==
  ASSUME PositionInv, ~Over, UNCHANGED <<files, kfds, ofds, quirks>>,
         \A g \in Pid : StandsOn(g) => StandsOn(g)'
  PROVE  PositionInv'
<1>1. OneOwner' /\ LengthsAgree' /\ (OneWriter => OneWriter')
  BY DEF PositionInv, OneOwner, LengthsAgree, OneWriter, Sole, files
<1>2. Without(PositionKinds)' => Without(PositionKinds)
  BY DEF Without
<1> QED  BY <1>1, <1>2 DEF PositionInv

LEMMA HandleForkKeepsPositions ==
  ASSUME TypedInv, LifeInv, TypedInv', LifeInv', PositionInv, NEW p \in Pid, HandleFork(p),
         UNCHANGED <<files, use, kfds, ofds, quirks>>
  PROVE  PositionInv'
<1> DEFINE child == stop[p].child
<1>1. /\ stop[p].event = "fork" /\ RegisterProcess(p, child)
      /\ stop' = [stop EXCEPT ![p] = Running, ![child] = Running]
      /\ group' = group
  BY DEF HandleFork
<1>2. Running.event = "running" /\ Absent.event = "absent" /\ stop[p] # Absent
  BY <1>1, Events
<1>3. /\ group[p] = p /\ child \in Pid /\ child # p
      /\ group[child] = child /\ stop[child].event = "born"
      /\ \A q \in Pid : stop[q] # Absent /\ group[q] = p => q = p
      /\ \A q \in Pid : stop[q] # Absent /\ group[q] = child => q = child
  BY <1>1, ChildrenAre DEF TypedInv
<1>4. PICK c \in Pid : c = child
  BY <1>3
<1> HIDE DEF child
<1>5. /\ p \in Registered /\ NewProcState \in ProcState /\ \A q \in Pid : ProcMap[q] # NewProcState
  BY HandleForkKeeps
<1>6. PICK new \in ProcState : new = NewProcState
  BY <1>5
<1>7. /\ ProcMap' = [ProcMap EXCEPT ![c] = new]
      /\ Fds' = [Fds EXCEPT ![new] = Copied(Table(p), OpenSlots(Table(p)))]
  BY <1>1, <1>4, <1>6 DEF RegisterProcess
<1>8. /\ \A q \in Pid : stop'[q] = IF q \in {p, c} THEN Running ELSE stop[q]
      /\ \A q \in Pid : ProcMap'[q] = IF q = c THEN new ELSE ProcMap[q]
  BY <1>1, <1>4, <1>7 DEF LifeInv, ThreadInv, TypedInv, ContextTyped
<1>9. /\ \A q \in Pid : q # c => Table(q)' = Table(q)
      /\ Table(c)' = Copied(Table(p), OpenSlots(Table(p)))
  BY <1>5, <1>6, <1>7, <1>8 DEF TypedInv, ContextTyped, Table
<1>10. ASSUME NEW g \in Pid
       PROVE  Calls(g)' = Calls(g)
  <2> SUFFICES ASSUME NEW q \in Pid PROVE q \in Calls(g)' <=> q \in Calls(g)
    BY DEF Calls
  <2>1. CASE q \in {p, c}
    <3>1. stop[q].event # "syscall" /\ stop'[q].event # "syscall"
      BY <1>1, <1>2, <1>3, <1>4, <1>8, <2>1
    <3> QED  BY <3>1 DEF Calls
  <2>2. CASE q \notin {p, c}
    <3>1. stop'[q] = stop[q] /\ group'[q] = group[q]
      BY <1>1, <1>8, <2>2
    <3> QED  BY <3>1 DEF Calls
  <2> QED  BY <2>1, <2>2
<1>11. ASSUME NEW g \in Pid, g # c, StandsOn(g)
       PROVE  StandsOn(g)'
  <2>1. \A q \in Calls(g) : stop'[q] = stop[q] /\ Table(q)' = Table(q)
    BY <1>1, <1>3, <1>4, <1>8, <1>9 DEF Calls
  <2>2. Live(g)' => Live(g) /\ Table(g)' = Table(g)
    BY <1>1, <1>3, <1>4, <1>8, <1>9, <1>11 DEF Live
  <2>3. /\ stop'[g].event = "exec" => stop[g].event = "exec" /\ Table(g)' = Table(g)
        /\ stop'[g].event = "born" => stop[g].event = "born"
    BY <1>2, <1>8, <1>9, <1>11
  <2>4. Rests(g)
    BY <1>1, <1>10, <2>1, <2>2, <2>3, KernelRests DEF TypedInv
  <2> QED  BY <1>11, <2>4, RestsStands
<1>12. ASSUME StandsOn(c)
       PROVE  StandsOn(c)'
  <2>1. Calls(c)' = {}
    <3>1. \A q \in Pid : group[q] = c => stop[q].event # "syscall"
      BY <1>2, <1>3, <1>4
    <3> QED  BY <1>10, <3>1 DEF Calls
  <2>2. \A fd \in Fd : ~Sole(kfds[c][fd].ofd)'
    <3>1. \A fd \in Fd : ~Sole(kfds[c][fd].ofd)
      BY <1>3, <1>4, <1>12 DEF StandsOn
    <3> QED  BY <3>1 DEF Sole
  <2>3. stop'[c].event # "exec"
    BY <1>2, <1>8
  <2>4. \A e \in Table(c)' : \A a, b \in e.slots : e.slots = {a} /\ a = b
    BY <1>9, CopiedSlots
  <2>5. Live(c)' => Table(c)' \in SUBSET Entry
    <3>1. ProgramsKnown'
      BY ProgramsAreNext
    <3> QED  BY <3>1 DEF ProgramsKnown
  <2> QED  BY <2>1, <2>2, <2>3, <2>4, <2>5, UnfollowedStands
<1>13. ~Over
  BY <1>2 DEF Over
<1> QED  BY <1>11, <1>12, <1>13, HandlersKeepPositions

LEMMA HandleCloneKeepsPositions ==
  ASSUME TypedInv, LifeInv, TypedInv', LifeInv', PositionInv, NEW p \in Pid, HandleClone(p),
         UNCHANGED <<files, use, kfds, ofds, quirks>>
  PROVE  PositionInv'
<1>1. /\ stop[p].event = "clone" /\ RegisterThread(p, stop[p].child)
      /\ stop' = [stop EXCEPT ![p] = Running, ![stop[p].child] = Running]
      /\ group' = group
  BY DEF HandleClone
<1>2. Running.event = "running" /\ Absent.event = "absent" /\ stop[p] # Absent
  BY <1>1, Events
<1>3. GroupInv /\ BirthInv /\ KnownInv /\ group[p] \in Pid /\ group[group[p]] = group[p]
  BY <1>2, ActorsAreThere DEF TypedInv
<1>4. PICK c \in Pid : c = stop[p].child /\ stop[c].event = "born" /\ group[c] = group[p]
  BY <1>1, <1>3 DEF BirthInv
<1>5. c # p /\ c # group[p]
  <2>1. c # p
    BY <1>1, <1>4
  <2>2. stop[group[p]].event = "born" => group[p] = p
    BY <1>2, <1>3 DEF GroupInv
  <2> QED  BY <1>1, <1>4, <2>1, <2>2
<1>6. /\ \A q \in Pid : stop'[q] = IF q \in {p, c} THEN Running ELSE stop[q]
      /\ \A q \in Pid : q # c => Table(q)' = Table(q)
  BY <1>1, <1>4 DEF LifeInv, ThreadInv, TypedInv, ContextTyped, RegisterThread, Table
<1>7. ASSUME NEW g \in Pid, StandsOn(g)
      PROVE  StandsOn(g)'
  <2>1. Calls(g)' = Calls(g)
    <3>1. \A q \in Pid : q \in Calls(g)' <=> q \in Calls(g)
      BY <1>1, <1>2, <1>4, <1>6 DEF Calls
    <3> QED  BY <3>1 DEF Calls
  <2>2. \A q \in Calls(g) : stop'[q] = stop[q] /\ Table(q)' = Table(q)
    BY <1>1, <1>4, <1>6 DEF Calls
  <2>3. Live(g)' => Live(g)
    BY <1>1, <1>3, <1>4, <1>6 DEF Live
  <2>4. Live(g) => g # c
    BY <1>3, <1>4, <1>5 DEF Live
  <2>5. /\ stop'[g].event = "exec" => stop[g].event = "exec" /\ Table(g)' = Table(g)
        /\ stop'[g].event = "born" => stop[g].event = "born"
    BY <1>2, <1>6
  <2>6. Rests(g)
    BY <1>1, <1>6, <2>1, <2>2, <2>3, <2>4, <2>5, KernelRests DEF TypedInv
  <2> QED  BY <1>7, <2>6, RestsStands
<1>8. ~Over
  BY <1>2 DEF Over
<1> QED  BY <1>7, <1>8, HandlersKeepPositions

LEMMA HandleExecKeepsPositions ==
  ASSUME TypedInv, LifeInv, TypedInv', LifeInv', PositionInv, NEW p \in Pid, HandleExec(p),
         UNCHANGED <<files, use, kfds, ofds, quirks>>
  PROVE  PositionInv'
<1> DEFINE kept == {fd \in OpenSlots(Table(p)) : ~IsCloexecSet(FileAt(Table(p), fd))}
<1>1. /\ stop[p].event = "exec" /\ RegisterExec(p)
      /\ stop' = [stop EXCEPT ![p] = Running] /\ group' = group
  BY DEF HandleExec, Resume
<1>2. Running.event = "running" /\ Absent.event = "absent" /\ stop[p] # Absent /\ stop[p].event # "born"
  BY <1>1, Events
<1>3. Members(p) = {p} /\ KnownInv
  BY <1>1, <1>2, ActorsAreThere DEF TypedInv, GroupInv
<1>4. group[p] = p /\ \A q \in Pid : stop[q] # Absent /\ group[q] = p => q = p
  BY <1>2, <1>3, LonersAre DEF TypedInv
<1>5. /\ p \in Registered /\ NewProcState \in ProcState /\ \A q \in Pid : ProcMap[q] # NewProcState
  BY HandleExecKeeps
<1>6. PICK new \in ProcState : new = NewProcState
  BY <1>5
<1>7. /\ ProcMap' = [ProcMap EXCEPT ![p] = new]
      /\ Fds' = [TornDown(p) EXCEPT ![new] = Copied(Table(p), kept)]
  BY <1>1, <1>6 DEF RegisterExec
<1>8. /\ TornDown(p) \in [ProcState -> SUBSET Entry]
      /\ \A s \in ProcState : s # ProcMap[p] => TornDown(p)[s] = Fds[s]
  BY <1>5, TornDownIs DEF TypedInv
<1>9. /\ \A q \in Pid : stop'[q] = IF q = p THEN Running ELSE stop[q]
      /\ \A q \in Pid : ProcMap'[q] = IF q = p THEN new ELSE ProcMap[q]
  BY <1>1, <1>7 DEF LifeInv, ThreadInv, TypedInv, ContextTyped
<1>10. kept \subseteq OpenSlots(Table(p))
  OBVIOUS
<1> HIDE DEF kept
<1>11. Table(p)' = Copied(Table(p), kept)
  BY <1>6, <1>7, <1>8, <1>9 DEF Table
<1>12. \A q \in Registered : group[q] # p => Table(q)' = Table(q)
  <2>1. \A q \in Registered : q \in Pid /\ ProcMap[q] \in ProcState
    BY TableOfRegistered DEF TypedInv
  <2>2. \A q \in Registered : group[q] # p => ProcMap[q] # ProcMap[p]
    BY <1>3, <1>4, <1>5 DEF KnownInv
  <2> QED  BY <1>4, <1>5, <1>6, <1>7, <1>8, <1>9, <2>1, <2>2 DEF Table
<1>13. ASSUME NEW g \in Pid, g # p, StandsOn(g)
       PROVE  StandsOn(g)'
  <2>1. Calls(g)' = Calls(g)
    <3>1. \A q \in Pid : q \in Calls(g)' <=> q \in Calls(g)
      BY <1>1, <1>2, <1>9 DEF Calls
    <3> QED  BY <3>1 DEF Calls
  <2>2. ASSUME NEW q \in Calls(g)
        PROVE  stop'[q] = stop[q] /\ Table(q)' = Table(q)
    <3>1. q \in Registered /\ group[q] = g /\ stop[q].event = "syscall" /\ q \in Pid
      BY <2>2, CallersAreKnown DEF TypedInv, Calls
    <3> QED  BY <1>1, <1>9, <1>12, <1>13, <3>1
  <2>3. Live(g)' => Live(g)
    BY <1>1, <1>4, <1>9, <1>13 DEF Live
  <2>4. Live(g) => Table(g)' = Table(g)
    BY <1>12, <1>13, LiveAreKnown DEF TypedInv
  <2>5. stop'[g].event = "exec" => stop[g].event = "exec" /\ Table(g)' = Table(g)
    <3> SUFFICES ASSUME stop'[g].event = "exec"
                 PROVE  stop[g].event = "exec" /\ Table(g)' = Table(g)
      OBVIOUS
    <3>1. stop[g].event = "exec" /\ stop[g] # Absent /\ stop[g].event # "born"
      BY <1>9, <1>13, Events
    <3>2. g \in Registered /\ group[g] # p
      BY <1>4, <1>13, <3>1, LeadersAreKnown DEF TypedInv
    <3> QED  BY <1>12, <3>1, <3>2
  <2>6. stop'[g].event = "born" => stop[g].event = "born"
    BY <1>9, <1>13
  <2>7. Rests(g)
    BY <1>1, <2>1, <2>2, <2>3, <2>4, <2>5, <2>6, KernelRests DEF TypedInv
  <2> QED  BY <1>13, <2>7, RestsStands
<1>14. ASSUME StandsOn(p)
       PROVE  StandsOn(p)'
  <2>1. Calls(p)' = {} /\ Calls(p) = {}
    <3>1. \A q \in Pid : group'[q] = p => stop'[q].event # "syscall" /\ stop[q].event # "syscall"
      BY <1>1, <1>2, <1>4, <1>9
    <3> QED  BY <1>1, <3>1 DEF Calls
  <2>2. Busy(p)' = {}
    BY <2>1 DEF Busy
  <2>3. /\ Follow(p, {})
        /\ \A a, b \in Fd : Sole(kfds[p][a].ofd) /\ kfds[p][b].ofd = kfds[p][a].ofd => a = b
    BY <1>1, <1>14 DEF StandsOn
  <2>4. ProgramsKnown /\ ProgramsKnown'
    BY ProgramsAre, ProgramsAreNext
  <2>5. Stands(p, Table(p), {}) /\ Table(p) \in SUBSET Entry
    BY <1>1, <2>3, <2>4 DEF ProgramsKnown
  <2>6. Slotted(Table(p))
    <3>1. ProcMap[p] \in ProcState
      BY <1>5, TableOfRegistered DEF TypedInv
    <3> QED  BY <3>1 DEF TypedInv, SlottedInv, Table
  <2>7. ASSUME NEW f \in Copied(Table(p), kept)
        PROVE  \E e \in Table(p), fd \in Fd : /\ f.slots = {fd} /\ fd \in e.slots
                                              /\ f.file.CurrPos = e.file.CurrPos
    <3>1. PICK fd \in kept : /\ f.slots = {fd}
                             /\ f.file = CopyFileState(FileAt(Table(p), fd),
                                                       length[FileAt(Table(p), fd).Filename])
      BY CopiedSlots
    <3>2. PICK e \in Table(p) : fd \in e.slots
      BY <1>10 DEF OpenSlots
    <3>3. FileAt(Table(p), fd) = e.file
      BY <2>6, <3>2, FileAtIs
    <3>4. e.file \in TFileState /\ fd \in Fd
      BY <2>5, <3>2 DEF Entry
    <3>5. f.file.CurrPos = e.file.CurrPos
      BY <3>1, <3>3, <3>4 DEF CopyFileState, TFileState
    <3> QED  BY <3>1, <3>2, <3>4, <3>5
  <2>8. \A o : Sole(o)' <=> Sole(o)
    BY DEF Sole
  <2>9. Grouped(Table(p), kfds[p], Busy(p))'
    <3> SUFFICES ASSUME NEW f \in Copied(Table(p), kept), NEW a \in f.slots
                 PROVE  /\ kfds'[p][a].ofd = None => f.slots = {a}
                        /\ \A b \in f.slots \ {} : kfds'[p][b].ofd = kfds'[p][a].ofd
                        /\ \A b \in Fd \ {} : Sole(kfds[p][a].ofd)' /\ kfds'[p][b].ofd = kfds'[p][a].ofd
                                         => b \in f.slots
      BY <1>11, <2>2 DEF Grouped
    <3>1. f.slots = {a} /\ a \in Fd
      BY <2>7
    <3>2. \A b \in Fd : Sole(kfds[p][a].ofd) /\ kfds[p][b].ofd = kfds[p][a].ofd => b = a
      BY <2>3, <3>1
    <3> QED  BY <2>8, <3>1, <3>2
  <2>10. Live(p)' => Follow(p, Busy(p))'
    <3> SUFFICES ASSUME Live(p)' PROVE Follow(p, Busy(p))'
      OBVIOUS
    <3>1. \A slots, nrs : Pending(p, slots, nrs)' = {} /\ Pending(p, slots, nrs) = {}
      BY <2>1 DEF Pending
    <3>2. \A f \in Table(p)' : \A a \in f.slots \ Busy(p)' : \A o \in Ofd :
            o = kfds'[p][a].ofd /\ Sole(o)' /\ Pending(p, f.slots, {"lseek"})' = {} =>
              f.file.CurrPos + Cardinality(Pending(p, f.slots, {"write"}))' = Landing(ofds[o])'
      <4> SUFFICES ASSUME NEW f \in Copied(Table(p), kept), NEW a \in f.slots, NEW o \in Ofd,
                          o = kfds'[p][a].ofd, Sole(o)'
                   PROVE  f.file.CurrPos + Cardinality(Pending(p, f.slots, {"write"}))'
                          = Landing(ofds[o])'
        BY <1>11
      <4>1. PICK e \in Table(p), fd \in Fd : f.slots = {fd} /\ fd \in e.slots
                                             /\ f.file.CurrPos = e.file.CurrPos
        BY <2>7
      <4>2. a \in e.slots
        BY <4>1
      <4>3. Sole(o) /\ o = kfds[p][a].ofd
        BY <2>8
      <4>4. e.file.CurrPos + Cardinality(Pending(p, e.slots, {"write"})) = Landing(ofds[o])
        BY <2>5, <3>1, <4>2, <4>3 DEF Stands
      <4>5. Landing(ofds[o])' = Landing(ofds[o])
        BY DEF Landing, files
      <4>6. Cardinality(Pending(p, f.slots, {"write"}))' = Cardinality(Pending(p, e.slots, {"write"}))
        BY <3>1
      <4> QED  BY <4>1, <4>4, <4>5, <4>6
    <3>3. Stands(p, Table(p), Busy(p))'
      BY <3>2 DEF Stands
    <3> QED  BY <2>4, <3>3 DEF ProgramsKnown
  <2>11. stop'[p].event \notin {"exec", "born"}
    BY <1>2, <1>9
  <2> QED  BY <2>1, <2>9, <2>10, <2>11 DEF StandsOn
<1>15. ~Over
  BY <1>2 DEF Over
<1> QED  BY <1>13, <1>14, <1>15, HandlersKeepPositions

LEMMA HandleExitKeepsPositions ==
  ASSUME TypedInv, LifeInv, TypedInv', LifeInv', PositionInv, NEW p \in Pid, HandleExit(p),
         UNCHANGED <<files, use, kfds, ofds, quirks>>
  PROVE  PositionInv'
<1>1. /\ stop[p].event = "exit" /\ VanishProcess(p, OutputSize)
      /\ group[p] = p => Members(p) = {p}
      /\ stop' = [stop EXCEPT ![p] = Absent] /\ group' = [group EXCEPT ![p] = None]
  BY DEF HandleExit
<1>2. Absent.event = "absent" /\ stop[p] # Absent /\ stop[p].event # "born"
  BY <1>1, Events
<1>3. KnownInv /\ group[p] \in Pid /\ group[group[p]] = group[p]
  BY <1>2, ActorsAreThere DEF TypedInv
<1>4. /\ p \in Registered /\ group[p] \in Registered /\ ProcMap[group[p]] = ProcMap[p]
      /\ \A q \in Registered : ProcMap[q] = ProcMap[p] <=> group[q] = group[p]
  BY <1>2, LeadersAreKnown DEF TypedInv
<1>5. /\ ProcMap' = [ProcMap EXCEPT ![p] = None] /\ Fds' = TornDown(p)
  BY <1>1 DEF VanishProcess
<1>6. /\ \A q \in Pid : stop'[q] = IF q = p THEN Absent ELSE stop[q]
      /\ \A q \in Pid : group'[q] = IF q = p THEN None ELSE group[q]
      /\ \A q \in Pid : ProcMap'[q] = IF q = p THEN None ELSE ProcMap[q]
  BY <1>1, <1>5 DEF LifeInv, ThreadInv, TypedInv, ContextTyped, KernelTyped
<1>7. ASSUME NEW q \in Registered, q # p, stop[q] # Absent
      PROVE  Table(q)' = Table(q)
  <2>1. q \in Pid /\ ProcMap[q] \in ProcState
    BY <1>7, TableOfRegistered DEF TypedInv
  <2>2. CASE group[q] # group[p]
    <3>1. \A s \in ProcState : s # ProcMap[p] => TornDown(p)[s] = Fds[s]
      BY <1>4, TornDownIs DEF TypedInv
    <3> QED  BY <1>4, <1>5, <1>6, <1>7, <2>1, <2>2, <3>1 DEF Table
  <2>3. CASE group[q] = group[p]
    <3>1. group[p] # p
      BY <1>1, <1>7, <2>1, <2>3 DEF Members
    <3>2. p \notin GroupLeaders
      BY <1>3, <3>1 DEF KnownInv
    <3>3. group[p] \in Pid \ {p} /\ ProcMap[group[p]] = ProcMap[p]
      BY <1>3, <1>4, <3>1
    <3>4. Fds' = Fds
      BY <1>5, <3>2, <3>3 DEF TornDown
    <3> QED  BY <1>6, <1>7, <2>1, <3>4 DEF Table
  <2> QED  BY <2>2, <2>3
<1>8. ASSUME NEW g \in Pid, StandsOn(g)
      PROVE  StandsOn(g)'
  <2>1. Calls(g)' = Calls(g)
    <3>1. \A q \in Pid : q \in Calls(g)' <=> q \in Calls(g)
      BY <1>1, <1>2, <1>6, IdsAssumption DEF Calls
    <3> QED  BY <3>1 DEF Calls
  <2>2. ASSUME NEW q \in Calls(g)
        PROVE  stop'[q] = stop[q] /\ Table(q)' = Table(q)
    <3>1. q \in Registered /\ group[q] = g /\ stop[q].event = "syscall" /\ q \in Pid
      BY <2>2, CallersAreKnown DEF TypedInv, Calls
    <3>2. stop[q] # Absent /\ q # p
      BY <1>1, <1>2, <3>1
    <3> QED  BY <1>6, <1>7, <3>1, <3>2
  <2>3. Live(g)' => Live(g) /\ g # p
    BY <1>2, <1>6, IdsAssumption DEF Live
  <2>4. Live(g) /\ g # p => Table(g)' = Table(g)
    <3> SUFFICES ASSUME Live(g), g # p
                 PROVE  Table(g)' = Table(g)
      OBVIOUS
    <3>1. g \in Registered
      BY LiveAreKnown DEF TypedInv
    <3>2. stop[g].event # "absent"
      BY <1>3, <3>1 DEF KnownInv, Registered
    <3> QED  BY <1>2, <1>7, <3>1, <3>2
  <2>5. stop'[g].event = "exec" => stop[g].event = "exec" /\ Table(g)' = Table(g)
    <3> SUFFICES ASSUME stop'[g].event = "exec"
                 PROVE  stop[g].event = "exec" /\ Table(g)' = Table(g)
      OBVIOUS
    <3>1. g # p /\ stop'[g] = stop[g] /\ stop[g].event = "exec"
      BY <1>2, <1>6
    <3>2. stop[g] # Absent /\ stop[g].event # "born"
      BY <3>1, Events
    <3>3. g \in Registered
      BY <3>2, LeadersAreKnown DEF TypedInv
    <3> QED  BY <1>7, <3>1, <3>2, <3>3
  <2>6. stop'[g].event = "born" /\ group'[g] = g => stop[g].event = "born" /\ group[g] = g
    BY <1>2, <1>6
  <2>7. Rests(g)
    BY <2>1, <2>2, <2>3, <2>4, <2>5, <2>6, KernelRests DEF TypedInv
  <2> QED  BY <1>8, <2>7, RestsStands
<1>9. ~Over
  BY <1>2 DEF Over
<1> QED  BY <1>8, <1>9, HandlersKeepPositions

------------------------------------------------------------------------------
(* The specification *)

LEMMA StartStands ==
  ASSUME Init, TypedInv, LifeInv
  PROVE  PositionInv
<1>1. /\ TraceePid \in Pid /\ 0 \in Fd /\ None \notin Ofd
      /\ \A i \in use.inherited \ {None} :
           i.file \in Description /\ i.file.name # None /\ ~i.file.split
  BY AccountingAssumption, Zenon DEF Init
<1>2. /\ size = length
      /\ stop = [p \in Pid |-> IF p = TraceePid THEN Running ELSE Absent]
      /\ group = [p \in Pid |-> IF p = TraceePid THEN p ELSE None]
  BY DEF Init
<1>3. /\ \A p \in Pid : stop[p] = IF p = TraceePid THEN Running ELSE Absent
      /\ Running.event = "running" /\ Absent.event = "absent"
  BY <1>2, Events
<1>4. \A g : Calls(g) = {}
  BY <1>3 DEF Calls
<1>5. \A g \in Pid : Live(g) => g = TraceePid
  BY <1>2, <1>3 DEF Live
<1>6. \A g \in Pid : stop[g].event \notin {"exec", "born"}
  BY <1>3
<1>7. PICK i \in use.inherited :
        IF i = None
        THEN /\ RegisterTracee(TraceePid, << >>)
             /\ kfds = [p \in Pid |-> AllClosed]
             /\ ofds = [o \in Ofd |-> Free]
             /\ quirks = {}
        ELSE LET o == Min(use.ofds)
             IN  /\ RegisterTracee(TraceePid, [fd \in {0} |-> i.file.name])
                 /\ kfds = [p \in Pid |-> IF p = TraceePid
                                          THEN [AllClosed EXCEPT ![0] = [ofd |-> o, cloexec |-> i.cloexec]]
                                          ELSE AllClosed]
                 /\ ofds = [d \in Ofd |-> IF d = o THEN [i.file EXCEPT !.init = length[i.file.name],
                                                                  !.followed = TRUE]
                                                   ELSE Free]
                 /\ quirks = Kind("cloexec", i.cloexec) \cup
                             Kind("inherited", i.file.append \/ i.file.pos # 0)
  BY DEF Init
<1>8. \A fd \in Fd : AllClosed[fd].ofd = None
  BY DEF AllClosed, Closed
<1>9. LengthsAgree
  BY <1>2 DEF LengthsAgree
<1>10. length \in [Name -> Size]
  BY LengthsAreSizes DEF TypedInv, KernelTyped
<1>11. ProgramsKnown
  BY ProgramsAre
<1>12. CASE i = None
  <2>1. \A p \in Pid, fd \in Fd : kfds[p][fd].ofd = None
    BY <1>7, <1>8, <1>12
  <2>2. \A d \in Ofd : ~ofds[d].write
    BY <1>7, <1>12 DEF Free
  <2>3. OneOwner /\ OneWriter
    BY <2>1, <2>2 DEF OneOwner, OneWriter, Sole
  <2> DEFINE none == [fd \in {} |-> None]
  <2>4. RegisterTracee(TraceePid, none) /\ none \in [{} -> Name] /\ FillFds(none) = {}
    BY <1>7, <1>12 DEF FillFds
  <2> HIDE DEF none
  <2> DEFINE E == {}
  <2>5. E \in SUBSET Fd /\ none \in [E -> Name]
    BY <2>4
  <2> HIDE DEF E
  <2>6. Table(TraceePid) = {}
    BY <1>10, <2>4, <2>5, TraceeRegistered
  <2>7. ASSUME NEW g \in Pid
        PROVE  StandsOn(g)
    <3>1. Live(g) => Grouped(Table(g), kfds[g], Busy(g)) /\ Follow(g, Busy(g))
      BY <1>5, <2>6 DEF Grouped, Follow
    <3> QED  BY <1>4, <1>6, <3>1 DEF StandsOn
  <2> QED  BY <1>9, <2>3, <2>7 DEF PositionInv
<1>13. CASE i # None
  <2> DEFINE o == Min(use.ofds)
             only == [fd \in {0} |-> i.file.name]
             first == [AllClosed EXCEPT ![0] = [ofd |-> o, cloexec |-> i.cloexec]]
             file == [i.file EXCEPT !.init = length[i.file.name], !.followed = TRUE]
  <2>1. /\ RegisterTracee(TraceePid, only)
        /\ kfds = [p \in Pid |-> IF p = TraceePid THEN first ELSE AllClosed]
        /\ ofds = [d \in Ofd |-> IF d = o THEN file ELSE Free]
        /\ quirks = Kind("cloexec", i.cloexec) \cup
                    Kind("inherited", i.file.append \/ i.file.pos # 0)
    BY <1>7, <1>13
  <2>2. i.file \in Description /\ i.file.name \in Name /\ ~i.file.split
    BY <1>1, <1>13 DEF Description
  <2>3. /\ file.append = i.file.append /\ file.pos = i.file.pos /\ ~file.split
        /\ file.name = i.file.name
    BY <2>2 DEF Description
  <2>4. only \in [{0} -> Name] /\ {0} \in SUBSET Fd
    BY <1>1, <2>2
  <2>5. FillFds(only) = {[slots |-> {0}, file |-> NewFileState(i.file.name, {}, length[i.file.name])]}
    BY DEF FillFds
  <2>6. \A fd \in Fd \ {0} : first[fd].ofd = None
    BY <1>8 DEF AllClosed
  <2> HIDE DEF o, only, first, file
  <2>7. Table(TraceePid) = FillFds(only)
    BY <1>10, <2>1, <2>4, TraceeRegistered
  <2>8. /\ \A p \in Pid : kfds[p] = IF p = TraceePid THEN first ELSE AllClosed
        /\ \A d \in Ofd : ofds[d] = IF d = o THEN file ELSE Free
    BY <2>1
  <2>9. \A p \in Pid, fd \in Fd : kfds[p][fd].ofd # None => p = TraceePid /\ fd = 0
    BY <1>8, <2>6, <2>8
  <2>10. OneOwner
    BY <2>9 DEF OneOwner, Sole
  <2>11. OneWriter
    BY <2>8 DEF OneWriter, Free
  <2>12. ASSUME Without(PositionKinds), NEW g \in Pid
         PROVE  StandsOn(g)
    <3>1. ~i.file.append /\ i.file.pos = 0
      BY <2>1, <2>12 DEF Without, PositionKinds, Kind
    <3>2. ASSUME g = TraceePid, NEW e \in Table(g)
          PROVE  e.slots = {0} /\ e.file.CurrPos = 0
      BY <2>5, <2>7, <3>2 DEF NewFileState
    <3>3. Live(g) => Grouped(Table(g), kfds[g], Busy(g))
      BY <1>5, <2>9, <3>2 DEF Grouped, Sole
    <3>4. Live(g) => Follow(g, Busy(g))
      <4> SUFFICES ASSUME Live(g) PROVE Follow(g, Busy(g))
        OBVIOUS
      <4>1. ASSUME NEW e \in Table(g), NEW a \in e.slots \ Busy(g), NEW d \in Ofd,
                   d = kfds[g][a].ofd, Sole(d)
            PROVE  e.file.CurrPos + Cardinality(Pending(g, e.slots, {"write"})) = Landing(ofds[d])
        <5>1. a = 0 /\ e.file.CurrPos = 0
          BY <1>5, <3>2, <4>1
        <5>2. Pending(g, e.slots, {"write"}) = {}
          BY <1>4 DEF Pending
        <5>3. Cardinality(Pending(g, e.slots, {"write"})) = 0
          BY <5>2, FS_EmptySet
        <5>4. d = o
          BY <2>8, <4>1 DEF Sole, Free
        <5>5. Landing(ofds[d]) = 0
          BY <2>3, <2>8, <3>1, <5>4 DEF Landing
        <5> QED  BY <5>1, <5>3, <5>5
      <4>2. Stands(g, Table(g), Busy(g))
        BY <4>1 DEF Stands
      <4> QED  BY <1>11, <4>2 DEF ProgramsKnown
    <3> QED  BY <1>4, <1>6, <3>3, <3>4 DEF StandsOn
  <2> QED  BY <1>9, <2>10, <2>11, <2>12 DEF PositionInv
<1> QED  BY <1>12, <1>13

LEMMA StepsKeepPositions ==
  ASSUME TypedInv, LifeInv, OutputSize \in Nat, PositionInv, [Next]_vars
  PROVE  PositionInv'
<1>1. Keeps
  BY ProcessStepKeeps, TakeSignalKeeps, TracerStepKeeps, NothingKeeps DEF Next, AllGone
<1>2. TypedInv' /\ LifeInv' /\ quirks \subseteq quirks'
  BY <1>1 DEF Keeps
<1>3. ASSUME NEW p \in Pid, ProcessStep(p)
      PROVE  PositionInv'
  <2>1. stop[p] = Running /\ UNCHANGED contextVars
    BY <1>3 DEF ProcessStep
  <2>2. group[p] \in Pid
    BY <2>1, Events, ActorsAreThere DEF TypedInv
  <2>3. Runs(p) /\ ThreadInv
    BY <2>1, <2>2 DEF Runs, TypedInv, LifeInv
  <2>4. CASE \E r : Called(p, r) /\ Taken(p, r)
    BY <1>2, <2>4, CalledKeepsPositions
  <2>5. CASE \E name \in Name : Unlink(name)
    BY <1>2, <2>1, <2>5, UnlinkKeepsPositions
  <2>6. CASE \E child \in Pid : Fork(p, child)
    BY <1>2, <2>1, <2>6, ForkKeepsPositions
  <2>7. CASE \E thread \in Pid : Clone(p, thread)
    BY <1>2, <2>1, <2>7, CloneKeepsPositions
  <2>8. CASE Exec(p)
    BY <1>2, <2>1, <2>8, ExecKeepsPositions
  <2>9. CASE Exit(p)
    BY <1>2, <2>1, <2>9, ExitKeepsPositions
  <2>10. CASE ThreadExit(p)
    BY <1>2, <2>1, <2>10, ThreadExitKeepsPositions
  <2> QED  BY <1>3, <2>3, <2>4, <2>5, <2>6, <2>7, <2>8, <2>9, <2>10, CallsTake
<1>4. ASSUME NEW p \in Pid, TakeSignal(p)
      PROVE  PositionInv'
  BY <1>2, <1>4, TakeSignalKeepsPositions
<1>5. ASSUME NEW p \in Pid, TracerStep(p)
      PROVE  PositionInv'
  <2>1. UNCHANGED <<files, use, kfds, ofds, quirks>>
    BY <1>5 DEF TracerStep
  <2>2. CASE HandleSyscall(p)
    BY <1>2, <2>1, <2>2, SyscallKeepsPositions
  <2>3. CASE HandleFork(p)
    BY <1>2, <2>1, <2>3, HandleForkKeepsPositions
  <2>4. CASE HandleClone(p)
    BY <1>2, <2>1, <2>4, HandleCloneKeepsPositions
  <2>5. CASE HandleExec(p)
    BY <1>2, <2>1, <2>5, HandleExecKeepsPositions
  <2>6. CASE HandleExit(p)
    BY <1>2, <2>1, <2>6, HandleExitKeepsPositions
  <2> QED  BY <1>5, <2>2, <2>3, <2>4, <2>5, <2>6 DEF TracerStep
<1>6. CASE UNCHANGED vars
  <2>1. UNCHANGED <<contextVars, group, kfds, ofds, stop, size, unlinked, length, quirks>>
    BY <1>6 DEF vars, kernelVars, files
  <2> QED  BY <1>2, <2>1, NamesKeepPositions
<1> QED  BY <1>3, <1>4, <1>5, <1>6 DEF Next, AllGone

\* The positions, and the calls under way that move them.
THEOREM PositionInvHolds == Spec => []PositionInv
<1>1. AccountingInv => TypedInv /\ LifeInv
  BY DEF AccountingInv
<1>2. Init => PositionInv
  BY StartStands, StartAgrees
<1>3. TypeOK => OutputSize \in Nat
  BY DEF TypeOK
<1>4. TypedInv /\ LifeInv /\ OutputSize \in Nat /\ PositionInv /\ [Next]_vars => PositionInv'
  BY StepsKeepPositions
<1> QED  BY <1>1, <1>2, <1>3, <1>4, InvariantHolds, AccountingIsTyped, PTL DEF Spec

\* PositionsAgree: CurrPos of a settled process is where its next write lands,
\* for every description that one TFileState follows, over all calls that move
\* it and in whatever order their stops are handled (context.cpp: SyscallExit,
\* RegisterProcess, RegisterExec; files.cpp).
THEOREM PositionsAreFollowed == Spec => []PositionsAgree
<1>1. AccountingInv /\ PositionInv => PositionsAgree
  <2> SUFFICES ASSUME AccountingInv, PositionInv, Without(PositionKinds),
                      NEW p \in Pid, Settled(p), NEW fd \in OpenSlots(Table(p)),
                      Writable(p, fd), ~At(p, fd).split
               PROVE  FileOf(p, fd).CurrPos = Landing(At(p, fd))
    BY DEF PositionsAgree, PositionKinds
  <2>1. /\ group[p] = p /\ \A q \in Members(p) : stop[q].event \in {"running", "exit"}
        /\ \E q \in Members(p) : stop[q] = Running
    BY DEF Settled
  <2>2. PICK q \in Pid : group[q] = p /\ stop[q] = Running
    BY <2>1 DEF Members
  <2>3. /\ Running.event = "running" /\ Absent.event = "absent" /\ Running # Absent
    BY Events
  <2>4. ~Over /\ Live(p) /\ TypedInv /\ LifeInv
    BY <2>1, <2>2, <2>3 DEF Over, Live, AccountingInv
  <2>5. Follow(p, Busy(p)) /\ ProgramsKnown
    BY <2>4, ProgramsAre DEF PositionInv, StandsOn
  <2>6. Stands(p, Table(p), Busy(p)) /\ p \in Registered /\ Table(p) \in SUBSET Entry
    BY <2>4, <2>5 DEF ProgramsKnown
  <2>7. Calls(p) = {}
    BY <2>1, <2>3 DEF Calls, Members
  <2>8. Busy(p) = {} /\ \A slots, nrs : Pending(p, slots, nrs) = {}
    BY <2>7 DEF Busy, Pending
  <2>9. PICK e \in Table(p) : fd \in e.slots
    BY DEF OpenSlots
  <2>10. Slotted(Table(p))
    BY <2>4, <2>6, TableOfRegistered DEF TypedInv, SlottedInv, Table
  <2>11. FileAt(Table(p), fd) = e.file /\ e.file.CurrPos \in Int /\ fd \in Fd
    <3>1. e.file \in TFileState /\ fd \in Fd
      BY <2>6, <2>9 DEF Entry
    <3>2. e.file.CurrPos \in Int
      BY <3>1 DEF TFileState, Size
    <3>3. FileAt(Table(p), fd) = e.file
      BY <2>9, <2>10, FileAtIs
    <3> QED  BY <3>1, <3>2, <3>3
  <2>12. PICK o \in Ofd : o = kfds[p][fd].ofd /\ Sole(o)
    BY <2>1, <2>4, <2>11 DEF Writable, IsOpen, At, Descriptors, Sole, TypedInv, KernelTyped
  <2>13. e.file.CurrPos + Cardinality(Pending(p, e.slots, {"write"})) = Landing(ofds[o])
    BY <2>6, <2>8, <2>9, <2>12 DEF Stands
  <2>14. Cardinality(Pending(p, e.slots, {"write"})) = 0
    BY <2>8, FS_EmptySet
  <2>15. At(p, fd) = ofds[o] /\ FileOf(p, fd) = FileAt(Table(p), fd)
    BY <2>1, <2>12 DEF At, Descriptors, FileOf
  <2> QED  BY <2>11, <2>13, <2>14, <2>15
<1> QED  BY <1>1, InvariantHolds, PositionInvHolds, PTL
================================================================================
