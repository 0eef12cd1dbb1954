---------------------------- MODULE ContextProofs ----------------------------
(***************************************************************************)
(* What every method of TContext keeps of its tables, whatever the calls   *)
(* the traced processes make: entries that hold a TFileState in range, and *)
(* slots that are descriptors.                                             *)
(***************************************************************************)
EXTENDS Context, TLAPS

------------------------------------------------------------------------------
(* TFileState *)

LEMMA SumInSize ==
  ASSUME NEW a \in Size, NEW b \in Size
  PROVE  (a + b) % SizeModulus \in Size
BY SizeModulusAssumption DEF Size

\* TFileState's constructors and setters (types.cpp) stay in range.
LEMMA FileStateTyped ==
  ASSUME NEW file \in TFileState, NEW n \in Size, NEW m \in Size,
         NEW flags \in SUBSET FlagBit, NEW on \in BOOLEAN
  PROVE  /\ CopyFileState(file, n) \in TFileState
         /\ SetFlags(file, flags) \in TFileState
         /\ SetCloexecFlag(file, on) \in TFileState
         /\ SetCurrPos(file, n) \in TFileState
         /\ Enroll(file, n) \in TFileState
         /\ EnrollNoShift(file, n, m) \in TFileState
<1>1. /\ file.CurrPos \in Size /\ file.MaxPos \in Size /\ 0 \in Size
      /\ file.Flags \in SUBSET FlagBit
  BY SizeModulusAssumption DEF TFileState, Size
<1>2. /\ (file.CurrPos + n) % SizeModulus \in Size
      /\ (m + n) % SizeModulus \in Size
  BY <1>1, SumInSize
<1>3. \A pos \in Size : Reach(file, pos) \in Size
  BY <1>1 DEF Reach
<1>4. /\ CopyFileState(file, n) \in TFileState
      /\ SetFlags(file, flags) \in TFileState
      /\ SetCurrPos(file, n) \in TFileState
  BY DEF CopyFileState, SetFlags, SetCurrPos, TFileState
<1>5. SetCloexecFlag(file, on) \in TFileState
  BY DEF SetCloexecFlag, TFileState, FlagBit
<1>6. Enroll(file, n) \in TFileState
  BY <1>2, <1>3 DEF Enroll, TFileState
<1>7. EnrollNoShift(file, n, m) \in TFileState
  BY <1>2, <1>3 DEF EnrollNoShift, TFileState
<1> QED  BY <1>4, <1>5, <1>6, <1>7

LEMMA NewFileStateTyped ==
  ASSUME NEW name \in Name, NEW flags \in SUBSET FlagBit, NEW n \in Size
  PROVE  NewFileState(name, flags, n) \in TFileState
BY SizeModulusAssumption DEF NewFileState, TFileState, Size

------------------------------------------------------------------------------
(* Tables *)

LEMMA FileAtTyped ==
  ASSUME NEW table \in SUBSET Entry, NEW fd \in OpenSlots(table)
  PROVE  FileAt(table, fd) \in TFileState
<1> DEFINE e == CHOOSE x \in table : fd \in x.slots
<1>1. e \in table
  BY DEF OpenSlots
<1> QED  BY <1>1 DEF FileAt, Entry

\* The operations on a table (TearDownFd, assignment and reset of a slot).
LEMMA TableTyped ==
  ASSUME NEW table \in SUBSET Entry, NEW file \in TFileState,
         NEW fd, NEW newfd \in Fd, NEW fds
  PROVE  /\ Cleared(table, fds) \in SUBSET Entry
         /\ Opened(table, newfd, file) \in SUBSET Entry
         /\ Shared(table, fd, newfd) \in SUBSET Entry
         /\ Updated(table, fd, file) \in SUBSET Entry
<1>1. \A s : Cleared(table, s) \in SUBSET Entry
  BY DEF Cleared, LastRefs, Entry
<1>2. Opened(table, newfd, file) \in SUBSET Entry
  BY <1>1 DEF Opened, Entry
<1>3. Shared(table, fd, newfd) \in SUBSET Entry
  BY DEF Shared, Entry
<1>4. Updated(table, fd, file) \in SUBSET Entry
  BY DEF Updated, Entry
<1> QED  BY <1>1, <1>2, <1>3, <1>4

\* make_shared<TFileState>(*fd) for some of the slots.
LEMMA CopiedTyped ==
  ASSUME ContextTyped, NEW table \in SUBSET Entry, NEW fds \in SUBSET OpenSlots(table)
  PROVE  Copied(table, fds) \in SUBSET Entry
<1> SUFFICES ASSUME NEW fd \in fds
             PROVE  [slots |-> {fd},
                     file  |-> CopyFileState(FileAt(table, fd),
                                             length[FileAt(table, fd).Filename])] \in Entry
  BY DEF Copied
<1>1. FileAt(table, fd) \in TFileState /\ fd \in Fd
  BY FileAtTyped DEF OpenSlots, Entry
<1>2. length[FileAt(table, fd).Filename] \in Size
  BY <1>1 DEF ContextTyped, TFileState
<1>3. CopyFileState(FileAt(table, fd), length[FileAt(table, fd).Filename]) \in TFileState
  BY <1>1, <1>2 DEF CopyFileState, TFileState
<1> QED  BY <1>1, <1>3 DEF Entry

\* FillFds.
LEMMA FillFdsTyped ==
  ASSUME length \in [Name -> Size], NEW fds \in SUBSET Fd, NEW inherited \in [fds -> Name]
  PROVE  FillFds(inherited) \in SUBSET Entry
BY NewFileStateTyped DEF FillFds, Entry

------------------------------------------------------------------------------
(* Registration *)

LEMMA NewProcStateTyped ==
  ASSUME Unallocated # {}
  PROVE  /\ NewProcState \in ProcState /\ NewProcState # None
         /\ \A p \in Pid : ProcMap[p] # NewProcState
BY ContextAssumption DEF NewProcState, Unallocated

LEMMA TableOfRegistered ==
  ASSUME ContextTyped, NEW pid \in Registered
  PROVE  pid \in Pid /\ ProcMap[pid] \in ProcState /\ Table(pid) \in SUBSET Entry
BY DEF ContextTyped, Registered, Table

\* RegisterTracee.
LEMMA RegisterTraceeTyped ==
  ASSUME NEW pid \in Pid, NEW fds \in SUBSET Fd, NEW inherited \in [fds -> Name],
         length \in [Name -> Size], RegisterTracee(pid, inherited)
  PROVE  ContextTyped
<1>1. FillFds(inherited) \in SUBSET Entry
  BY FillFdsTyped
<1>2. (CHOOSE s \in ProcState : TRUE) \in ProcState
  BY ContextAssumption
<1> QED  BY <1>1, <1>2 DEF RegisterTracee, ContextTyped

\* RegisterProcess and RegisterThread: the child is known afterwards.
LEMMA RegisterTyped ==
  ASSUME ContextTyped, UNCHANGED length, NEW parent \in Registered, NEW child \in Pid,
         RegisterProcess(parent, child) \/ RegisterThread(parent, child)
  PROVE  /\ ContextTyped'
         /\ Registered' = Registered \cup {child}
         /\ GroupLeaders' \subseteq GroupLeaders \cup {child}
<1>1. CASE RegisterThread(parent, child)
  BY <1>1 DEF RegisterThread, ContextTyped, Registered
<1>2. CASE RegisterProcess(parent, child)
  <2>1. /\ NewProcState \in ProcState /\ NewProcState # None
    BY <1>2, NewProcStateTyped DEF RegisterProcess
  <2>2. Copied(Table(parent), OpenSlots(Table(parent))) \in SUBSET Entry
    BY CopiedTyped, TableOfRegistered
  <2>3. ContextTyped'
    BY <1>2, <2>1, <2>2 DEF RegisterProcess, ContextTyped
  <2>4. Registered' = Registered \cup {child}
    BY <1>2, <2>1 DEF RegisterProcess, ContextTyped, Registered
  <2> QED  BY <1>2, <2>3, <2>4 DEF RegisterProcess
<1> QED  BY <1>1, <1>2

\* VanishProcess.
LEMMA VanishTyped ==
  ASSUME ContextTyped, UNCHANGED length, NEW pid \in Registered, NEW stored,
         VanishProcess(pid, stored)
  PROVE  /\ ContextTyped'
         /\ Registered' = Registered \ {pid}
         /\ GroupLeaders' = GroupLeaders \ {pid}
<1>1. TornDown(pid) \in [ProcState -> SUBSET Entry]
  BY DEF TornDown, ContextTyped
<1> QED  BY <1>1 DEF VanishProcess, ContextTyped, Registered

\* RegisterExec.
LEMMA RegisterExecTyped ==
  ASSUME ContextTyped, UNCHANGED length, NEW pid \in Registered, RegisterExec(pid)
  PROVE  /\ ContextTyped'
         /\ Registered' = Registered
         /\ GroupLeaders' = GroupLeaders \cup {pid}
<1> DEFINE kept == {fd \in OpenSlots(Table(pid)) : ~IsCloexecSet(FileAt(Table(pid), fd))}
<1>1. NewProcState \in ProcState /\ NewProcState # None
  BY NewProcStateTyped DEF RegisterExec
<1>2. Copied(Table(pid), kept) \in SUBSET Entry
  BY CopiedTyped, TableOfRegistered
<1>3. TornDown(pid) \in [ProcState -> SUBSET Entry]
  BY DEF TornDown, ContextTyped
<1>4. /\ ProcMap' = [ProcMap EXCEPT ![pid] = NewProcState]
      /\ GroupLeaders' = GroupLeaders \cup {pid}
      /\ Fds' = [TornDown(pid) EXCEPT ![NewProcState] = Copied(Table(pid), kept)]
  BY DEF RegisterExec
<1>5. ContextTyped'
  BY <1>1, <1>2, <1>3, <1>4, TableOfRegistered DEF ContextTyped
<1>6. Registered' = Registered
  BY <1>1, <1>4 DEF ContextTyped, Registered
<1> QED  BY <1>4, <1>5, <1>6

------------------------------------------------------------------------------
(* System calls *)

LEMMA SetTableTyped ==
  ASSUME ContextTyped, UNCHANGED length, NEW pid \in Registered,
         NEW table \in SUBSET Entry, SetTable(pid, table)
  PROVE  ContextTyped' /\ UNCHANGED <<ProcMap, GroupLeaders>>
BY DEF SetTable, ContextTyped

LEMMA SetFileTyped ==
  ASSUME ContextTyped, UNCHANGED length, NEW pid \in Registered, NEW fd, NEW file,
         fd \in OpenSlots(Table(pid)) => file \in TFileState,
         SetFile(pid, fd, file)
  PROVE  ContextTyped' /\ UNCHANGED <<ProcMap, GroupLeaders>>
<1>1. Table(pid) \in SUBSET Entry
  BY TableOfRegistered
<1>2. (IF fd \in OpenSlots(Table(pid))
       THEN Updated(Table(pid), fd, file) ELSE Table(pid)) \in SUBSET Entry
  BY <1>1 DEF Updated, Entry
<1> QED  BY <1>2, SetTableTyped DEF SetFile

LEMMA OpDup2Typed ==
  ASSUME ContextTyped, UNCHANGED length, NEW pid \in Registered, NEW oldfd, NEW newfd \in Fd,
         OpDup2(pid, oldfd, newfd)
  PROVE  ContextTyped' /\ UNCHANGED <<ProcMap, GroupLeaders>>
<1> DEFINE closed == Cleared(Table(pid), {newfd})
<1>1. CASE oldfd = newfd
  BY <1>1 DEF OpDup2, DupOnto, Duplicated, contextVars, ContextTyped
<1>2. CASE oldfd # newfd
  <2>1. closed \in SUBSET Entry /\ Shared(closed, oldfd, newfd) \in SUBSET Entry
    BY TableOfRegistered DEF Cleared, LastRefs, Shared, Entry
  <2>2. SetTable(pid, IF oldfd \in OpenSlots(closed)
                      THEN Shared(closed, oldfd, newfd) ELSE closed)
    BY <1>2 DEF OpDup2, DupOnto, Duplicated
  <2> QED  BY <2>1, <2>2, SetTableTyped
<1> QED  BY <1>1, <1>2

LEMMA OpDup3Typed ==
  ASSUME ContextTyped, UNCHANGED length, NEW pid \in Registered, NEW oldfd, NEW newfd \in Fd,
         NEW flags, OpDup3(pid, oldfd, newfd, flags)
  PROVE  ContextTyped' /\ UNCHANGED <<ProcMap, GroupLeaders>>
<1> DEFINE closed == Cleared(Table(pid), {newfd})
           shared == Shared(closed, oldfd, newfd)
           marked == Updated(shared, newfd,
                       SetCloexecFlag(FileAt(shared, newfd), "O_CLOEXEC" \in flags))
<1>1. CASE oldfd = newfd
  BY <1>1 DEF OpDup3, DupOnto, Duplicated, contextVars, ContextTyped
<1>2. CASE oldfd # newfd
  <2>1. closed \in SUBSET Entry
    BY TableOfRegistered DEF Cleared, LastRefs, Entry
  <2>2. shared \in SUBSET Entry
    BY <2>1 DEF Shared, Entry
  <2>3. ASSUME oldfd \in OpenSlots(closed)
        PROVE  marked \in SUBSET Entry
    <3>1. newfd \in OpenSlots(shared)
      <4>1. PICK e \in closed : oldfd \in e.slots
        BY <2>3 DEF OpenSlots
      <4>2. [e EXCEPT !.slots = @ \cup {newfd}] \in shared
        BY <4>1 DEF Shared
      <4>3. newfd \in [e EXCEPT !.slots = @ \cup {newfd}].slots
        BY <2>1 DEF Entry
      <4> QED  BY <4>2, <4>3 DEF OpenSlots
    <3>2. FileAt(shared, newfd) \in TFileState
      BY <2>2, <3>1, FileAtTyped
    <3>3. SetCloexecFlag(FileAt(shared, newfd), "O_CLOEXEC" \in flags) \in TFileState
      BY <3>2 DEF SetCloexecFlag, TFileState, FlagBit
    <3> QED  BY <2>2, <3>3 DEF Updated, Entry
  <2>4. SetTable(pid, IF oldfd \in OpenSlots(closed) THEN marked ELSE closed)
    BY <1>2 DEF OpDup3, DupOnto, Duplicated
  <2> QED  BY <2>1, <2>3, <2>4, SetTableTyped
<1> QED  BY <1>1, <1>2

\* A system call changes only the table of the process that makes it, and
\* leaves it well typed.
LEMMA SyscallExitTyped ==
  ASSUME ContextTyped, UNCHANGED length, NEW pid \in Registered, NEW r,
         WellTyped(r), SyscallExit(pid, r)
  PROVE  ContextTyped' /\ UNCHANGED <<ProcMap, GroupLeaders>>
<1>1. CASE UNCHANGED contextVars
  BY <1>1 DEF contextVars, ContextTyped
<1>2. CASE ~UNCHANGED contextVars
  <2>1. Succeeded(r)
    BY <1>2 DEF SyscallExit
  <2>2. \A fd \in OpenSlots(Table(pid)) : FileOf(pid, fd) \in TFileState
    BY FileAtTyped, TableOfRegistered DEF FileOf
  <2>3. CASE r.nr = "write" /\ OpWriteChangeOffset(pid, r.fd, r.ret)
    BY <2>1, <2>2, <2>3, SetFileTyped, FileStateTyped DEF WellTyped, OpWriteChangeOffset
  <2>4. CASE r.nr = "pwrite64" /\ OpWriteNoOffsetChange(pid, r.fd, r.ret, r.arg)
    BY <2>1, <2>2, <2>4, SetFileTyped, FileStateTyped DEF WellTyped, OpWriteNoOffsetChange
  <2>5. CASE r.nr \in {"creat", "open"} /\ OpOpenWriteFile(pid, r.ret, r.name, r.flags)
    <3>1. NewFileState(r.name, r.flags, length[r.name]) \in TFileState
      BY <2>1, <2>5, NewFileStateTyped DEF WellTyped, ContextTyped
    <3>2. Opened(Table(pid), r.ret, NewFileState(r.name, r.flags, length[r.name]))
            \in SUBSET Entry
      BY <2>1, <2>5, <3>1, TableTyped, TableOfRegistered DEF WellTyped
    <3> QED  BY <2>5, <3>2, SetTableTyped DEF OpOpenWriteFile
  <2>6. CASE r.nr = "close" /\ OpClose(pid, r.fd)
    <3>1. Cleared(Table(pid), {r.fd}) \in SUBSET Entry
      BY TableOfRegistered DEF Cleared, LastRefs, Entry
    <3> QED  BY <2>6, <3>1, SetTableTyped DEF OpClose
  <2>7. CASE r.nr \in {"dup", "F_DUPFD"} /\ OpDup(pid, r.fd, r.ret)
    BY <2>1, <2>7, OpDup2Typed DEF WellTyped, OpDup
  <2>8. CASE r.nr = "F_DUPFD_CLOEXEC" /\ OpDup3(pid, r.fd, r.ret, {"O_CLOEXEC"})
    BY <2>1, <2>8, OpDup3Typed DEF WellTyped
  <2>9. CASE r.nr \in {"F_SETFL", "F_SETFD"} /\ OpSetFlag(pid, r.fd, r.flags)
    <3>1. r.flags \in SUBSET FlagBit
      BY <2>1, <2>9 DEF WellTyped
    <3>2. \A file \in TFileState : SetFlags(file, r.flags) \in TFileState
      BY <3>1 DEF SetFlags, TFileState
    <3> QED  BY <2>2, <2>9, <3>2, SetFileTyped DEF OpSetFlag
  <2>10. CASE r.nr = "dup2" /\ OpDup2(pid, r.fd, r.arg)
    BY <2>1, <2>10, OpDup2Typed DEF WellTyped
  <2>11. CASE r.nr = "dup3" /\ OpDup3(pid, r.fd, r.arg, r.flags)
    BY <2>1, <2>11, OpDup3Typed DEF WellTyped
  <2>12. CASE r.nr \in {"fallocate", "ftruncate"} /\ OpResize(pid, r.fd, r.arg)
    <3>1. r.arg \in Size /\ 0 \in Size
      BY <2>1, <2>12, SizeModulusAssumption DEF WellTyped, Size
    <3> QED  BY <2>2, <2>12, <3>1, SetFileTyped, FileStateTyped DEF OpResize
  <2>13. CASE r.nr = "lseek" /\ OpSeek(pid, r.fd, r.ret)
    BY <2>1, <2>2, <2>13, SetFileTyped, FileStateTyped DEF WellTyped, OpSeek
  <2> QED
    BY <1>2, <2>1, <2>3, <2>4, <2>5, <2>6, <2>7, <2>8, <2>9, <2>10, <2>11, <2>12, <2>13
    DEF SyscallExit, OpOpenFile
<1> QED  BY <1>1, <1>2
==============================================================================
