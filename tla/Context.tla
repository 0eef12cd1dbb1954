------------------------------- MODULE Context -------------------------------
(***************************************************************************)
(* TContext (context.cpp, context.h): what the tracer knows of the traced  *)
(* processes.  ProcMap maps each thread and process id it has registered   *)
(* to a TProcState; the threads of a process share one.  A TProcState      *)
(* holds the table of the files open for writing.                          *)
(*                                                                         *)
(* Every operator below is one method, called by the tracer's loop while   *)
(* it handles one event; a module that composes it says when.              *)
(***************************************************************************)
EXTENDS Ids, FileState, FiniteSetsExt

CONSTANTS
  ProcState,    \* addresses a TProcState can be allocated at
  Fd,           \* file descriptor numbers
  IntModulus    \* an int holds IntModulus values, half of them negative

ASSUME ContextAssumption ==
  /\ ProcState # {} /\ None \notin ProcState
  /\ IntModulus \in Nat \ {0, 1}

VARIABLES
  ProcMap,       \* pid -> the address of its TProcState, or None
  GroupLeaders,  \* the pids registered as processes, not as threads
  Fds,           \* address -> the table of open files of that TProcState
  OutputSize,    \* FileStorage.OutputSize, the total that is reported: of a
                 \* storage whose Capacity is not 0 (with 0 there is no report)
  length         \* the length of each file now: what GetFileLength returns

contextVars == <<ProcMap, GroupLeaders, Fds, OutputSize>>

(***************************************************************************)
(* A table of shared_ptr<TFileState> is a set of entries, one for each     *)
(* TFileState alive, with the slots (file descriptors) that point to it:   *)
(* use_count() is the number of slots.                                     *)
(***************************************************************************)
Entry == [slots : SUBSET Fd, file : TFileState]

OpenSlots(table) == UNION {e.slots : e \in table}

FileAt(table, fd) == (CHOOSE e \in table : fd \in e.slots).file

\* The entries whose last reference is one of fds.
LastRefs(table, fds) == {e \in table : e.slots \subseteq fds}

\* The table once the slots fds are null.
Cleared(table, fds) ==
  {[e EXCEPT !.slots = @ \ fds] : e \in table \ LastRefs(table, fds)}

\* The table with a new file in slot fd; what the slot held is overwritten.
Opened(table, fd, file) ==
  Cleared(table, {fd}) \cup {[slots |-> {fd}, file |-> file]}

\* Fault: the slots get a copy each instead of sharing.
SharedAsCopy(table, fd, newfd) ==
  table \cup {[slots |-> {newfd}, file |-> FileAt(table, fd)]}

\* The table with slot newfd pointing to what slot fd points to.
Shared(table, fd, newfd) ==
  {IF fd \in e.slots THEN [e EXCEPT !.slots = @ \cup {newfd}] ELSE e : e \in table}

\* The table once the file that slot fd points to has become file.
Updated(table, fd, file) ==
  {IF fd \in e.slots THEN [e EXCEPT !.file = file] ELSE e : e \in table}

\* make_shared<TFileState>(*fds[i]) for each slot in fds: copies share nothing.
Copied(table, fds) ==
  {[slots |-> {fd},
    file  |-> CopyFileState(FileAt(table, fd), length[FileAt(table, fd).Filename])] :
   fd \in fds}

\* What AddFileEntry adds to the total for these entries.
OutputOf(entries) == MapThenSumSet(LAMBDA e : GetOutputSize(e.file), entries)

------------------------------------------------------------------------------
(* Registration of processes. *)

Registered == {p \in Pid : ProcMap[p] # None}

\* GetProcState(pid)->Fds
Table(pid) == Fds[ProcMap[pid]]

\* Addresses make_shared<TProcState> can return.
Unallocated == {s \in ProcState : \A p \in Pid : ProcMap[p] # s}
NewProcState == CHOOSE s \in Unallocated : TRUE

\* FillFds records the regular files pid has inherited.  It stores what
\* F_GETFD answers as the flags: FD_CLOEXEC or nothing.
FillFds(inherited) ==
  {[slots |-> {fd}, file |-> NewFileState(inherited[fd], {}, length[inherited[fd]])] :
   fd \in DOMAIN inherited}

\* The initial state: RegisterTracee(pid), before the loop starts.
RegisterTracee(pid, inherited) ==
  LET new == CHOOSE s \in ProcState : TRUE
  IN  /\ ProcMap = [p \in Pid |-> IF p = pid THEN new ELSE None]
      /\ GroupLeaders = {pid}
      /\ Fds = [s \in ProcState |-> IF s = new THEN FillFds(inherited) ELSE {}]
      /\ OutputSize = 0

\* Fault: the child is not made a group leader.
RegisterFollower(parent, child) ==
  /\ Unallocated # {}
  /\ ProcMap' = [ProcMap EXCEPT ![child] = NewProcState]
  /\ Fds' = [Fds EXCEPT ![NewProcState] = Copied(Table(parent), OpenSlots(Table(parent)))]
  /\ UNCHANGED <<GroupLeaders, OutputSize>>

\* The guard on Unallocated is the bound on the heap.
RegisterProcess(parent, child) ==
  /\ Unallocated # {}
  /\ ProcMap' = [ProcMap EXCEPT ![child] = NewProcState]
  /\ GroupLeaders' = GroupLeaders \cup {child}
  /\ Fds' = [Fds EXCEPT ![NewProcState] = Copied(Table(parent), OpenSlots(Table(parent)))]
  /\ UNCHANGED OutputSize

\* Fault: the thread gets a table of its own.
RegisterThreadApart(pid, thread) ==
  /\ Unallocated # {}
  /\ ProcMap' = [ProcMap EXCEPT ![thread] = NewProcState]
  /\ Fds' = [Fds EXCEPT ![NewProcState] = Table(pid)]
  /\ UNCHANGED <<GroupLeaders, OutputSize>>

RegisterThread(pid, thread) ==
  /\ ProcMap' = [ProcMap EXCEPT ![thread] = ProcMap[pid]]
  /\ UNCHANGED <<GroupLeaders, Fds, OutputSize>>

\* The tables after VanishProcess(pid): a leader tears its table down, and
\* a TProcState nobody points to is freed.
TornDown(pid) ==
  IF pid \in GroupLeaders \/ \A p \in Pid \ {pid} : ProcMap[p] # ProcMap[pid]
  THEN [Fds EXCEPT ![ProcMap[pid]] = {}]
  ELSE Fds

\* What TearDownFd records while pid vanishes: only a leader records.
RecordedBy(pid) == IF pid \in GroupLeaders THEN OutputOf(Table(pid)) ELSE 0

\* stored is the total of the storage when the call is made.
VanishProcess(pid, stored) ==
  /\ ProcMap' = [ProcMap EXCEPT ![pid] = None]
  /\ GroupLeaders' = GroupLeaders \ {pid}
  /\ Fds' = TornDown(pid)
  /\ OutputSize' = stored + RecordedBy(pid)

\* Fault: the process is not registered again.
RegisterExecOnce(pid) ==
  /\ Unallocated # {}
  /\ ProcMap' = [ProcMap EXCEPT ![pid] = None]
  /\ GroupLeaders' = GroupLeaders \ {pid}
  /\ Fds' = TornDown(pid)
  /\ OutputSize' = OutputSize + RecordedBy(pid)

\* The copy of the table is made, then the old state vanishes, then the pid
\* is registered again as a leader.
RegisterExec(pid) ==
  LET kept == {fd \in OpenSlots(Table(pid)) : ~IsCloexecSet(FileAt(Table(pid), fd))}
  IN  /\ Unallocated # {}
      /\ ProcMap' = [ProcMap EXCEPT ![pid] = NewProcState]
      /\ GroupLeaders' = GroupLeaders \cup {pid}
      /\ Fds' = [TornDown(pid) EXCEPT ![NewProcState] = Copied(Table(pid), kept)]
      /\ OutputSize' = OutputSize + RecordedBy(pid)

\* The total once a core file of that many bytes has been recorded (0: no
\* core file was found, or they are not searched for).
RegisterCoreDump(bytes) == OutputSize + bytes

\* One turn of the loop of PostProcess: whichever pid the map yields first.
PostProcess(pid) == pid \in Registered /\ VanishProcess(pid, OutputSize)

------------------------------------------------------------------------------
(* The operations of SyscallExit on the table of the calling process. *)

SetTable(pid, table) ==
  /\ Fds' = [Fds EXCEPT ![ProcMap[pid]] = table]
  /\ UNCHANGED <<ProcMap, GroupLeaders>>

\* An operation on the file fd points to; nothing if the slot is null.
SetFile(pid, fd, file) ==
  /\ SetTable(pid, IF fd \in OpenSlots(Table(pid))
                   THEN Updated(Table(pid), fd, file) ELSE Table(pid))
  /\ UNCHANGED OutputSize

FileOf(pid, fd) == FileAt(Table(pid), fd)

OpWriteChangeOffset(pid, fd, nbytes) == SetFile(pid, fd, Enroll(FileOf(pid, fd), nbytes))

OpWriteNoOffsetChange(pid, fd, nbytes, offset) ==
  SetFile(pid, fd, EnrollNoShift(FileOf(pid, fd), nbytes, offset))

OpResize(pid, fd, size) == SetFile(pid, fd, EnrollNoShift(FileOf(pid, fd), size, 0))

OpSeek(pid, fd, pos) == SetFile(pid, fd, SetCurrPos(FileOf(pid, fd), pos))

OpSetFlag(pid, fd, flags) == SetFile(pid, fd, SetFlags(FileOf(pid, fd), flags))

\* The slot is assigned, not torn down: an entry that was still there is
\* freed without being recorded.
OpOpenWriteFile(pid, fd, name, flags) ==
  /\ SetTable(pid, Opened(Table(pid), fd, NewFileState(name, flags, length[name])))
  /\ UNCHANGED OutputSize

OpOpenFile(pid, fd, name, flags) ==
  IF {"O_WRONLY", "O_RDWR"} \cap flags # {}
  THEN OpOpenWriteFile(pid, fd, name, flags)
  ELSE UNCHANGED contextVars

OpClose(pid, fd) ==
  /\ SetTable(pid, Cleared(Table(pid), {fd}))
  /\ OutputSize' = OutputSize + OutputOf(LastRefs(Table(pid), {fd}))

\* The table once newfd has been closed and shares what oldfd points to.
Duplicated(pid, oldfd, newfd) == Shared(Cleared(Table(pid), {newfd}), oldfd, newfd)

\* newfd is closed, and the table becomes duplicated unless oldfd is null.
DupOnto(pid, oldfd, newfd, duplicated) ==
  IF oldfd = newfd THEN UNCHANGED contextVars
  ELSE LET closed == Cleared(Table(pid), {newfd})
       IN  /\ SetTable(pid, IF oldfd \in OpenSlots(closed) THEN duplicated ELSE closed)
           /\ OutputSize' = OutputSize + OutputOf(LastRefs(Table(pid), {newfd}))

OpDup2(pid, oldfd, newfd) ==
  DupOnto(pid, oldfd, newfd, Duplicated(pid, oldfd, newfd))

OpDup(pid, fd, newfd) == OpDup2(pid, fd, newfd)

\* What OpDup2 does, and the flag is set on the file both share.
OpDup3(pid, oldfd, newfd, flags) ==
  LET table == Duplicated(pid, oldfd, newfd)
  IN  DupOnto(pid, oldfd, newfd,
              Updated(table, newfd,
                      SetCloexecFlag(FileAt(table, newfd), "O_CLOEXEC" \in flags)))

------------------------------------------------------------------------------
(***************************************************************************)
(* SyscallExit reads a system call and its result from the registers: the  *)
(* call (nr), its result (ret), the descriptor it is given (fd), a second  *)
(* number (arg: the other descriptor, an offset, a size), its flags, and   *)
(* the name /proc/pid/fd gives to the descriptor a call has returned.      *)
(***************************************************************************)
Syscall == {"write", "pwrite64", "creat", "open", "close", "dup", "dup2", "dup3",
            "F_DUPFD", "F_DUPFD_CLOEXEC", "F_SETFL", "F_SETFD", "fallocate",
            "ftruncate", "lseek"}

\* (int)ret >= 0: the low half of the register, read as signed.
IntNonNegative(ret) == (ret % IntModulus) < IntModulus \div 2

\* The return value lets the call through to the tables.
Succeeded(r) ==
  CASE r.nr \in {"write", "pwrite64"} -> r.ret > 0
    [] r.nr = "close" -> TRUE
    [] OTHER -> IntNonNegative(r.ret)

\* What the kernel puts into the registers of a call that has succeeded: the
\* descriptors and the name it answers exist, and a position is a size_t.
WellTyped(r) ==
  /\ r.nr \in Syscall
  /\ Succeeded(r) =>
       /\ r.nr \in {"write", "lseek"} => r.ret \in Size
       /\ r.nr = "pwrite64" => r.ret \in Size /\ r.arg \in Size
       /\ r.nr \in {"fallocate", "ftruncate"} => r.arg \in Size
       /\ r.nr \in {"creat", "open"} =>
            r.ret \in Fd /\ r.name \in Name /\ r.flags \subseteq FlagBit
       /\ r.nr \in {"F_SETFL", "F_SETFD"} => r.flags \subseteq FlagBit
       /\ r.nr \in {"dup", "F_DUPFD", "F_DUPFD_CLOEXEC"} => r.ret \in Fd
       /\ r.nr \in {"dup2", "dup3"} => r.arg \in Fd

SyscallExit(pid, r) ==
  IF ~Succeeded(r) THEN UNCHANGED contextVars
  ELSE
    \/ r.nr = "write" /\ OpWriteChangeOffset(pid, r.fd, r.ret)
    \/ r.nr = "pwrite64" /\ OpWriteNoOffsetChange(pid, r.fd, r.ret, r.arg)
    \/ r.nr = "creat" /\ OpOpenWriteFile(pid, r.ret, r.name, r.flags)
    \/ r.nr = "open" /\ OpOpenFile(pid, r.ret, r.name, r.flags)
    \/ r.nr = "close" /\ OpClose(pid, r.fd)
    \/ r.nr \in {"dup", "F_DUPFD"} /\ OpDup(pid, r.fd, r.ret)
    \/ r.nr = "F_DUPFD_CLOEXEC" /\ OpDup3(pid, r.fd, r.ret, {"O_CLOEXEC"})
    \/ r.nr \in {"F_SETFL", "F_SETFD"} /\ OpSetFlag(pid, r.fd, r.flags)
    \/ r.nr = "dup2" /\ OpDup2(pid, r.fd, r.arg)
    \/ r.nr = "dup3" /\ OpDup3(pid, r.fd, r.arg, r.flags)
    \/ r.nr \in {"fallocate", "ftruncate"} /\ OpResize(pid, r.fd, r.arg)
    \/ r.nr = "lseek" /\ OpSeek(pid, r.fd, r.ret)

------------------------------------------------------------------------------
\* The types of the context, and of what it reads from the file system.
ContextTyped ==
  /\ ProcMap \in [Pid -> ProcState \cup {None}]
  /\ GroupLeaders \subseteq Pid
  /\ Fds \in [ProcState -> SUBSET Entry]
  /\ length \in [Name -> Size]
==============================================================================
