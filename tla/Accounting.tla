----------------------------- MODULE Accounting ------------------------------
(***************************************************************************)
(* The tables of open files the context keeps against the descriptors the  *)
(* kernel has.  A traced thread makes a system call, the kernel carries it *)
(* out, and the thread stays in its exit stop until the tracer has handled *)
(* it; the other threads and processes go on meanwhile, so that calls may  *)
(* be handled in another order than they were made in.                     *)
(*                                                                         *)
(* The handlers are those of Tracer, reduced to the calls they make on the *)
(* context: RegisterProcess at a fork, RegisterThread at a clone,          *)
(* RegisterExec at an execve, VanishProcess at an exit, SyscallExit at any *)
(* other exit stop.  A process that forks or calls execve has one thread   *)
(* here: a child registered while another thread of its parent has an open *)
(* to be handled would miss that descriptor.  Tracer has such forks, but   *)
(* follows no descriptors.                                                 *)
(***************************************************************************)
EXTENDS Context

CONSTANTS
  TraceePid,
  Ofd,         \* open file descriptions the kernel can have at once
  MaxLength,   \* the longest file
  Uses         \* what the traced program does (Use)

(***************************************************************************)
(* An open file description.  init is the length of the file when it was   *)
(* opened, peak the furthest position written or resized to through it;    *)
(* followed: the context keeps a TFileState for it, as it was opened for   *)
(* writing, or inherited, in whatever way it was opened then; split: fork, *)
(* or execve with several descriptors of it open, has had the context copy *)
(* that TFileState, and more than one follows it.                          *)
(***************************************************************************)
Free == [name |-> None, pos |-> 0, append |-> FALSE, write |-> FALSE,
         init |-> 0, peak |-> 0, followed |-> FALSE, split |-> FALSE]

Description ==
  [name : Name \cup {None}, pos : 0 .. MaxLength, append : BOOLEAN, write : BOOLEAN,
   init : 0 .. MaxLength, peak : 0 .. MaxLength, followed : BOOLEAN, split : BOOLEAN]

(***************************************************************************)
(* A use: the system calls that are made, the flags files are opened with, *)
(* the lengths files have at first, the descriptions there are, the file   *)
(* the program may inherit as descriptor 0 (a description and its          *)
(* close-on-exec, or None), the names the interruption target matches, and *)
(* the quirks (below) it is explored with.                                 *)
(***************************************************************************)
ASSUME AccountingAssumption ==
  /\ TraceePid \in Pid
  /\ 0 \in Fd /\ Fd \subseteq Nat /\ IsFiniteSet(Fd) /\ \A fd \in Fd : IntNonNegative(fd)
  /\ Ofd \subseteq Nat /\ IsFiniteSet(Ofd)
  /\ None \notin Ofd /\ None \notin Name
  /\ MaxLength \in Size
  /\ \A u \in Uses :
       /\ u.target \subseteq Name
       /\ u.flags \subseteq SUBSET FlagBit
       /\ u.lengths \subseteq 0 .. MaxLength
       /\ u.ofds \subseteq Ofd /\ u.ofds # {}
       /\ \A i \in u.inherited \ {None} :
            /\ i.file \in Description /\ i.file.name # None
            /\ i.file.peak = 0 /\ ~i.file.split /\ i.cloexec \in BOOLEAN

VARIABLES
  use,     \* the use that is made
  group,   \* pid -> the process the thread belongs to, or None
  kfds,    \* process -> fd -> the description it refers to, and close-on-exec
  ofds,    \* the open file descriptions
  size,    \* the length of each file, be there a name for it or not
  unlinked,  \* the names that are no more: GetFileLength answers 0
  stop,    \* pid -> what the thread does or is stopped at
  struck,  \* the processes that have the interruption signal pending
  grown,   \* history: the growth recorded of descriptions now closed
  quirks   \* history: the kinds of use made so far that are told apart below

files == <<length, size, unlinked>>
kernelVars == <<files, use, group, kfds, ofds, stop, struck, grown, quirks>>
vars == <<contextVars, kernelVars>>

Closed == [ofd |-> None, cloexec |-> FALSE]

Absent == [event |-> "absent", regs |-> None, child |-> None]
Running == [Absent EXCEPT !.event = "running"]

Members(p) == {q \in Pid : group[q] = group[p] /\ stop[q] # Absent}
Refers(fds, o) == \E p \in Pid, fd \in Fd : fds[p][fd].ofd = o

\* The descriptors of the process p belongs to.
Descriptors(p) == kfds[group[p]]
IsOpen(p, fd) == Descriptors(p)[fd].ofd # None
At(p, fd) == ofds[Descriptors(p)[fd].ofd]
Writable(p, fd) == IsOpen(p, fd) /\ At(p, fd).write

Growth(o) == IF o.peak > o.init THEN o.peak - o.init ELSE 0

\* By how much files have grown through some of the descriptions.
GrowthOf(descriptions, those) == MapThenSumSet(LAMBDA o : Growth(descriptions[o]), those)

Longer(a, b) == IF a > b THEN a ELSE b

FreeFds(p) == {fd \in Fd : ~IsOpen(p, fd)}

------------------------------------------------------------------------------
(* The kernel *)

NewFd == {"creat", "open", "dup", "dup2", "dup3", "F_DUPFD", "F_DUPFD_CLOEXEC"}

\* The descriptors a call is about.
Slots(r) == (IF r.nr \in {"creat", "open"} THEN {} ELSE {r.fd}) \cup
            (IF r.nr \in NewFd THEN {r.ret} ELSE {})

\* The two calls, of threads of one process, have another effect in the other
\* order.  (Writes may be handled in any.)
Conflict(p, a, b) ==
  \/ Slots(a) \cap Slots(b) # {} /\ {a.nr, b.nr} # {"write"}
  \/ /\ {a.nr, b.nr} \in {{"lseek"}, {"lseek", "write"}}
     /\ Descriptors(p)[a.fd].ofd = Descriptors(p)[b.fd].ofd

\* Another thread has made such a call, which is still to be handled.
Races(p, r) ==
  \E q \in Members(p) \ {p} : stop[q].event = "syscall" /\ Conflict(p, r, stop[q].regs)

\* p is in its exit stop with these registers, having made such a use.
StopAt(p, r, kinds) ==
  /\ stop' = [stop EXCEPT ![p] = [Running EXCEPT !.event = "syscall", !.regs = r]]
  /\ quirks' = quirks \cup kinds \cup (IF Races(p, r) THEN {"race"} ELSE {})
  /\ UNCHANGED <<use, group, struck>>

\* The descriptors become fds: a description nobody refers to is freed, and
\* what was written through it is history.
SetDescriptors(fds, descriptions) ==
  LET freed == {o \in Ofd : descriptions[o].name # None /\ ~Refers(fds, o)}
  IN  /\ kfds' = fds
      /\ ofds' = [o \in Ofd |-> IF o \in freed THEN Free ELSE descriptions[o]]
      /\ grown' = grown + GrowthOf(descriptions, freed)

\* The context follows what has been opened for writing.
Follows(r) ==
  \/ r.nr = "creat"
  \/ r.nr = "open" /\ {"O_WRONLY", "O_RDWR"} \cap r.flags # {}

\* The kind of use, if the condition holds.
Kind(kind, condition) == IF condition THEN {kind} ELSE {}

\* Descriptors of one description that differ in close-on-exec, which the
\* context keeps in the flags of the file they share.
MixedCloexec(fds) ==
  \E p \in Pid, a, b \in Fd : /\ fds[p][a].ofd = fds[p][b].ofd /\ fds[p][a].ofd # None
                              /\ fds[p][a].cloexec # fds[p][b].cloexec

\* A file becomes that long.
SetLength(name, new) ==
  /\ size' = [size EXCEPT ![name] = new]
  /\ length' = [length EXCEPT ![name] = IF name \in unlinked THEN 0 ELSE new]
  /\ UNCHANGED unlinked

\* fd is made to refer to what entry says.
SetFd(p, fd, entry) ==
  SetDescriptors([kfds EXCEPT ![group[p]][fd] = entry], ofds) /\ UNCHANGED files

\* open and creat: the lowest descriptor, a new description.  The context reads
\* creat's mode as flags: the bit of set-group-id is that of O_APPEND.
Open(p, nr, name, flags, trunc, mode) ==
  LET fd == Min(FreeFds(p))
      o == Min({d \in use.ofds : ofds[d].name = None})
      write == {"O_WRONLY", "O_RDWR"} \cap flags # {}
      start == IF trunc THEN 0 ELSE size[name]
      others == {d \in Ofd : ofds[d].name = name /\ ofds[d].write}
  IN  /\ FreeFds(p) # {} /\ \E d \in use.ofds : ofds[d].name = None
      /\ trunc => write
      /\ name \notin unlinked
      /\ IF nr = "creat" THEN trunc /\ flags = {"O_WRONLY"} ELSE mode = {}
      /\ SetLength(name, start)
      /\ SetDescriptors([kfds EXCEPT ![group[p]][fd] =
                           [ofd |-> o, cloexec |-> "O_CLOEXEC" \in flags]],
                        [ofds EXCEPT ![o] = [Free EXCEPT !.name = name, !.write = write,
                                               !.append = "O_APPEND" \in flags,
                                               !.init = start, !.followed = write]])
      /\ StopAt(p, [nr |-> nr, ret |-> fd, name |-> name,
                    flags |-> IF nr = "creat" THEN mode ELSE flags],
                Kind("writers", write /\ others # {}))

\* A description has written up to end and stands at pos.
Wrote(p, fd, end, pos) ==
  LET name == At(p, fd).name
      o == Descriptors(p)[fd].ofd
  IN  /\ end <= MaxLength
      /\ SetLength(name, Longer(size[name], end))
      /\ ofds' = [ofds EXCEPT ![o].pos = pos, ![o].peak = Longer(@, end)]
      /\ UNCHANGED <<kfds, grown>>

\* With O_APPEND the data goes to the end of the file.
Landing(o) == IF o.append THEN size[o.name] ELSE o.pos

Write(p, fd) ==
  LET from == Landing(At(p, fd))
  IN  /\ Writable(p, fd)
      /\ Wrote(p, fd, from + 1, from + 1)
      /\ StopAt(p, [nr |-> "write", ret |-> 1, fd |-> fd], {})

\* pwrite, pwritev and pwritev2: O_APPEND goes before the offset.
Pwrite(p, fd, offset) ==
  LET from == IF At(p, fd).append THEN size[At(p, fd).name] ELSE offset
  IN  /\ Writable(p, fd)
      /\ Wrote(p, fd, from + 1, At(p, fd).pos)
      /\ StopAt(p, [nr |-> "pwrite64", ret |-> 1, fd |-> fd, arg |-> offset],
                Kind("append", At(p, fd).append) \cup Kind("jump", At(p, fd).split))

\* pwritev2 with an offset of -1 is writev.
PwriteHere(p, fd) ==
  LET from == Landing(At(p, fd))
  IN  /\ Writable(p, fd)
      /\ Wrote(p, fd, from + 1, from + 1)
      /\ StopAt(p, [nr |-> "pwrite64", ret |-> 1, fd |-> fd, arg |-> SizeModulus - 1],
                {"current"})

\* ftruncate and fallocate; FALLOC_FL_KEEP_SIZE allocates behind the end.
Resize(p, nr, fd, to, keep) ==
  LET old == size[At(p, fd).name]
      new == IF nr = "ftruncate" THEN to ELSE IF keep THEN old ELSE Longer(to, old)
  IN  /\ Writable(p, fd)
      /\ keep => nr = "fallocate" /\ to > old
      /\ SetLength(At(p, fd).name, new)
      /\ ofds' = [ofds EXCEPT ![Descriptors(p)[fd].ofd].peak = IF keep THEN @ ELSE Longer(@, to)]
      /\ UNCHANGED <<kfds, grown>>
      /\ StopAt(p, [nr |-> nr, ret |-> 0, fd |-> fd, arg |-> to],
                Kind("shrink", new < old) \cup Kind("keep", keep) \cup
                Kind("append", At(p, fd).append /\ new # old) \cup
                Kind("jump", At(p, fd).split))

\* The context tests the new position as an int.
Seek(p, fd, pos) ==
  /\ IsOpen(p, fd)
  /\ ofds' = [ofds EXCEPT ![Descriptors(p)[fd].ofd].pos = pos]
  /\ UNCHANGED <<files, kfds, grown>>
  /\ StopAt(p, [nr |-> "lseek", ret |-> pos, fd |-> fd],
            Kind("append", At(p, fd).append) \cup Kind("far", ~IntNonNegative(pos)) \cup
            Kind("jump", At(p, fd).split))

\* close fails with EBADF on a descriptor that is not open.
Close(p, fd) ==
  /\ SetFd(p, fd, Closed)
  /\ StopAt(p, [nr |-> "close", ret |-> IF IsOpen(p, fd) THEN 0 ELSE 0 - 1, fd |-> fd], {})

\* dup and fcntl: the lowest descriptor; only F_DUPFD_CLOEXEC sets the flag.
Dup(p, nr, fd) ==
  LET new == Min(FreeFds(p))
  IN  /\ IsOpen(p, fd) /\ FreeFds(p) # {}
      /\ SetFd(p, new, [ofd |-> Descriptors(p)[fd].ofd, cloexec |-> nr = "F_DUPFD_CLOEXEC"])
      /\ StopAt(p, [nr |-> nr, ret |-> new, fd |-> fd], Kind("cloexec", MixedCloexec(kfds')))

\* dup2 and dup3; dup2 of a descriptor to itself does nothing.
DupTo(p, nr, fd, new, flags) ==
  /\ IsOpen(p, fd)
  /\ nr = "dup3" => fd # new
  /\ nr = "dup2" => flags = {}
  /\ SetFd(p, new, IF fd = new THEN Descriptors(p)[fd]
                   ELSE [ofd |-> Descriptors(p)[fd].ofd, cloexec |-> flags # {}])
  /\ StopAt(p, [nr |-> nr, ret |-> new, fd |-> fd, arg |-> new, flags |-> flags],
            Kind("cloexec", MixedCloexec(kfds')))

\* fcntl F_SETFD.  The context stores FD_CLOEXEC where it looks for O_CLOEXEC.
SetFdFlag(p, fd, on) ==
  /\ IsOpen(p, fd)
  /\ SetFd(p, fd, [Descriptors(p)[fd] EXCEPT !.cloexec = on])
  /\ StopAt(p, [nr |-> "F_SETFD", ret |-> 0, fd |-> fd,
                flags |-> IF on THEN {FD_CLOEXEC} ELSE {}],
            Kind("cloexec", on \/ MixedCloexec(kfds')))

\* fcntl F_SETFL turns O_APPEND on or off.  The context forgets O_CLOEXEC.
SetStatusFlags(p, fd, append) ==
  /\ IsOpen(p, fd)
  /\ ofds' = [ofds EXCEPT ![Descriptors(p)[fd].ofd].append = append]
  /\ UNCHANGED <<files, kfds, grown>>
  /\ StopAt(p, [nr |-> "F_SETFL", ret |-> 0, fd |-> fd,
                flags |-> IF append THEN {"O_APPEND"} ELSE {}],
            Kind("cloexec", Descriptors(p)[fd].cloexec) \cup
            Kind("append", At(p, fd).append # append))

\* Copies have been made of the file states of these descriptions.
Split(descriptions, copied) ==
  [o \in Ofd |-> [descriptions[o] EXCEPT !.split = @ \/ o \in copied]]

\* The kinds of use it is to copy file states of these descriptions: they count
\* from the end of the file on, which the description may be beyond.
Copies(copied) ==
  Kind("split", copied # {}) \cup
  Kind("jump", \E o \in copied : ofds[o].pos > size[ofds[o].name])

\* A file state of a name that is no more is copied.
Stale(p) == Kind("stale", \E fd \in Fd : Writable(p, fd) /\ At(p, fd).name \in unlinked)

Fork(p, child) ==
  LET inherited == {kfds[p][fd].ofd : fd \in {f \in Fd : Writable(p, f)}}
  IN  /\ stop[child] = Absent /\ Members(p) = {p}
      /\ kfds' = [kfds EXCEPT ![child] = kfds[p]]
      /\ ofds' = Split(ofds, inherited)
      /\ quirks' = quirks \cup Copies(inherited) \cup Stale(p)
      /\ stop' = [stop EXCEPT
                    ![p] = [Running EXCEPT !.event = "fork", !.child = child],
                    ![child] = [Absent EXCEPT !.event = "born"]]
      /\ group' = [group EXCEPT ![child] = child]
      /\ UNCHANGED <<files, grown, use, struck>>

\* clone with CLONE_THREAD and CLONE_FILES.
Clone(p, thread) ==
  /\ stop[thread] = Absent
  /\ stop' = [stop EXCEPT
                ![p] = [Running EXCEPT !.event = "clone", !.child = thread],
                ![thread] = [Absent EXCEPT !.event = "born"]]
  /\ group' = [group EXCEPT ![thread] = group[p]]
  /\ UNCHANGED <<files, grown, use, struck, kfds, ofds, quirks>>

Exec(p) ==
  LET table == [fd \in Fd |-> IF kfds[p][fd].cloexec THEN Closed ELSE kfds[p][fd]]
      dups == {o \in Ofd : ofds[o].write /\ \E a, b \in Fd :
                              a # b /\ table[a].ofd = o /\ table[b].ofd = o}
  IN  /\ Members(p) = {p}
      /\ SetDescriptors([kfds EXCEPT ![p] = table], Split(ofds, dups))
      /\ quirks' = quirks \cup Copies(dups) \cup Stale(p)
      /\ UNCHANGED <<files, use, group, struck>>
      /\ stop' = [stop EXCEPT ![p] = [Running EXCEPT !.event = "exec"]]

AllClosed == [fd \in Fd |-> Closed]

\* exit_group: the other threads die where they are; the stop of a call that
\* has not been handled yet is never seen.
Exit(p) ==
  /\ \A q \in Members(p) : stop[q].event \notin {"clone", "born"}
  /\ SetDescriptors([kfds EXCEPT ![group[p]] = AllClosed], ofds)
  /\ quirks' = quirks \cup Kind("lost", \E q \in Members(p) : stop[q].event = "syscall")
  /\ stop' = [q \in Pid |-> IF q \in Members(p) THEN [Running EXCEPT !.event = "exit"] ELSE stop[q]]
  /\ struck' = struck \ {group[p]}
  /\ UNCHANGED <<files, use, group>>

\* A thread exits alone; it may be the one the process began with.
ThreadExit(p) ==
  /\ \E q \in Members(p) \ {p} : stop[q].event # "exit"
  /\ stop' = [stop EXCEPT ![p] = [Running EXCEPT !.event = "exit"]]
  /\ UNCHANGED <<files, use, group, struck, kfds, ofds, grown, quirks>>

\* The call that has opened the file is still to be handled.
Opening(name) ==
  \E p \in Pid : stop[p].event = "syscall" /\ Follows(stop[p].regs) /\ stop[p].regs.name = name

\* A fork or execve that copies a file state of it is still to be handled.
Copying(name) ==
  \E p \in Pid : /\ stop[p].event \in {"fork", "exec"}
                  /\ \E fd \in Fd : Writable(p, fd) /\ At(p, fd).name = name

\* unlink, or rename: nobody follows it.  The name is not used again.
Unlink(name) ==
  /\ name \notin unlinked
  /\ unlinked' = unlinked \cup {name}
  /\ length' = [length EXCEPT ![name] = 0]
  /\ quirks' = quirks \cup Kind("gone", Opening(name)) \cup Kind("stale", Copying(name))
  /\ UNCHANGED <<size, use, group, struck, kfds, ofds, stop, grown>>

\* A pending signal is taken before a thread that was stopped goes on.  It ends
\* the process, unless the process catches or ignores it.
TakeSignal(p) ==
  /\ stop[p] = Running /\ group[p] \in struck
  /\ \/ Exit(p)
     \/ /\ struck' = struck \ {group[p]}
        /\ quirks' = quirks \cup {"caught"}
        /\ UNCHANGED <<files, use, group, kfds, ofds, stop, grown>>
  /\ UNCHANGED contextVars

\* Only where there is another thread to take the signal does one go on.
ProcessStep(p) ==
  /\ stop[p] = Running
  /\ group[p] \in struck => Members(p) # {p}
  /\ \/ \E nr \in use.calls \cap {"open", "creat"}, name \in Name, flags \in use.flags,
           trunc \in BOOLEAN, mode \in {{}, {"O_APPEND"}} : Open(p, nr, name, flags, trunc, mode)
     \/ \E nr \in use.calls, fd \in Fd :
          \/ nr = "write" /\ Write(p, fd)
          \/ nr = "pwrite64" /\ \E offset \in 0 .. MaxLength : Pwrite(p, fd, offset)
          \/ nr = "pwrite64" /\ PwriteHere(p, fd)
          \/ nr \in {"ftruncate", "fallocate"}
             /\ \E to \in 0 .. MaxLength, keep \in BOOLEAN : Resize(p, nr, fd, to, keep)
          \/ nr = "lseek" /\ \E pos \in 0 .. MaxLength : Seek(p, fd, pos)
          \/ nr = "close" /\ Close(p, fd)
          \/ nr \in {"dup", "F_DUPFD", "F_DUPFD_CLOEXEC"} /\ Dup(p, nr, fd)
          \/ nr \in {"dup2", "dup3"}
             /\ \E new \in Fd, flags \in {{}, {"O_CLOEXEC"}} : DupTo(p, nr, fd, new, flags)
          \/ nr = "F_SETFD" /\ \E on \in BOOLEAN : SetFdFlag(p, fd, on)
          \/ nr = "F_SETFL" /\ \E append \in BOOLEAN : SetStatusFlags(p, fd, append)
     \/ "unlink" \in use.calls /\ \E name \in Name : Unlink(name)
     \/ "fork" \in use.calls /\ \E child \in Pid : Fork(p, child)
     \/ "clone" \in use.calls /\ \E thread \in Pid : Clone(p, thread)
     \/ "execve" \in use.calls /\ Exec(p)
     \/ "exit" \in use.calls /\ (Exit(p) \/ ThreadExit(p))
  /\ UNCHANGED contextVars

------------------------------------------------------------------------------
(* The tracer's handlers *)

Resume(p) == stop' = [stop EXCEPT ![p] = Running]

\* The registers, and the name /proc/pid/fd gives to the descriptor by now.
AsRead(p, r) ==
  IF Follows(r)
  THEN [nr |-> r.nr, ret |-> r.ret, name |-> At(p, r.ret).name, flags |-> r.flags]
  ELSE r

\* Fault: creat is not looked at.
OpenedOnly(p, r) ==
  IF r.nr = "open" /\ Follows(r) /\ At(p, r.ret).name \in use.target \ unlinked
  THEN {group[p]} ELSE {}

\* The process the interruption signal is sent to.  The link of a file whose
\* name is gone does not match.
ProcessInterruptionTarget(p, r) ==
  IF Follows(r) /\ At(p, r.ret).name \in use.target \ unlinked THEN {group[p]} ELSE {}

\* Another thread may have closed the descriptor by now: ReadLink ends optrace,
\* and what it traces with it.
HandleSyscall(p) ==
  /\ stop[p].event = "syscall"
  /\ IF Follows(stop[p].regs) /\ ~IsOpen(p, stop[p].regs.ret)
     THEN stop' = [q \in Pid |-> Absent] /\ UNCHANGED <<contextVars, struck>>
     ELSE /\ SyscallExit(p, AsRead(p, stop[p].regs)) /\ Resume(p)
          /\ struck' = struck \cup ProcessInterruptionTarget(p, stop[p].regs)
  /\ UNCHANGED group

HandleFork(p) ==
  /\ stop[p].event = "fork"
  /\ RegisterProcess(p, stop[p].child)
  /\ stop' = [stop EXCEPT ![p] = Running, ![stop[p].child] = Running]
  /\ UNCHANGED <<group, struck>>

HandleClone(p) ==
  /\ stop[p].event = "clone"
  /\ RegisterThread(p, stop[p].child)
  /\ stop' = [stop EXCEPT ![p] = Running, ![stop[p].child] = Running]
  /\ UNCHANGED <<group, struck>>

HandleExec(p) == stop[p].event = "exec" /\ RegisterExec(p) /\ Resume(p) /\ UNCHANGED <<group, struck>>

\* The exit of a process is reported after those of its threads.
HandleExit(p) ==
  /\ stop[p].event = "exit"
  /\ group[p] = p => Members(p) = {p}
  /\ VanishProcess(p, OutputSize)
  /\ stop' = [stop EXCEPT ![p] = Absent]
  /\ group' = [group EXCEPT ![p] = None]
  /\ UNCHANGED struck

TracerStep(p) ==
  /\ HandleSyscall(p) \/ HandleFork(p) \/ HandleClone(p) \/ HandleExec(p) \/ HandleExit(p)
  /\ UNCHANGED <<files, use, kfds, ofds, grown, quirks>>

\* The program starts with nothing open, or with one file: whoever started
\* optrace may have opened it in any way and written to it.
Init ==
  /\ use \in Uses
  /\ size \in [Name -> use.lengths] /\ length = size /\ unlinked = {}
  /\ group = [p \in Pid |-> IF p = TraceePid THEN p ELSE None]
  /\ stop = [p \in Pid |-> IF p = TraceePid THEN Running ELSE Absent]
  /\ struck = {} /\ grown = 0
  /\ \E i \in use.inherited :
       IF i = None
       THEN /\ RegisterTracee(TraceePid, << >>)
            /\ kfds = [p \in Pid |-> AllClosed]
            /\ ofds = [o \in Ofd |-> Free]
            /\ quirks = {}
       ELSE LET o == Min(use.ofds)
            IN  /\ RegisterTracee(TraceePid, [fd \in {0} |-> i.file.name])
                /\ kfds = [p \in Pid |-> IF p = TraceePid
                                         THEN [AllClosed EXCEPT ![0] = [ofd |-> o, cloexec |-> i.cloexec]]
                                         ELSE AllClosed]
                /\ ofds = [d \in Ofd |-> IF d = o THEN [i.file EXCEPT !.init = length[i.file.name],
                                                                 !.followed = TRUE]
                                                  ELSE Free]
                /\ quirks = Kind("cloexec", i.cloexec) \cup
                            Kind("inherited", i.file.append \/ i.file.pos # 0)

\* All processes have exited.
AllGone == (\A p \in Pid : stop[p] = Absent) /\ UNCHANGED vars

Next == (\E p \in Pid : ProcessStep(p) \/ TakeSignal(p) \/ TracerStep(p)) \/ AllGone

Spec == Init /\ [][Next]_vars

------------------------------------------------------------------------------
(* Properties *)

TypeOK ==
  /\ ProcMap \in [Pid -> ProcState \cup {None}]
  /\ Fds \in [ProcState -> SUBSET Entry]
  /\ OutputSize \in Nat
  /\ length \in [Name -> 0 .. MaxLength] /\ size \in [Name -> 0 .. MaxLength]
  /\ group \in [Pid -> Pid \cup {None}] /\ struck \subseteq Pid
  /\ kfds \in [Pid -> [Fd -> [ofd : Ofd \cup {None}, cloexec : BOOLEAN]]]
  /\ ofds \in [Ofd -> Description]
  /\ grown \in Nat

\* Nothing the kernel has done to the descriptors of process p waits to be
\* handled.
Settled(p) ==
  /\ group[p] = p /\ \E q \in Members(p) : stop[q] = Running
  /\ \A q \in Members(p) : stop[q].event \in {"running", "exit"}

Without(kinds) == kinds \cap quirks = {}

\* The context follows exactly the descriptors the kernel has open for
\* writing, and those of a file that was inherited, whichever thread has opened
\* them and in whatever order the stops are collected, as long as no two threads
\* have calls on one descriptor under way, the descriptors of one file agree on
\* close-on-exec and it is not changed with fcntl.
FdsAgree ==
  Without({"cloexec", "race"}) =>
    \A p \in Pid : Settled(p) =>
      OpenSlots(Table(p)) = {fd \in Fd : IsOpen(p, fd) /\ At(p, fd).followed}

\* CurrPos is where the next plain write of the process will land, for a
\* description that one TFileState follows, if it has been at the beginning of
\* the file since the context knows it.
PositionsAgree ==
  Without({"append", "writers", "gone", "inherited", "far", "current", "race"}) =>
    \A p \in Pid : Settled(p) =>
      \A fd \in OpenSlots(Table(p)) :
        Writable(p, fd) /\ ~At(p, fd).split => FileOf(p, fd).CurrPos = Landing(At(p, fd))

\* What the report would count now: recorded, and still in the tables.
Accounted ==
  OutputSize + MapThenSumSet(LAMBDA s : OutputOf(Fds[s]),
                             {ProcMap[p] : p \in Registered})

\* By how much files have grown through the descriptions they were open with.
Written == grown + GrowthOf(ofds, {o \in Ofd : ofds[o].write})

AllSettled == \A p \in Pid : stop[p] \in {Running, Absent}

\* In ordinary use the total is exactly what files have grown by, across dup,
\* close in any order, threads, execve and exit: nothing is lost, nothing
\* counted twice.  What is written over adds nothing to either.
TotalIsWritten == quirks = {} /\ AllSettled => Accounted = Written

\* Processes that share an output file never make the total exceed what they
\* have written, when they write in sequence: fork and execve copy what has
\* been counted (MaxPos), and measure from the length of that moment.  Nor
\* does a thread that is killed before its call is handled.
NothingCountedTwice ==
  quirks \subseteq {"split", "lost"} => Accounted <= Written

\* The signal is fatal, the target keeps its name, nobody has inherited it from
\* whoever started optrace, and processes have one thread.
Spared ==
  Without({"caught"}) /\ unlinked = {} /\ use.inherited = {None} /\ "clone" \notin use.calls

\* main.cpp:46-47: a process that opens the interruption target for writing
\* gets the signal at once: by whatever call it opens the file, it does not
\* come to write to it.  (O_TRUNC has cut the file at the open itself.)
TargetIsSpared ==
  Spared => \A o \in Ofd : ofds[o].name \in use.target => ofds[o].peak = 0

\* README.md:2: optrace "accumulates total written data size".
TotalOfShared == quirks \subseteq {"split"} /\ AllSettled => Accounted = Written

\* context.cpp:36: execve drops the descriptors that are close-on-exec, and so
\* it should keep the others.
ExecKeepsOpen ==
  \A p \in Pid : Settled(p) => {fd \in Fd : Writable(p, fd)} \subseteq OpenSlots(Table(p))
==============================================================================
