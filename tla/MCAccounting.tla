----------------------------- MODULE MCAccounting -----------------------------
(* Constants of the runs of Accounting.                                     *)
EXTENDS AccountingCounts, TLC

CONSTANT MaxTotal   \* bound of the totals

Use(calls, flags, descriptions, explored) ==
  [calls |-> calls, flags |-> flags, lengths |-> {0}, ofds |-> descriptions,
   inherited |-> {None}, target |-> {}, explored |-> explored]

Plain == {{"O_WRONLY"}}

\* Every call but fork and clone, every kind of flags for writing, two
\* descriptions.
OneProcess ==
  [Use(Syscall \cup {"unlink", "execve", "exit"},
       {{"O_WRONLY"}, {"O_WRONLY", "O_APPEND"}, {"O_RDWR", "O_CLOEXEC"}}, Ofd, {})
   EXCEPT !.lengths = {1}]

\* The same for files that are also read: the calls that assign descriptors or
\* position them.
Reading ==
  [Use(NewFd \cup {"write", "close", "lseek", "F_SETFD", "unlink", "execve", "exit"},
       {{}, {"O_WRONLY"}}, Ofd, {})
   EXCEPT !.lengths = {1}]

\* What moves positions and lengths in the ways the context does not follow: where
\* data lands, ...
Misplacing ==
  Use({"open", "write", "pwrite64", "ftruncate", "fallocate", "lseek", "close"},
      {{"O_WRONLY"}, {"O_RDWR", "O_APPEND"}}, {11}, {"append", "far", "current"})

\* ... and how long the file is.
Resizing ==
  Use({"open", "write", "pwrite64", "ftruncate", "fallocate", "lseek", "close"},
      Plain, {11}, {"shrink", "keep", "far"})

\* Two processes that write in sequence to files they share: through several
\* descriptors, with execve, ...
Sharing == Use({"open", "write", "dup2", "fork", "execve"}, Plain, {11}, {"split"})

\* ... with exits, ...
Leaving == Use({"open", "write", "dup2", "fork", "exit"}, Plain, {11}, {"split"})

\* ... and through one, with both.
Spawning == Use({"open", "write", "fork", "execve", "exit"}, Plain, {11}, {"split"})

\* They move in the file before they share it, or after.
Rewinding == Use({"open", "write", "lseek", "fork"}, Plain, {11}, {"split"})

\* Two threads: calls on different descriptors, in any order.
Threads == Use({"open", "write", "close", "dup", "lseek", "clone", "exit"}, Plain, {11}, {"lost"})

\* The name of a file goes while the call that has opened it, or a fork or an
\* execve of a process that has it open, is still to be handled.
Renaming ==
  [Use({"open", "write", "unlink", "clone", "fork", "execve", "exit"},
       {{"O_WRONLY"}, {"O_WRONLY", "O_APPEND"}}, {11}, {"split"})
   EXCEPT !.lengths = {1}]

\* One thread closes what the other is opening.
Racing == Use({"open", "close", "clone"}, Plain, {11}, {"race"})

\* A file that has been opened by who started optrace.
Inherited ==
  {[file |-> [Free EXCEPT !.name = name, !.pos = pos, !.append = append, !.write = write],
    cloexec |-> cloexec] :
     name \in Name, pos \in {0, 1}, append, write, cloexec \in BOOLEAN}

Inheriting ==
  [Use({"write", "dup2", "close", "lseek", "execve", "exit"}, Plain, {11},
       {"inherited", "cloexec"})
   EXCEPT !.lengths = {1}, !.inherited = Inherited]

\* Two processes, each of which may open the interruption target.
Interrupting ==
  [Use({"open", "creat", "write", "ftruncate", "unlink", "fork", "exit"}, Plain, Ofd, {"writers"})
   EXCEPT !.target = Name]

AllUses == {OneProcess, Reading, Misplacing, Resizing, Sharing, Leaving, Spawning,
            Rewinding, Threads, Renaming, Racing, Inheriting, Interrupting}

\* What a shell and the commands it starts do to a redirected output.
ShellUse == {Use({"open", "write", "fork", "exit"}, Plain, {11}, {"split"})}

\* What a program does to give a file it has open to the program it becomes.
RedirectUse ==
  {Use({"open", "dup2", "execve"}, {{"O_WRONLY"}, {"O_RDWR", "O_CLOEXEC"}}, {11}, {"cloexec"})}

\* Addresses are only told apart; all properties are invariants.
Addresses == Permutations(ProcState)

\* States beyond these bounds are checked but not explored further.
Bounds == OutputSize <= MaxTotal /\ grown <= MaxTotal /\ quirks \subseteq use.explored
==============================================================================
