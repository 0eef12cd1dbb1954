# A TLA+ model of optrace

optrace runs a program under ptrace, follows the system calls by which it and
its children write to files, and reports the largest output files and the total
written.  This directory models the way from the command line to the traced
program, the seccomp filter, the tracing loop, the bookkeeping of processes and
descriptors, the file states, the search for core files and the report; checks
them with TLC; and proves the main invariants with TLAPS.

Paths below are relative to `src/src/` of the repository.

## 1. Inventory

| Component | State | Operations | Correct when |
|---|---|---|---|
| Tracing loop, `RunTracer` (optrace.cpp:101-302) | `syscallStateMap`, `suspendedThreads`, `traceeExitCode`, the event in hand | one handler per kind of event: exit, stop of an unknown task, clone/fork/vfork, exec, seccomp, syscall entry, syscall exit, other stop; end on ECHILD or on the tracee's exit | entries are told from exits; every stop is restarted; no assertion fails; it ends when it should, with the tracee's status |
| Process context, `TContext` (context.cpp) | `ProcMap`, `GroupLeaders`, a table of `shared_ptr<TFileState>` per process | `RegisterTracee/Process/Thread/Exec`, `VanishProcess`, `RegisterCoreDump`, the `Op*` of `SyscallExit`, `PostProcess` | a table per thread group, torn down once; the table has the descriptors the kernel has open for writing |
| File state, `TFileState` (types.cpp) | `MaxPos`, `CurrPos`, `Flags`, `InitSize`, `Filename` | `Enroll`, `EnrollNoShift`, `SetCurrPos`, flags, copy, `GetOutputSize` | the position is the kernel's; the output size is what has been added to the file |
| File storage, `TFileStorage` (storage.cpp) | a priority queue of at most `Capacity` files, the total | `AddFileEntry`, `GetLargestFiles`, `GetOutputSize` | the largest are listed, the total counts all |
| Startup and shutdown, `TraceProgram`, `SetupTracee`, `SetupTracer` (optrace.cpp:29-99, 304-348) | two processes: signal masks, handlers, the child's filter and tracer, ptrace options | fork, mask, filter, TRACEME, SIGTRAP, wait, SETOPTIONS, handlers, first restart, execvp | the program starts traced, with its signal mask; nothing selected by the filter runs before its events are asked for |
| Signals (optrace.cpp:56-71) | `TraceePid`, the handlers | forward a signal | a signal to be forwarded reaches the program and does not end optrace |
| ptrace wrappers (ptrace.cpp) | none | one per request; ESRCH is returned as -1, any other error ends optrace | a dead task is not an error |
| Call decoding (syscall.cpp, regs.h, syscall_*.h) | none | `GetCloneFlags`, `GetSyscallNumber` | registers are read as the call put them |
| Seccomp filter (bpf_program.cpp) | the BPF program | installed once | it selects every call `SyscallExit` understands |
| Core dumps (cores.cpp, context.cpp:141-158) | none | `RecoverCoreDumpFile` | the file found is the core of that process |
| Report (context.cpp:407-494, utils.cpp:153-185) | none | `PrintReport`, `HumanReadableSize` | the text says the number |
| Helpers (utils.cpp) | none | `GetFileLength`, `ReadLink`, `/proc` readers | - |
| Command line (main.cpp) | `TOptions` | `getopt_long` | each option sets its field and no other |
| Interruption target (context.cpp:496-500) | none | interrupt a process that opens a matching file | it does not come to write to it |

The loop is one thread.  It calls the context synchronously, the context calls
the file states and the storage; the only concurrency is that of the *traced
tasks*, which run, stop, die and are killed while the loop handles the event of
one of them, and, before the loop, of optrace and its child.  What is hard is
therefore:

* the order in which `wait3` reports stops (a child's first stop before or
  after its parent's fork event, the exits of threads around an execve);
* what happens to a task between `wait3` and the ptrace calls of its handler;
* telling a syscall-entry-stop from an exit stop, which look alike, from the
  order of stops alone, with a filter that adds stops on two kinds of kernel;
* ids: execve from a thread swaps them, the kernel reuses them;
* following positions and flags that the kernel shares between descriptors
  and processes and that optrace keeps in copies; and that it may learn of in
  another order than the kernel has carried them out;
* the start: two processes, two masks, handlers, a filter and its events, each
  of which must be in place before another;
* ending: neither early nor never.

`PROJECT.json` lists these as hazards, each at its line with the properties
that watch it.

## 2. Modules

| Module | What it is |
|---|---|
| `Ids` | task ids and `None` |
| `FileState` | `TFileState` as a record and pure operators |
| `Context` | `TContext`: variables and one operator per method |
| `Tasks` | the traced tasks as the kernel shows them (not repository code) |
| `Tracer` | `RunTracer` and `PostProcess`, composed with `Context` and `Tasks`; all life-cycle properties |
| `Accounting` | descriptors, descriptions and files of the kernel, composed with `Context`; the properties about what is counted |
| `CommandLine` | `main`'s options, from `TOptions` to `TOptions` |
| `SeccompFilter` | the BPF program, and the machine that runs it |
| `Startup` | `TraceProgram`: optrace, its child and the signals; composes `CommandLine` and `SeccompFilter` |
| `FileStorage` | `TFileStorage` |
| `SizeFormat` | `HumanReadableSize` |
| `CoreFiles` | `RecoverCoreDumpFile`, and the names the kernel gives to core files |
| `Report` | what is recorded and printed; composes `FileStorage`, `CoreFiles` and `SizeFormat` |
| `LargestFiles` | what the report promises, abstractly; `FileStorage` implements it |
| `MCStartup`, `MCTracer`, `MCAccounting`, `MCReport` | constants and bounds of the runs |
| `TracerLife` | what relates the loop's maps to the lives of the tasks: the parts of the inductive invariant of `Tracer` |
| `AccountingLife` | what relates the context's tables to threads and descriptors while calls wait to be handled: the first part of the inductive invariant of `Accounting` |
| `AccountingPositions` | what relates the file states to the positions of descriptions, likewise: its second part |
| `AccountingCounts` | how far each file state will have reached, against the length of its file, and what will have been counted: its third part |
| `ContextProofs`, `SumsProofs` | lemmas: what the methods of the context do; sums, and recursion over finite sets |
| `TracerProofs` | the theorems of `Tracer`: types and known ids, with what the steps of the tasks do; suspended tasks and assertions; tables and the phase of calls |
| `AccountingProofs` | the theorems of `Accounting`: types, threads, tables and descriptors; the interruption target; that what is counted is a number |
| `PositionProofs` | the theorems of `Accounting` about positions |
| `CountProofs` | the theorems of `Accounting` about what is counted |
| `StartupProofs`, `FileStorageProofs` | the theorems of `Startup` and of `FileStorage` |

Definitions marked *Fault* are faulty variants of the definition that follows
them (a dropped guard, a missing reset).  No specification uses them; put in
the place of the right definition, each makes TLC find a violation of the
property it is paired with in `PROJECT.json`, which shows that the property
can fail.

### CommandLine, SeccompFilter and Startup

`SetBy` is the switch of `main`, `Parsed` reads the options by it one after the
other.  `filter`
is the program of bpf_program.cpp:38-94 instruction by instruction; `Verdict`
runs it, with one register and relative jumps; `Followed` is the switch of
`SyscallExit`, read as a set of calls.  A call is its name and the one argument
word that either of them looks at.

`Startup` has the two processes with a program counter each (`at`,
`child.at`), one action per step of the code, and `Send`: signals to either or
both, at any time.  `LoopRestart` and `LoopReturns` are what `Tracer` does,
reduced to one task.  `Abandoned` is what becomes of the child when optrace
ends in any way; `ProgramCall` asks the filter and, if it selects the call,
whether somebody has asked for its events.  `main`'s argument vector is a
sequence of options; the program is present, missing, absent from the command
line, or the caller itself (`TraceMe`).

What the properties except, because the code does it:

* `-w` changes nothing (main.cpp:102 tests for `W`), so `WaitDaemons` is reached
  only through `TraceMe`: the run `startup_wait_daemons` shows it;
* `fcntl(F_DUPFD)` is never selected by the filter: its command is 0, and JSET
  with 0 never holds (bpf_program.cpp:64);
* a signal that stops the child before its own SIGTRAP is taken for it
  (optrace.cpp:82): the first restart drops it, and the SIGTRAP then comes in
  the loop, is injected, and kills the child;
* under `-J`, tasks that outlive optrace keep the filter, and the calls it
  selects fail with ENOSYS;
* a signal number that cannot be caught fails the assertion (optrace.cpp:69);
  with `-S` the list of `-s` is not used at all (the model has that, but the
  signals that are sent are all on the list of `-S`, so no property sees it), and
  a signal that is blocked in the mask optrace was started with stays pending.

`JailHolds` speaks of the one process `Startup` has: a process `-F` keeps out
of the trace is outside of it.  `CallsAnswered` is claimed while optrace is
there.  The limits of `-c` and `-r` are compared by value, in so far as a
negative one means unlimited.

### FileState and Context

A table of `shared_ptr<TFileState>` is a set of entries, each with the file
state and the set of slots (descriptors) that point to it: `use_count()` is the
number of slots.  This is exact because no pointer to a `TFileState` is kept
anywhere else between events, and no table shares one with another table
(`RegisterProcess` and `RegisterExec` copy).  Two entries that would be equal in
every field are still told apart by their disjoint slots.  A `TProcState` is an
address: threads of a process have the same one in `ProcMap`, and
`Unallocated` addresses may be allocated again.  Command lines and parents
(`TProcInfo`) are left out.  Sizes are modulo `SizeModulus` (`size_t`), the
casts to `int` of the return values are `IntNonNegative` with `IntModulus`.
`SyscallExit` maps the calls of context.cpp:320-403: `write` stands for
`writev` too, `pwrite64` for `pwritev` and `pwritev2`, `open` for `openat`, and
`fallocate`'s `arg` is `offset + len`.

`OutputSize` in `Context` is the total of the storage, which does not depend on
its queue; the queue is in `FileStorage`.  The total of a storage with capacity
0 (`-r 0`) stays 0 and is never printed.

### Tasks and Tracer

`Tasks` gives each id a record: running, stopped (the stop can be collected),
reported (it has been collected), execing, dead, gone; why it is stopped; the
event message; the thread group; whether it was restarted with PTRACE_SYSCALL.
It is the part of ptrace(2) the loop relies on, including: group exit and
execve kill other threads, which may or may not get to their PTRACE_EVENT_EXIT
stop; the exit of a leader can be collected only after the threads'; a thread
that calls execve takes the leader's id; a SIGSTOP injected at a restart stops
the task again; the seccomp stop comes before the entry stop in kernels before
4.8 and after it since.

`Tracer` splits a turn of the loop into `Wait` (wait3 returns) and one handler,
with steps of the tasks in between.  A handler is one action: it is the only
thing that changes the maps, and a kill in the middle of it has the effect of
a kill before its last ptrace call (which then fails with ESRCH) or after it.
`HandleDeadTask` is the three places where GETEVENTMSG, PEEKUSER or GETREGS
fail; `AssertFails` collects the assertions on the handlers' way, each with
the condition under which it fails; `HandleInsaneEntry` is the return of -2, a
branch of `HandleSyscallEntry` which only `tracer_thread_exec` takes.
`PostProcess` takes one id per step, in any order (`unordered_map`).

A task killed between `wait3` and GETEVENTMSG may be at its exit stop by then,
and its message is its exit status.  The loop takes that for a pid
(optrace.cpp:204-239): it registers it, follows it, and fails the assertion of
`RegisterProcess` if another task has left the same status.  The model does the
same: `Pid` has numbers besides `TaskPid`, the ids tasks can have, and
`StatusPid` says which number a status is (`ReportedPid`).

Switches of the environment, so that a claim can say what it needs:
`SuddenDeath` (a kill may come between an event and its handler, or take a
fork or exec event away unread), `ThreadExec` (execve from any thread),
`PidReuse`, `Clone3`, `SecCompV1`.  `StatusesApart` says that no exit status is
the id of a task: a killed task leaves 9, which is that of a kernel thread unless
optrace runs in a pid namespace of its own.

### Accounting

A thread makes a call, the kernel carries it out on descriptions and files,
and the thread stays in its exit stop until the handler, which runs the same
`Context` operators as `Tracer`, is done.  Other threads and processes go on
meanwhile, so that calls are handled in another order than they were made in;
`/proc/pid/fd` is read when the call is handled (`AsRead`).  A process that
forks or calls execve has one thread: a child registered while an open of
another thread of its parent is still to be handled would miss that
descriptor for good, and `FdsAgree` would not hold for it.  `length` is what
`GetFileLength` finds under a name, `size` the length of the file itself:
they part when the name goes (`Unlink`).  The program may have inherited one
descriptor, opened in any way; the context follows it even where it is open for
reading only (`followed`).

A run explores several *uses* of the system, each a set of calls with the
flags, lengths and descriptions that matter to them; `use` is chosen in `Init`.

`Written` is by how much files have grown through the descriptions they were
open with, not the bytes written: what is written over adds nothing, to it as to
`GetOutputSize`.  The history variable `grown` keeps the part of descriptions
now closed; `quirks` records the kinds of use in which optrace's approximation
is known to differ from the kernel, so that each property can say under which
it is claimed:

| quirk | use | what the code does |
|---|---|---|
| `cloexec` | descriptors of one file differ in close-on-exec, or fcntl has touched it | keeps the flag in the shared file state; `FD_CLOEXEC` is not `O_CLOEXEC` |
| `append` | a seek, resize, pwrite or F_SETFL with O_APPEND | takes CurrPos for where data lands |
| `writers` | a file opened for writing twice at once | measures each from the length at its opening |
| `shrink` | a file cut shorter | never lowers MaxPos |
| `keep` | fallocate with FALLOC_FL_KEEP_SIZE | counts it as growth |
| `far` | a seek to where the low 32 bits are negative | ignores it |
| `current` | pwritev2 with offset -1 | takes the offset as it is |
| `split` | fork, or execve with duplicates | follows one description with several file states |
| `stale` | such a copy made of a file whose name is gone when the fork or execve is handled | measures it from 0 |
| `gone` | the name of a file goes before the call that has opened it is handled | measures it from 0, where with O_APPEND it also starts |
| `jump` | a seek, pwrite or resize in a file several file states follow, or a copy made while the position is beyond the end of the file | counts again what is written there |
| `race` | two threads have calls on one descriptor under way | handles them in any order; ReadLink may end optrace |
| `lost` | exit_group kills a thread whose call has not been handled | never sees the call |
| `inherited` | an inherited file was at another position, or had O_APPEND | knows neither |
| `caught` | a process catches or ignores the interruption signal | sends it once, and goes on |

The interruption target is a set of names.  `HandleSyscall` adds the process
that has opened one for writing to `struck`, and a struck process takes the
signal before it does anything else, unless another of its threads is faster.

Each exception was found to be necessary: without it TLC shows the difference.
creat's mode, which the context takes for flags (context.cpp:337), is not an
exception: the one bit that matters is that of O_APPEND, which is looked at only
when the file is opened, and its length is then 0.

### FileStorage and LargestFiles

The queue is the set of its files; its top is any of the smallest, since the
heap leaves ties open.  `LargestFiles` forgets nothing: after each file it
lists *some* choice of the `limit` largest of all so far.

### CoreFiles, SizeFormat and Report

`ResolveMask` and `fnmatch` work on sequences of words, with the digits of a pid
as words of their own, so that one pid can be part of another.
`RecoverCoreDumpFile` yields every file readdir might come to first;
`KernelName` and `KernelDir` are where core(5) puts the file.  A process dies
with a core once, and each of its threads reports it (`Report`'s
`SearchAndRegisterCoreDumpFile`).

`HumanReadableSize` is exact arithmetic on tenths of a unit, with printf's
rounding.  A KiB is a constant: TLC's integers end at 2^31, so the run takes
112 bytes for a KiB and reaches all five suffixes.  No argument of the
properties depends on 1024 beyond that it is over 100; four digits before the
suffix, which only 1000 to 1023 need, come to seven characters, and fit.

What the properties except, because the code does it:

* from 1 TiB on the suffix is `PiB`, as TiB is missing from the table
  (utils.cpp:158-163), and from 1 PiB on there is none;
* a size that rounds to 100.0 is printed in eight characters, and the byte that
  ends them is past the buffer of eight (utils.cpp:164, 182);
* a relative core_pattern without a slash yields an empty mask (`GetBaseName`),
  which matches nothing; `%t` and `%u` become `*`, and may match an older core;
  the name of the command is the one it had when it was registered;
* the file is recorded once for each thread (the TODO at context.cpp:150);
* the directory in which a core is found stays open (cores.cpp:96); the model
  has `MaxDirs` of them;
* the last pattern has no slash at its end (cores.cpp:47), so a core found there
  has a name that does not exist and length 0; `CoreIsOwn` is about patterns
  that are found by the first.

## 3. Runs

| Run | Question | Instance |
|---|---|---|
| `tracer_seccomp` | do the maps agree with the kernel under the filter? | 3 tasks, fork and threads, execve from any thread, kernel since 4.8 |
| `tracer_liveness` | is every stop restarted, does it end, with which status? | 2 tasks, ids reused, 2 statuses, daemons waited for, kernel before 4.8 |
| `tracer_adverse` | what holds without the filter, whenever tasks are killed? | 3 tasks and an exit status that is taken for a pid, every call stops twice, kills at any moment, clone3, execve by leaders |
| `accounting` | do the tables follow the kernel, is anything counted twice or lost? | 13 uses: one process and every call, on files it writes and on files it also reads; approximations of where data lands and of lengths; 2 processes that share, with execve, exits and both, and that move before or after; 2 threads; names that go; 2 threads that race; an inherited file; 2 processes that open the interruption target; 2 descriptors, up to 2 descriptions, files of length 0-2 |
| `startup` | do the options, signals, masks, ptrace options and the filter fit together? | 29 ways to start it, 2 signals of SIGINT, SIGTERM, SIGKILL at any time to either or both, every call, with 5 flags of open and 16 commands of fcntl, on both architectures |
| `report` | are the largest kept, are sizes said right, is a core the right one? | 8 files at the edges of the units, capacities -1 to 3, both values of StoreEmptyFiles; 2 crashing processes (3 threads), 11 core_patterns, with and without older files |

The passing runs state, besides one type invariant per module:

* `KnownProcesses`, `TablesFollowGroups`, `OneLeaderPerTable`: ProcMap and
  GroupLeaders mirror thread groups, whatever the order of events;
* `LoopInv`, `PhaseAgrees`, `NeverInsane`: entry and exit stops are read as such
  (`LoopInv` is the inductive invariant, of which the others are consequences;
  in `tracer_adverse` they hold with tasks killed at any moment and exit statuses
  among the ids that are followed);
* `SuspendedAwaitCreator`, `Resumed`: the early stop of a new task is kept and
  resumed;
* `NoAssertFails`, claimed with every event read and, where threads call execve,
  no id reused: otherwise the assertions of optrace.cpp:123 and context.cpp:85 do
  fail;
* `ExitsLikeTracee`, `EndsWhenDone`, `Finishes`: the end.  The run waits for
  daemons; that `EndsWhenDone` holds when they are not waited for is proved
  (`ReportsAtTheEnd`) but not run;
* `FdsAgree`, `PositionsAgree`, `TotalIsWritten`, `NothingCountedTwice`: the
  tables have the descriptors open for writing, at the kernel's positions; the
  total is what files have grown by, and never more; `IInv` is the inductive
  invariant of the four.  `TargetIsSpared`: nothing is written to the
  interruption target by processes with one thread, which do not catch the
  signal, as long as the target keeps its name and nobody has inherited it
  (O_TRUNC cuts the file at the open itself, before there is a signal);
* `OptionsTakeEffect`: no option undoes another; `StartsTraced`,
  `TrapIsConsumed`: the program starts in the loop, with its mask, and the
  SIGTRAP does not kill it; `SignalsKept`, `ForwardedNotFatal`: signals reach
  it from the first moment on; `JailHolds`, `CallsAnswered`: nothing outlives
  optrace in the jail, no call fails for want of a tracer; `FollowedAreSeen`:
  the filter selects what is followed; `NobodyWaits`;
* `KeepsLargest`, `TotalIsOfAll`, `ReportIsSorted`, `PromiseKept`,
  `ReportSaysSizes`, `CoreIsOwn`: the report.

Six runs show where the code does not do what it, or its documentation, says:

* `tracer_lost_child` violates `Resumed`: a child that stopped before its
  creator's fork event, and whose creator is killed before that event is read,
  is never resumed (optrace.cpp:196-201).  Its mere existence keeps `wait3`
  from returning ECHILD;
* `tracer_thread_exec` violates `NeverInsane`: without the filter, execve from
  a thread that is not the leader has its exit stop read as an entry
  (optrace.cpp:240-245, 269-276), and the trace ends with -2;
* `tracer_clone3` violates `TablesFollowGroups`: the flags of clone3 are behind
  a pointer (syscall.cpp:8-11);
* `accounting_total` violates `TotalOfShared`: processes that share a
  description move its position together, the copies of the file state do not
  (types.cpp:21-27), so `(a; b) > log` is undercounted;
* `accounting_cloexec` violates `ExecKeepsOpen`: close-on-exec is kept in the
  shared file state (context.cpp:274-285), so a dup2 of a close-on-exec
  descriptor is dropped at execve although it stays open;
* `startup_wait_daemons` violates `WaitsIfAsked`: the help has
  `-w|--wait-daemons` (main.cpp:57), the switch a case for `W` (main.cpp:102).

**Bounds.** Three tasks are a creator, a child and a bystander or a grandchild;
each hazard above needs two or three.  Ids that come round are in
`tracer_liveness`, where two are enough for a task to follow another under one
id.  Execve by threads together with lost events or reused ids is in no run:
`IInv` holds there too (`InductiveInvariant`), the other properties are not
claimed.  Four addresses are one more than three
tasks can hold when execve allocates before it frees, so the guard on
`Unallocated` never binds; an exit status that has one of them is there
instead of a task that was never registered.  The tracer runs follow no file (`Fd` is empty):
their properties are about maps and stops, and the tables are exercised in
`Accounting`; the one call that returns is a write that failed.  In
`Accounting` one byte is written per call, files have at most 2 bytes, and
states with a total over `MaxTotal` or with a quirk the use is not meant to
explore are checked but not explored further.  Two descriptors and two
descriptions give every aliasing there is between two names; two threads or
two processes every order of two calls.  `IntModulus` is 4, so that a seek to 2
is already one the code takes for an error.  The three addresses of `accounting`
are only told apart, and its properties are all invariants, so they are a
symmetry set.  `Unlink` may come at any time
between calls, and its name is not used again.  In `startup` two signals are
what it takes for one to come before the SIGTRAP and another after.

**Deadlock** is checked except in `tracer_adverse` and `tracer_lost_child`,
where a lost child makes optrace wait for ever, which is the finding itself.
`Terminated`, `AllGone` and `AllOffered` are the stutter at a proper end.

**Fairness** (`FairSpec`) is of the tracer only: weak for the handlers,
`PostProcess` and the report, since the loop never waits for anything but
wait3; strong for `Wait(p)`: wait3 is not assumed to prefer or to rotate tasks,
only to return each one that keeps having something to report (the kernel scans
the list of tracees, and a stop once there stays there).  Nothing is assumed of
the tasks: they may run or stay for ever.  In `Startup` optrace and its child are
scheduled (weak fairness of each as a whole: neither waits for anything but the
other until the program runs); the program itself need do nothing.

## 4. Proofs

All theorems hold for every set of ids, addresses, descriptors, statuses,
files, command lines and signals, under the assumptions named where the
constants are declared: `IdsAssumption` (finitely many ids),
`SizeModulusAssumption`, `ContextAssumption`, `TasksAssumption`,
`TracerAssumption`, `RegistersAssumption` (a call that succeeded returned a
descriptor where it returns one, and so on), `FileStorageAssumption`,
`AccountingAssumption` (finitely many descriptors, which are numbers, 0 among
them, and descriptions; an inherited file is a typed description with a name, to
which the program has not written yet and which nothing else follows), and `StartupAssumption` (the signals sent are SIGINT, SIGTERM and SIGKILL; options
are what getopt yields; one of the two architectures; argument words are
natural numbers).

| Theorem | States | For |
|---|---|---|
| `TracerProofs!TypeCorrect` | `TypeOK` | every switch |
| `ProcessesAreKnown` | `KnownProcesses` | every switch |
| `ExitStatusIsTracees`, `ReportsAtTheEnd` | `ExitsLikeTracee`, `EndsWhenDone` | every switch |
| `InductiveInvariant` | `IInv` | every switch |
| `SuspendedAreResumed` | `SuspendedAwaitCreator` | `LifeAssumption`, `~SuddenDeath` |
| `AssertionsHold` | `NoAssertFails` | `LifeAssumption`, `~SuddenDeath` |
| `TablesAreOfGroups`, `TablesHaveOneLeader` | `TablesFollowGroups`, `OneLeaderPerTable` | `LifeAssumption`, `~SuddenDeath`, `~Clone3` |
| `PhasesAreRead`, `SanityHolds` | `PhaseAgrees`, `NeverInsane` | `LifeAssumption`, `PhaseAssumption` |
| `LoopInvariant` | `LoopInv` | `LifeAssumption`, `PhaseAssumption` |
| `AccountingProofs!InvariantHolds` | `AccountingInv`, the first part of `IInv` | every use |
| `DescriptorsAreFollowed` | `FdsAgree` | every use |
| `PositionProofs!PositionsAreFollowed` | `PositionsAgree` | every use |
| `CountProofs!TotalIsCounted` | `TotalIsWritten` | every use |
| `SharersCountOnce` | `NothingCountedTwice` | every use |
| `CountInvHolds`, `InductiveInvariant` | `CountInv`, the third part of `IInv`; `IInv` | every use |
| `AccountingProofs!TheTargetIsSpared` | `TargetIsSpared` | every use |
| `AccountingIsTyped` | `Accounting`'s `TypeOK` | every use |
| `StartupIsTyped` | `Startup`'s `TypeOK` | - |
| `ProgramStartsTraced`, `TheTrapIsConsumed` | `StartsTraced`, `TrapIsConsumed` | - |
| `ForwardedAreKept`, `ForwardedAreNotFatal` | `SignalsKept`, `ForwardedNotFatal` | - |
| `TheJailHolds`, `CallsAreAnswered` | `JailHolds`, `CallsAnswered` | - |
| `FollowedCallsAreSeen` | `FollowedAreSeen` | - |
| `OptionsAreParsed` | `OptionsTakeEffect` | - |
| `FileStorageProofs!TypeCorrect`, `ReportKeepsLargest` | `TypeOK`, `KeepsLargest` | - |
| `StorageKeepsPromise` | `PromiseKept`, the refinement of `LargestFiles` | - |
| `TotalCountsAll`, `ReportsAreSorted` | `TotalIsOfAll`, `ReportIsSorted` | - |

**What the loop needs.**  `LifeAssumption` says that, where a thread may call
execve, no event is lost and no id reused, and that, where events are lost, no
exit status is the id of a task (`StatusesApart`); `PhaseAssumption`, that in the
first case the
filter is on and the kernel's seccomp stop comes after the entry stop (4.8 and
later).  They cannot be dropped.  With three tasks, TLC violates each of the six
properties for threads that call execve while ids are reused: the loop is told of
the exec only after the id the thread had may belong to another task.  `NeverInsane` falls for a
thread's execve without a filter (`tracer_thread_exec`).  `PhaseAgrees` falls
under the filter too where, with `SuddenDeath`, a leader at its seccomp stop is
killed by its thread's execve before the handler reads it: the handler restarts
the task that has taken the id over.  `TablesFollowGroups` needs `~Clone3`
(`tracer_clone3`); `SuspendedAwaitCreator`, the tables and the assertions need
that no event is lost (`tracer_lost_child`).

**The inductive invariants of the loop.**

* `TInv` (`TracerProofs`).  Types alone are inductive only together with the
  types of the kernel part and one fact about it: a dead task has a status.
  `ContextProofs` shows that every method of the context keeps its part,
  `TracerProofs` that every step of the tasks and every restart keeps theirs.
  `KnownProcesses` is inductive with `NothingFollowed` (the maps are empty once
  the loop has returned, while `PostProcess` empties `ProcMap`); the status with
  `FirstStatusKept` (`traceeExitCode` is the first status collected for the
  tracee, except between wait3 and the handler of that exit).
* `LoopInv` (`TracerLife`) has four parts.  `LifeInv`: where the stops of each
  task, the event at hand and the loop's maps can be in its life; a new task
  waits for its creator's event, which announces it once.  `OrderInv`: what
  holds besides where no event is lost.  `GroupInv`: `ProcMap` and
  `GroupLeaders` against the kernel's groups, up to the events not yet read.
  Ids the loop follows that are exit statuses are apart from all that: no task
  ever has them (`TasksAgree`), so no stop is read with their state.
  `PhaseInv`: `syscallStateMap` has what the *next* syscall stop of each task
  has to be read as; so it has to say where in its call each task is.  The
  first two are needed because the others speak of tasks the loop follows: who
  those are depends on the order of a child's first stop and its creator's
  event.  TLC checked each part with 2 and 3 tasks for every combination of the
  switches within the assumptions, and `LoopInv` is an invariant of
  `tracer_seccomp`.
* The proofs reduce the steps of the tasks to four effects (`Moves`,
  `Bears`, `Kills`, `TakesId`), and each handler to what it does to the maps, and
  then take each part through each effect.

**The inductive invariant of the tables** (`AccountingLife`, `AccountingProofs`).
`FdsAgree` speaks of processes that have no call under way; in between, the
kernel is ahead of the table, by calls the tracer may come to in any order.
`AccountingInv` says what holds all along:

* a table `Fits` the descriptors but for the slots that calls still to be
  handled will assign or reset (`Busy`) and for the close-on-exec flags that
  F_SETFD will change; two calls under way are `Apart`, they share no descriptor
  unless both write.  That is what the quirk `race` excludes, and why the order
  of handling does not matter: each handler mends its own slots and touches
  no other's.  `Done` is what the kernel has already done for each call;
* fork and execve are between two moments as well: the child waits with the
  descriptors of its parent (`ForksAgree`), and the kernel has closed what is
  close-on-exec, which the context drops when it reads the event (`ExecsAgree`);
* this needs to know who shares a table: `LifeInv` has the threads, the order in
  which they are reported, and that those of one process, and only they, have
  one TProcState;
* and that tables are well formed: every file state of one is in a slot and every
  slot points to one (`SlottedInv`), an open descriptor is of a file (`HeldInv`).

The types and the threads are kept by every use, the agreement by those without
`cloexec` and `race`; since a quirk once there stays, the proof may
assume that there is none after the step.  It reduces the steps of the kernel to
`Called` and the handlers to `Handled` on one table, and shows for each method
of the context that it keeps `Fits` while a slot leaves `Busy`.

**The inductive invariant of the positions** (`AccountingPositions`,
`PositionProofs`).  `PositionsAgree` needs more of a table than that it has the
right descriptors: `PositionInv` says

* that what one file state stands for is one description: the descriptors that
  share an entry refer to one, and if one file state follows it they are all
  that do (`Grouped`); no other process has it (`OneOwner`);
* that `CurrPos` plus the writes still to be handled on the entry is where the
  next write lands, unless a seek is still to be handled, which will set it
  (`Follow`).  The sum does not depend on the order of handling; with a seek it
  would, so that calls under way `Commute`: no two of them seek, or write and
  seek, through one description;
* what the kernel has done for each call under way (`Positioned`): where a seek
  has gone, where a file just opened starts.  With O_APPEND that is the end of
  the file, which the context takes from the name: so the length kept under a
  name is that of the file (`LengthsAgree`), and nobody else writes to it
  meanwhile (`OneWriter`);
* and at the two moments at which a table is copied: what an execve leaves is
  not yet split, and a child waits with descriptions that all are.

It is claimed without the quirks of `PositionKinds`.  The proof takes each method
of the context through `Stands`, which is `Grouped` and `Follow` with the calls
still to come as a parameter; each step of the kernel through what it does to
descriptions (`Rests` for the processes it leaves alone, `Making` for the
one that calls); and fork, execve and exit by themselves.

**The inductive invariant of the counts** (`AccountingCounts`, `CountProofs`).
`TotalIsWritten` compares two sums: what has been recorded and what is still in
the tables, with what descriptions have grown by.  While calls are under way the
first lags behind, so the invariant is about what it will be, `Counted`:

* `Top` is how far an entry will have reached once the calls under way on it have
  been handled, in whatever order: the largest of where it starts, where it has
  been, the places that writes still to come go on to from `CurrPos`, and the
  ends that the other calls name.  `Counted` adds up `Top` less the initial length
  over all entries of all tables, and the total.  A handler leaves it as it is: what
  the entry gains the calls under way lose, and what `close` or an exit takes from
  a table goes to the total;
* a file is as long as it was, or has been written to, since it was opened
  (`DescriptionsMeasure`).  So a call of the kernel adds to the length of the file
  what it adds to `Written`;
* what one entry follows alone has its `Top` at the end of the file, so that
  `Counted` grows by the same (`MeasuresUp`).  Of several entries that follow one
  description (the quirk `split`) each is behind: its `Top` is at most the end of
  the file, `CurrPos` at most where the description stands, and the file ends
  no later than the further of `Top` and that place.  So what a write adds to the
  entry of the writer is at most what it adds to the file, and nobody else's changes;
* at fork and execve the copies start at the length of that moment, for which
  the file must still have its name when the event is read; and at an exit without
  calls under way nothing but what the entries have is due.

`CountInv` is claimed as long as the quirks are at most `split` and `lost`, with
equality where there is none.  The sums are those of `SumsProofs`: over the
tables, and over the entries of one.  `Called` is taken entry by entry (`CalledAt` for the
process that calls, `OthersAt` for those that share the description), and the handlers by what they
take from the calls under way (`TurningCounts`).  `TotalIsWritten` follows where no call
is under way, since then every entry is due what it has; `NothingCountedTwice`
follows everywhere, since an entry is due no less than it has.

`TheTargetIsSpared` is inductive with `SpareInv`: who holds the target for writing
has been sent the signal, or the open is still to be handled; a struck
process does nothing else.

**Startup.**  `StartInv` says where the child can be while optrace is where it
is (`Met`), with which masks (`Masked`), options (`OptionsSet`) and filter; the
two program counters make it inductive.  `KeptInv` follows a forwarded signal
from where it arrived to the program; it needs that a signal is asked for before
it can be in flight, and who holds it at each place.

**Data.**  The prover has no induction over data, but it has the
well-foundedness of the natural numbers: a claim about all command lines is
proved at the least number of options for which it fails (`OptionsAreParsed`),
one about sums and lists of files at a smallest set (`SumsProofs`,
`TotalCountsAll`, `ReportsAreSorted`, `AccountingIsTyped`: first that the recursive function exists,
then that the order in which it takes the files does not matter).
`FollowedCallsAreSeen` takes the BPF program apart into its blocks, shows that
every jump goes forward and stays inside (so that there is a run), and traces a
call of any number and any argument through them.

The queue of `FileStorage` alone does not tell that a replacement is right; that
the file replaced is a smallest one of the queue, and that no dropped file
exceeds any in it, does.

**Only model-checked**: `CoreIsOwn` and `ReportSaysSizes` (patterns and digits,
by recursive operators); and what the prover does not do: the liveness
properties `Resumed`, `Finishes` and `NobodyWaits`.

## 5. Not modelled

The failures that end optrace by
`exit(2)` inside the loop; the layout of the report: padding, the legend of
processes, the stream it goes to; command lines and parents of processes;
`MyHighestFd` and the buffer of `FillFds`, whose size is log10 of a number that
may be 0 (context.cpp:173); the table of call names; a core_pattern that ends in
a single %, from which on `ResolveMask` reads past the end of its string
(cores.cpp:54), so that nothing can be said of the result; 32-bit programs under
a 64-bit kernel, whose calls have other numbers; fork and execve by processes
with several threads as far as their descriptors are concerned (section 2,
Accounting); arguments of options that are no numbers.

## 6. Plan

Done: all modules above and the proofs of section 4.

Next: an abstract specification of the trace (tasks come, make calls and
go, each call accounted once) that `Tracer` implements where no event is lost.
