-------------------------------- MODULE Tasks --------------------------------
(***************************************************************************)
(* The traced threads and processes as the Linux kernel shows them to the  *)
(* tracer: which one is running, which one is in a ptrace-stop, what the   *)
(* stop reports, and when an exit can be collected.  This is not code of   *)
(* the repository.  It is modelled from ptrace(2) as far as optrace.cpp    *)
(* relies on it, with the options SetupTracer asks for (TRACESYSGOOD,      *)
(* TRACECLONE/FORK/VFORK, TRACEEXEC, TRACEEXIT, TRACESECCOMP).             *)
(***************************************************************************)
EXTENDS Ids

CONSTANTS
  TaskPid,        \* the ids the kernel gives to tasks that are traced
  Codes,          \* exit statuses
  StatusPid,      \* the number an exit status is, taken for a pid
  UseSecComp,     \* the tracee has installed the filter of bpf_program.cpp
  SecCompV1,      \* a kernel before 4.8: the filter runs before the entry stop
  FollowForks,    \* new threads and processes are traced
  Creates,        \* how tasks are created: of {"fork", "clone", "thread"}
  ThreadExec,     \* a thread that is not the group leader may call execve
  SuddenDeath,    \* a task may be killed while the tracer has an event of it
                  \* still to read, and its id taken over by execve
  PidReuse        \* the id of a task that has been reaped may be given again

ASSUME TasksAssumption ==
  /\ TaskPid \subseteq Pid
  /\ Codes # {} /\ None \notin Codes
  /\ StatusPid \in [Codes -> Pid]
  /\ Creates \subseteq {"fork", "clone", "thread"}
  /\ {UseSecComp, SecCompV1, FollowForks, ThreadExec, SuddenDeath, PidReuse}
       \subseteq BOOLEAN

VARIABLE task     \* pid -> what the kernel knows of the task

(***************************************************************************)
(* st     running, stopped (in a ptrace-stop that wait3 has not returned), *)
(*        reported (in a stop the tracer has collected), execing (waiting  *)
(*        in execve for the other threads to go), dead (its exit status    *)
(*        can be or will be collected), gone (reaped), unused              *)
(* why    what the stop reports; thread: PTRACE_EVENT_CLONE of a call with *)
(*        CLONE_THREAD, clone: the same event of one without               *)
(* msg    the id PTRACE_GETEVENTMSG answers at a fork, clone or exec stop  *)
(* grp    the id of the thread group                                       *)
(* call   user: in user mode; filter: in a traced call whose second stop   *)
(*        is due; io: in a traced call; life: in fork, execve, exit or a   *)
(*        call nobody looks at                                             *)
(* trace  the last restart was PTRACE_SYSCALL, not PTRACE_CONT             *)
(***************************************************************************)
Task ==
  [st : {"unused", "running", "stopped", "reported", "execing", "dead", "gone"},
   why : {"none", "sigstop", "groupstop", "signal", "entry", "exit", "seccomp",
          "fork", "clone", "thread", "exec", "exitevent"},
   msg : Pid \cup {None}, grp : Pid \cup {None},
   call : {"user", "filter", "io", "life"}, trace : BOOLEAN,
   code : Codes \cup {None}]

Unused == [st |-> "unused", why |-> "none", msg |-> None, grp |-> None,
           call |-> "user", trace |-> FALSE, code |-> None]

Gone == [Unused EXCEPT !.st = "gone"]

\* A task that has just been created: it begins with a SIGSTOP.
Newborn(g) == [Unused EXCEPT !.st = "stopped", !.why = "sigstop", !.grp = g]

\* The tracee restarted from its first SIGTRAP.
TasksInit(tracee) ==
  task = [p \in Pid |->
            IF p = tracee
            THEN [Unused EXCEPT !.st = "running", !.grp = p, !.trace = ~UseSecComp]
            ELSE Unused]

InPtraceStop(p) == task[p].st \in {"stopped", "reported"}
Living(p) == task[p].st \in {"running", "stopped", "reported", "execing"}
Members(g) == {p \in Pid : task[p].grp = g}

Stop(p, why) == [task EXCEPT ![p].st = "stopped", ![p].why = why]

------------------------------------------------------------------------------
(* System calls that stop: io is one the filter traces. *)

EnterIo(p) ==
  /\ task[p].st = "running" /\ task[p].call = "user"
  /\ UseSecComp \/ task[p].trace
  /\ LET first == IF UseSecComp /\ (SecCompV1 \/ ~task[p].trace) THEN "seccomp" ELSE "entry"
         two == UseSecComp /\ (SecCompV1 \/ task[p].trace)
     IN  task' = [Stop(p, first) EXCEPT ![p].call = IF two THEN "filter" ELSE "io"]

\* The second stop of the entry of a call that has both.
SecondStop(p) ==
  /\ task[p].st = "running" /\ task[p].call = "filter"
  /\ IF SecCompV1 /\ ~task[p].trace
     THEN task' = [task EXCEPT ![p].call = "io"]
     ELSE task' = [Stop(p, IF SecCompV1 THEN "entry" ELSE "seccomp")
                     EXCEPT ![p].call = "io"]

\* Any other call: it is seen only under PTRACE_SYSCALL.
EnterOther(p) ==
  /\ task[p].st = "running" /\ task[p].call = "user" /\ task[p].trace
  /\ task' = [Stop(p, "entry") EXCEPT ![p].call = "life"]

Return(p) ==
  /\ task[p].st = "running" /\ task[p].call \in {"io", "life"}
  /\ task' = [(IF task[p].trace THEN Stop(p, "exit") ELSE task) EXCEPT ![p].call = "user"]

\* p is inside a call of which no stop is left before the call acts.
InCall(p) ==
  task[p].st = "running" /\ task[p].call = IF task[p].trace THEN "life" ELSE "user"

\* signal-delivery-stop on the way to user mode.
Signal(p) ==
  /\ task[p].st = "running" /\ task[p].call = "user"
  /\ task' = Stop(p, "signal")

------------------------------------------------------------------------------
(* Threads and processes come. *)

Available(c) ==
  c \in TaskPid /\ (task[c].st = "unused" \/ (PidReuse /\ task[c].st = "gone"))

\* p creates c, a thread of its group or a process.
Create(p, c, how) ==
  /\ FollowForks
  /\ InCall(p) /\ Available(c)
  /\ task' = [Stop(p, how) EXCEPT
                ![p].msg = c,
                ![c] = Newborn(IF how = "thread" THEN task[p].grp ELSE c)]

------------------------------------------------------------------------------
(* Threads and processes go. *)

\* The tasks whose creator is still at the event that announces them.
Unannounced ==
  {task[p].msg : p \in {q \in Pid : InPtraceStop(q) /\ task[q].why \in Creates}}

\* A kill of these tasks takes no event away before the tracer has read it.
NothingUnread(killed) ==
  \A p \in killed : /\ ~(InPtraceStop(p) /\ task[p].why \in Creates \cup {"exec"})
                    /\ p \notin Unannounced

\* The tasks of killed have been sent SIGKILL: those of atExit get as far as
\* the stop at their exit, the others are dead at once.
Killed(t, killed, atExit, code) ==
  [p \in Pid |->
     IF p \notin killed THEN t[p]
     ELSE [t[p] EXCEPT !.st = IF p \in atExit THEN "stopped" ELSE "dead",
                       !.why = IF p \in atExit THEN "exitevent" ELSE "none",
                       !.msg = None, !.call = "user", !.trace = FALSE, !.code = code]]

\* exit_group, or a fatal signal, in any task of the group.  The code of the
\* group is also the one a leader that has already exited is reaped with.
GroupExit(g, code, atExit) ==
  LET killed == {p \in Members(g) : Living(p)}
  IN  /\ \E p \in killed : task[p].why # "exitevent"
      /\ atExit \subseteq {p \in killed : task[p].why # "exitevent"}
      /\ SuddenDeath \/ NothingUnread(killed)
      /\ task' = [p \in Pid |->
                    IF task[p].st = "dead" /\ task[p].grp = g
                    THEN [task[p] EXCEPT !.code = code]
                    ELSE Killed(task, killed, atExit, code)[p]]

\* exit of one thread: it stops at PTRACE_EVENT_EXIT.
ThreadExit(p, code) ==
  /\ InCall(p)
  /\ task' = [Stop(p, "exitevent") EXCEPT
                ![p].call = "user", ![p].trace = FALSE, ![p].code = code]

\* The status of a thread that execve of another one has killed.
KilledCode == CHOOSE code \in Codes : TRUE

\* execve: the other threads of the group are killed first.
BeginExec(p, atExit) ==
  LET killed == {q \in Members(task[p].grp) \ {p} : Living(q)}
  IN  /\ InCall(p)
      /\ ThreadExec \/ p = task[p].grp
      /\ atExit \subseteq {q \in killed : task[q].why # "exitevent"}
      /\ SuddenDeath \/ NothingUnread(killed)
      /\ task' = [Killed(task, killed, atExit, KilledCode) EXCEPT ![p].st = "execing"]

\* The other threads have been reaped, the leader is at least dead.  A thread
\* that is not the leader takes the leader's id; the leader's exit is never
\* reported.
EndExec(p) ==
  LET g == task[p].grp
  IN  /\ task[p].st = "execing"
      /\ \A q \in Members(g) \ {p} : q = g /\ task[q].st = "dead"
      /\ task' = [[task EXCEPT ![p] = Gone] EXCEPT
                    ![g] = [task[p] EXCEPT !.st = "stopped", !.why = "exec", !.msg = p]]

------------------------------------------------------------------------------
(* What the tracer's calls do. *)

\* wait3 returns the exit of p: that of a leader only once the others are gone.
Reapable(p) ==
  task[p].st = "dead" /\ (p = task[p].grp => Members(p) = {p})

\* wait3 fails with ECHILD.
NoChild == \A p \in Pid : task[p].st \in {"unused", "gone"}

\* PTRACE_SYSCALL (trace) or PTRACE_CONT on p: fails with ESRCH and does
\* nothing unless p is in a ptrace-stop.  A task restarted from its exit stop
\* dies; the SIGSTOP a new task begins with, if passed on, stops it again.
Restarted(t, p, trace, sigstop) ==
  IF t[p].st \notin {"stopped", "reported"} THEN t
  ELSE [t EXCEPT ![p] =
          CASE t[p].why = "exitevent" -> [@ EXCEPT !.st = "dead", !.why = "none"]
            [] t[p].why = "sigstop" /\ sigstop ->
                 [@ EXCEPT !.st = "stopped", !.why = "groupstop", !.trace = trace]
            [] OTHER -> [@ EXCEPT !.st = "running", !.why = "none", !.msg = None,
                                  !.trace = trace]]

TasksNext ==
  \E p \in Pid :
    \/ EnterIo(p) \/ SecondStop(p) \/ EnterOther(p) \/ Return(p) \/ Signal(p)
    \/ \E c \in Pid \ {p}, how \in Creates : Create(p, c, how)
    \/ \E code \in Codes, atExit \in SUBSET Members(p) : GroupExit(p, code, atExit)
    \/ \E code \in Codes : ThreadExit(p, code)
    \/ \E atExit \in SUBSET Members(task[p].grp) : BeginExec(p, atExit)
    \/ EndExec(p)
==============================================================================
