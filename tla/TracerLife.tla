------------------------------ MODULE TracerLife ------------------------------
(***************************************************************************)
(* What relates the maps of the loop to the life of the traced tasks: the  *)
(* parts of an inductive invariant from which TracerProofs derives the     *)
(* properties of Tracer.                                                   *)
(***************************************************************************)
EXTENDS Tracer

LoopRuns == loop \in {"wait", "handle"}
AtHand(p) == loop = "handle" /\ cur.pid = p

\* There is such a task, dead perhaps.
Present(p) == task[p].st \notin {"unused", "gone"}

\* p is at the stop that announces a new task; has just executed a program.
Announces(p) == InPtraceStop(p) /\ task[p].why \in NewTaskEvent
AtExec(p) == InPtraceStop(p) /\ task[p].why = "exec"

\* No exit status is the id of a task.
StatusesApart == \A code \in Codes : StatusPid[code] \notin TaskPid

\* What the kernel knows of each task hangs together.
TasksAgree ==
  \A p \in Pid :
    /\ task[p].st # "unused" => p \in TaskPid
    /\ task[p].why # "none" <=> InPtraceStop(p)
    /\ task[p].why \in NewTaskEvent => task[p].why \in Creates
    /\ task[p].msg \in Pid <=> Announces(p) \/ AtExec(p)
    /\ task[p].grp \in Pid <=> Present(p)
    /\ task[p].st = "execing" => ThreadExec \/ task[p].grp = p

\* The event at hand is still that of the task, or the task has been killed
\* since.
EventIsCurrent ==
  loop = "handle" =>
    LET t == task[cur.pid]
    IN  IF cur.why = "exited" THEN t.st = "gone"
        ELSE \/ t.st = "reported" /\ t.why = cur.why
             \/ /\ t.st = "dead" \/ (t.st = "stopped" /\ t.why = "exitevent")
                /\ SuddenDeath \/ cur.why \notin NewTaskEvent \cup {"exec"}

\* Whoever is not followed is in its first stop, and its creator at the event
\* that announces it, unless one of them has been killed.
UntrackedAreNew ==
  \A p \in Pid \ Tracked : Present(p) =>
    \/ /\ InPtraceStop(p) /\ task[p].why = "sigstop"
       /\ SuddenDeath \/ \E q \in Pid : Announces(q) /\ task[q].msg = p
    \/ SuddenDeath /\ (task[p].why = "exitevent" \/ task[p].st = "dead")

\* A task is announced once, and is there and not followed until then.
AnnouncedAreNew ==
  \A p \in Pid : Announces(p) =>
    LET c == task[p].msg
    IN  /\ c \notin Tracked
        /\ Present(c) \/ (AtHand(c) /\ cur.why = "exited")
        /\ \A q \in Pid : Announces(q) /\ task[q].msg = c => q = p

\* The id a thread had before execve is not used again.
ExecutedAreGone ==
  \A p \in Pid : AtExec(p) =>
    LET old == task[p].msg
    IN  old = p \/ (ThreadExec /\ task[old].st = "gone")

\* What the loop follows is there, or has just been reaped, or has taken the id
\* of its leader in an execve the loop has not handled yet, or is an exit status.
TrackedAreThere ==
  \A p \in Tracked :
    /\ task[p].st = "unused" => SuddenDeath /\ p \notin TaskPid
    /\ task[p].st = "gone" =>
         \/ AtHand(p) /\ cur.why = "exited"
         \/ \E h \in Pid : AtExec(h) /\ task[h].msg = p

\* A group has a leader as long as it has members.
GroupsAreLed ==
  \A p \in Pid : Present(p) =>
    Present(task[p].grp) /\ task[task[p].grp].grp = task[p].grp

LifeInv ==
  /\ TasksAgree /\ GroupsAreLed /\ ExecutedAreGone
  /\ LoopRuns => EventIsCurrent /\ UntrackedAreNew /\ AnnouncedAreNew /\ TrackedAreThere

------------------------------------------------------------------------------
(* What holds besides where no event is lost: unless SuddenDeath *)

\* What is suspended is in its first stop.
SuspendedAreNew ==
  \A p \in suspendedThreads :
    p \notin Tracked /\ task[p].st = "reported" /\ task[p].why = "sigstop"

\* What the context knows and the loop does not follow is gone for ever.
OthersAreGone ==
  \A p \in Registered \ Tracked : ~PidReuse /\ task[p].st = "gone"

\* Whoever exits is followed, and has not executed a program as another thread.
ExitsAreFollowed ==
  loop = "handle" /\ cur.why = "exited" =>
    cur.pid \in Tracked /\ \A h \in Pid : AtExec(h) => task[h].msg # cur.pid

\* The id a thread had before execve is followed, and was that thread's only.
ExecutedAreFollowed ==
  \A p \in Pid : AtExec(p) =>
    /\ task[p].msg \in Tracked
    /\ \A q \in Pid : AtExec(q) /\ task[q].msg = task[p].msg => q = p

OrderInv ==
  LoopRuns /\ ~SuddenDeath =>
    SuspendedAreNew /\ OthersAreGone /\ ExitsAreFollowed /\ ExecutedAreFollowed

------------------------------------------------------------------------------
(* Thread groups *)

\* A program has been executed by the only thread of its group.
ExecIsAlone == \A p \in Pid : AtExec(p) => Members(p) = {p}

\* The group of a new task is the one its creator's event says, and the task
\* has not created another member yet.
NewAreMembers ==
  \A p \in Pid : Announces(p) =>
    LET c == task[p].msg
    IN  /\ task[c].grp = IF task[p].why = "thread" THEN task[p].grp ELSE c
        /\ Members(c) \subseteq {c}

\* The leaders the context knows are those of the kernel.
LeadersAgree ==
  /\ GroupLeaders \subseteq Tracked
  /\ \A p \in Tracked : Present(p) => (p \in GroupLeaders <=> task[p].grp = p)
  /\ \A p \in Pid : AtExec(p) /\ task[p].msg # p =>
       task[p].msg \notin GroupLeaders /\ ProcMap[task[p].msg] = ProcMap[p]

\* A leader that has been reaped was the last to use its table.
ExitedAreAlone ==
  loop = "handle" /\ cur.why = "exited" /\ cur.pid \in GroupLeaders =>
    \A p \in Tracked : ProcMap[p] = ProcMap[cur.pid] => p = cur.pid

TablesAreLed == \A p \in Tracked : \E l \in GroupLeaders : ProcMap[l] = ProcMap[p]

GroupInv ==
  /\ ExecIsAlone
  /\ LoopRuns /\ ~SuddenDeath =>
       /\ NewAreMembers
       /\ ~Clone3 => LeadersAgree /\ TablesFollowGroups /\ ExitedAreAlone /\ TablesAreLed

------------------------------------------------------------------------------
(* System calls *)

\* In every traced call there is a stop before the one at its exit only.
CallsStopOnce == UseSecComp /\ ~SecCompV1

\* Where in a call a task can be, by the stop it is in.
CallAgrees(t) ==
  /\ t.call \in IF ~UseSecComp THEN {"user", "io", "life"}
                ELSE IF SecCompV1 THEN {"user", "filter", "io"} ELSE {"user", "io"}
  /\ t.st = "running" => (t.trace <=> ~UseSecComp \/ t.call # "user")
  /\ t.why \in {"exit", "sigstop", "groupstop", "signal"} => t.call = "user"
  /\ t.why = "entry" => t.call \in {"io", "life"} /\ ~CallsStopOnce
  /\ t.why = "seccomp" => UseSecComp /\ t.call = IF SecCompV1 THEN "filter" ELSE "io"
  /\ t.st = "execing" \/ t.why \in NewTaskEvent \cup {"exec"} =>
       t.call = IF UseSecComp THEN "user" ELSE "life"

\* The loop has to read the next syscall stop of the task as an exit.
InsideCall(t) ==
  \/ t.why = "exit"
  \/ t.st = "running" /\ t.call \in {"io", "life"}
  \/ (t.st = "execing" \/ t.why \in NewTaskEvent \cup {"exec"}) /\ t.call = "life"

\* It has to read it as an entry: the seccomp stop sees to that by itself.
OutsideCall(t) ==
  \/ t.why = "entry"
  \/ /\ ~CallsStopOnce
     /\ \/ t.st = "running" /\ t.call \in {"user", "filter"}
        \/ (t.st = "execing" \/ t.why \in NewTaskEvent \cup {"exec"}) /\ t.call = "user"
        \/ t.why \in {"sigstop", "groupstop", "signal", "seccomp"}

CallsAgree == \A p \in Pid : CallAgrees(task[p])

\* The state the loop keeps of a task is the one its next syscall stop needs.
StatesAgree ==
  \A p \in Tracked :
    /\ InsideCall(task[p]) => syscallStateMap[p] = "in"
    /\ OutsideCall(task[p]) => syscallStateMap[p] # "in"

\* So it is for the stop at hand, even if the task has been killed since.
StopAgrees ==
  loop = "handle" /\ cur.pid \in Tracked =>
    /\ cur.why = "exit" => syscallStateMap[cur.pid] = "in"
    /\ cur.why = "entry" => syscallStateMap[cur.pid] # "in"

PhaseInv == CallsAgree /\ StatesAgree /\ StopAgrees /\ NeverInsane

\* What the maps of the loop (syscallStateMap, suspendedThreads, ProcMap and
\* GroupLeaders) have to do with the lives of the tasks, between any two steps:
\* with TInv of TracerProofs, this is inductive.
LoopInv == LifeInv /\ OrderInv /\ GroupInv /\ PhaseInv
==============================================================================
