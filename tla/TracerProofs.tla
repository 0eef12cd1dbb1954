---------------------------- MODULE TracerProofs -----------------------------
(***************************************************************************)
(* The theorems of Tracer, for every number of tasks, every kernel and     *)
(* every option.  The inductive invariant IInv is proved in three parts:   *)
(* the types (with the exit status every dying task has), the processes    *)
(* the context knows, and the first status collected for the tracee.       *)
(*                                                                         *)
(* The life of the tasks, and the maps of the loop.  TasksNext is reduced  *)
(* to four effects it can have on the lives of tasks (Moves, Bears, Kills  *)
(* and TakesId), and each handler to what it does to the maps; then each   *)
(* part of LifeInv, and of OrderInv where no event is lost, is shown to    *)
(* survive each of them.  LifeInv does not depend on OrderInv.             *)
(*                                                                         *)
(* The tables of processes, and the state of their calls.  GroupInv says   *)
(* that ProcMap and GroupLeaders are the thread groups of the kernel, where*)
(* no event is lost; PhaseInv, that syscallStateMap has what the next      *)
(* syscall stop of each task has to be read as.  Both rest on LifeInv, and *)
(* GroupInv on OrderInv besides.                                           *)
(***************************************************************************)
EXTENDS TracerLife, ContextProofs, FiniteSetTheorems

------------------------------------------------------------------------------
(* The steps of the tasks, and their restart by the tracer, keep their types; *)
(* and every task on its way out has an exit status.                          *)

Coded(t) == \A p \in Pid : t[p].st = "dead" \/ t[p].why = "exitevent" => t[p].code # None

\* The two facts as one about a value of task.
Sound(t) == t \in [Pid -> Task] /\ Coded(t)

LEMMA CodesAreCodes == \A code \in Codes : code \in Codes \cup {None} /\ code # None
BY TasksAssumption

LEMMA FlagsAreBoolean ==
  UseSecComp \in BOOLEAN /\ SecCompV1 \in BOOLEAN /\ FollowForks \in BOOLEAN
BY TasksAssumption

LEMMA TraceeIsTask == TraceePid \in TaskPid /\ TraceePid \in Pid
BY TracerAssumption, TasksAssumption

\* A step that sets one task to a sound value is sound.
LEMMA SoundUpdate ==
  ASSUME NEW t, Sound(t), NEW p \in Pid, NEW new \in Task,
         new.st = "dead" \/ new.why = "exitevent" => new.code # None
  PROVE  Sound([t EXCEPT ![p] = new])
BY DEF Sound, Coded

LEMMA UnusedTyped == Unused \in Task /\ Gone \in Task
BY DEF Unused, Gone, Task

LEMMA NewbornTyped ==
  ASSUME NEW g \in Pid \cup {None}
  PROVE  Newborn(g) \in Task /\ Newborn(g).st = "stopped" /\ Newborn(g).why = "sigstop"
BY DEF Newborn, Unused, Task

\* PTRACE_SYSCALL and PTRACE_CONT.
LEMMA RestartedSound ==
  ASSUME NEW t, Sound(t), NEW p \in Pid, NEW trace \in BOOLEAN, NEW sigstop
  PROVE  Sound(Restarted(t, p, trace, sigstop))
<1>1. t[p] \in Task
  BY DEF Sound
<1>2. CASE t[p].st \notin {"stopped", "reported"}
  BY <1>2 DEF Restarted
<1>3. CASE t[p].st \in {"stopped", "reported"} /\ t[p].why = "exitevent"
  <2> DEFINE new == [t[p] EXCEPT !.st = "dead", !.why = "none"]
  <2>1. new \in Task /\ new.code # None
    BY <1>1, <1>3 DEF Task, Sound, Coded
  <2>2. Restarted(t, p, trace, sigstop) = [t EXCEPT ![p] = new]
    BY <1>3 DEF Restarted
  <2> HIDE DEF new
  <2>3. Sound([t EXCEPT ![p] = new])
    BY <2>1, SoundUpdate
  <2> QED  BY <2>2, <2>3
<1>4. CASE t[p].st \in {"stopped", "reported"} /\ t[p].why = "sigstop" /\ sigstop
  <2> DEFINE new == [t[p] EXCEPT !.st = "stopped", !.why = "groupstop", !.trace = trace]
  <2>1. new \in Task /\ new.st = "stopped" /\ new.why = "groupstop"
    BY <1>1 DEF Task
  <2>2. Restarted(t, p, trace, sigstop) = [t EXCEPT ![p] = new]
    BY <1>4 DEF Restarted
  <2> HIDE DEF new
  <2>3. Sound([t EXCEPT ![p] = new])
    BY <2>1, SoundUpdate
  <2> QED  BY <2>2, <2>3
<1>5. CASE /\ t[p].st \in {"stopped", "reported"} /\ t[p].why # "exitevent"
           /\ ~(t[p].why = "sigstop" /\ sigstop)
  <2> DEFINE new == [t[p] EXCEPT !.st = "running", !.why = "none", !.msg = None,
                                 !.trace = trace]
  <2>1. new \in Task /\ new.st = "running" /\ new.why = "none"
    BY <1>1 DEF Task
  <2>2. Restarted(t, p, trace, sigstop) = [t EXCEPT ![p] = new]
    BY <1>5 DEF Restarted
  <2> HIDE DEF new
  <2>3. Sound([t EXCEPT ![p] = new])
    BY <2>1, SoundUpdate
  <2> QED  BY <2>2, <2>3
<1> QED  BY <1>2, <1>3, <1>4, <1>5

\* SIGKILL to some of the tasks.
LEMMA KilledSound ==
  ASSUME Sound(task), NEW killed, NEW atExit, NEW code \in Codes
  PROVE  Sound(Killed(task, killed, atExit, code))
<1>1. ASSUME NEW p \in Pid
      PROVE  LET new == [task[p] EXCEPT
                           !.st = IF p \in atExit THEN "stopped" ELSE "dead",
                           !.why = IF p \in atExit THEN "exitevent" ELSE "none",
                           !.msg = None, !.call = "user", !.trace = FALSE, !.code = code]
             IN  new \in Task /\ new.code # None
  <2>1. PICK t \in Task : t = task[p]
    BY DEF Sound
  <2>2. PICK st \in {"stopped", "dead"} : st = IF p \in atExit THEN "stopped" ELSE "dead"
    OBVIOUS
  <2>3. PICK why \in {"exitevent", "none"} : why = IF p \in atExit THEN "exitevent" ELSE "none"
    OBVIOUS
  <2>4. code \in Codes \cup {None} /\ code # None
    BY CodesAreCodes
  <2>5. LET new == [t EXCEPT !.st = st, !.why = why, !.msg = None, !.call = "user",
                             !.trace = FALSE, !.code = code]
        IN  new \in Task /\ new.code # None
    BY <2>4 DEF Task
  <2> QED  BY <2>1, <2>2, <2>3, <2>5
<1> QED  BY <1>1 DEF Killed, Sound, Coded

------------------------------------------------------------------------------
(* System calls, signals, new tasks *)

LEMMA StopSound ==
  ASSUME Sound(task), NEW p \in Pid,
         NEW call \in {"user", "filter", "io", "life"},
         NEW why \in {"signal", "entry", "exit", "seccomp"}
  PROVE  /\ Sound(Stop(p, why))
         /\ Sound([Stop(p, why) EXCEPT ![p].call = call])
<1>1. task[p] \in Task
  BY DEF Sound
<1> DEFINE old == task[p]
           new == [old EXCEPT !.st = "stopped", !.why = why]
           called == [new EXCEPT !.call = call]
<1>2. /\ new \in Task /\ new.st = "stopped" /\ new.why = why
      /\ called \in Task /\ called.st = "stopped" /\ called.why = why
  <2>1. new \in Task /\ new.st = "stopped" /\ new.why = why
    BY <1>1 DEF Task
  <2> HIDE DEF new
  <2>2. called \in Task /\ called.st = new.st /\ called.why = new.why
    BY <2>1 DEF Task
  <2> QED  BY <2>1, <2>2
<1>3. Stop(p, why) = [task EXCEPT ![p] = new]
  BY DEF Stop, Sound
<1>4. [Stop(p, why) EXCEPT ![p].call = call] = [task EXCEPT ![p] = called]
  BY <1>3 DEF Sound
<1> HIDE DEF new, called
<1>5. Sound([task EXCEPT ![p] = new])
  BY <1>2, SoundUpdate
<1>6. Sound([task EXCEPT ![p] = called])
  BY <1>2, SoundUpdate
<1> QED  BY <1>3, <1>4, <1>5, <1>6

LEMMA SyscallStepSound ==
  ASSUME Sound(task), NEW p \in Pid,
         EnterIo(p) \/ SecondStop(p) \/ EnterOther(p) \/ Return(p) \/ Signal(p)
  PROVE  Sound(task)'
<1>1. CASE EnterIo(p)
  BY <1>1, StopSound DEF EnterIo
<1>2. CASE SecondStop(p)
  <2>1. CASE SecCompV1 /\ ~task[p].trace
    <3>1. task' = [task EXCEPT ![p] = [task[p] EXCEPT !.call = "io"]]
      BY <1>2, <2>1 DEF SecondStop
    <3>2. /\ [task[p] EXCEPT !.call = "io"] \in Task
          /\ [task[p] EXCEPT !.call = "io"].st = task[p].st
          /\ [task[p] EXCEPT !.call = "io"].why = task[p].why
          /\ [task[p] EXCEPT !.call = "io"].code = task[p].code
      BY DEF Sound, Task
    <3> QED  BY <3>1, <3>2 DEF Sound, Coded
  <2>2. CASE ~(SecCompV1 /\ ~task[p].trace)
    BY <1>2, <2>2, StopSound DEF SecondStop
  <2> QED  BY <2>1, <2>2
<1>3. CASE EnterOther(p)
  BY <1>3, StopSound DEF EnterOther
<1>4. CASE Return(p)
  <2>1. CASE task[p].trace
    BY <1>4, <2>1, StopSound DEF Return
  <2>2. CASE ~task[p].trace
    <3>1. task' = [task EXCEPT ![p] = [task[p] EXCEPT !.call = "user"]]
      BY <1>4, <2>2 DEF Return
    <3>2. /\ [task[p] EXCEPT !.call = "user"] \in Task
          /\ [task[p] EXCEPT !.call = "user"].st = task[p].st
          /\ [task[p] EXCEPT !.call = "user"].why = task[p].why
          /\ [task[p] EXCEPT !.call = "user"].code = task[p].code
      BY DEF Sound, Task
    <3> QED  BY <3>1, <3>2 DEF Sound, Coded
  <2> QED  BY <2>1, <2>2
<1>5. CASE Signal(p)
  BY <1>5, StopSound DEF Signal
<1> QED  BY <1>1, <1>2, <1>3, <1>4, <1>5

LEMMA CreateSound ==
  ASSUME Sound(task), NEW p \in Pid, NEW c \in Pid \ {p}, NEW how \in Creates,
         Create(p, c, how)
  PROVE  Sound(task)'
<1> DEFINE creator == [task[p] EXCEPT !.st = "stopped", !.why = how, !.msg = c]
           child == Newborn(IF how = "thread" THEN task[p].grp ELSE c)
<1>1. how \in {"fork", "clone", "thread"}
  BY TasksAssumption
<1>2. creator \in Task /\ creator.st = "stopped" /\ creator.why = how
  <2>1. task[p] \in Task
    BY DEF Sound
  <2> QED  BY <1>1, <2>1 DEF Task
<1>3. child \in Task /\ child.st = "stopped" /\ child.why = "sigstop"
  <2>1. (IF how = "thread" THEN task[p].grp ELSE c) \in Pid \cup {None}
    BY DEF Sound, Task
  <2> QED  BY <2>1, NewbornTyped
<1>4. task' = [[task EXCEPT ![p] = creator] EXCEPT ![c] = child]
  BY DEF Create, Stop, Sound
<1> QED  BY <1>1, <1>2, <1>3, <1>4, SoundUpdate

------------------------------------------------------------------------------
(* Exits and execve *)

LEMMA GroupExitSound ==
  ASSUME Sound(task), NEW g \in Pid, NEW code \in Codes, NEW atExit,
         GroupExit(g, code, atExit)
  PROVE  Sound(task)'
<1> DEFINE killed == {p \in Members(g) : Living(p)}
<1>1. Sound(Killed(task, killed, atExit, code))
  BY KilledSound
<1>2. \A p \in Pid : /\ [task[p] EXCEPT !.code = code] \in Task
                     /\ [task[p] EXCEPT !.code = code].code # None
  BY CodesAreCodes DEF Sound, Task
<1>3. task' = [p \in Pid |->
                 IF task[p].st = "dead" /\ task[p].grp = g
                 THEN [task[p] EXCEPT !.code = code]
                 ELSE Killed(task, killed, atExit, code)[p]]
  BY DEF GroupExit
<1> HIDE DEF killed
<1> QED  BY <1>1, <1>2, <1>3 DEF Sound, Coded

LEMMA ThreadExitSound ==
  ASSUME Sound(task), NEW p \in Pid, NEW code \in Codes, ThreadExit(p, code)
  PROVE  Sound(task)'
<1> DEFINE new == [task[p] EXCEPT !.st = "stopped", !.why = "exitevent", !.call = "user",
                                  !.trace = FALSE, !.code = code]
<1>1. new \in Task /\ new.code # None
  <2>1. task[p] \in Task /\ code \in Codes \cup {None} /\ code # None
    BY CodesAreCodes DEF Sound
  <2> QED  BY <2>1 DEF Task
<1>2. task' = [task EXCEPT ![p] = new]
  BY DEF ThreadExit, Stop, Sound
<1> HIDE DEF new
<1> QED  BY <1>1, <1>2, SoundUpdate

LEMMA BeginExecSound ==
  ASSUME Sound(task), NEW p \in Pid, NEW atExit, BeginExec(p, atExit)
  PROVE  Sound(task)'
<1> DEFINE killed == {q \in Members(task[p].grp) \ {p} : Living(q)}
           t == Killed(task, killed, atExit, KilledCode)
           new == [t[p] EXCEPT !.st = "execing"]
<1>1. KilledCode \in Codes
  BY TasksAssumption DEF KilledCode
<1>2. Sound(t)
  BY <1>1, KilledSound
<1>3. task' = [t EXCEPT ![p] = new]
  BY DEF BeginExec
<1> HIDE DEF t
<1>4. /\ new \in Task /\ new.st = "execing"
      /\ new.why = "exitevent" => new.code # None
  BY <1>2 DEF Sound, Coded, Task
<1> QED  BY <1>2, <1>3, <1>4, SoundUpdate

LEMMA EndExecSound ==
  ASSUME Sound(task), NEW p \in Pid, task[p].grp \in Pid, EndExec(p)
  PROVE  Sound(task)'
<1> DEFINE new == [task[p] EXCEPT !.st = "stopped", !.why = "exec", !.msg = p]
<1>1. new \in Task /\ new.st = "stopped" /\ new.why = "exec"
  <2>1. task[p] \in Task
    BY DEF Sound
  <2> QED  BY <2>1 DEF Task
<1>2. Sound([task EXCEPT ![p] = Gone])
  BY UnusedTyped, SoundUpdate DEF Gone, Unused
<1>3. task' = [[task EXCEPT ![p] = Gone] EXCEPT ![task[p].grp] = new]
  BY DEF EndExec
<1> QED  BY <1>1, <1>2, <1>3, SoundUpdate

\* Every step of the tasks.
LEMMA TasksNextSound == Sound(task) /\ TasksNext => Sound(task)'
<1> SUFFICES ASSUME Sound(task), TasksNext PROVE Sound(task)'
  OBVIOUS
<1> PICK p \in Pid :
      \/ EnterIo(p) \/ SecondStop(p) \/ EnterOther(p) \/ Return(p) \/ Signal(p)
      \/ \E c \in Pid \ {p}, how \in Creates : Create(p, c, how)
      \/ \E code \in Codes, atExit \in SUBSET Members(p) : GroupExit(p, code, atExit)
      \/ \E code \in Codes : ThreadExit(p, code)
      \/ \E atExit \in SUBSET Members(task[p].grp) : BeginExec(p, atExit)
      \/ EndExec(p)
  BY DEF TasksNext
<1>1. CASE EndExec(p)
  <2>1. CASE task[p].grp \in Pid
    BY <1>1, <2>1, EndExecSound
  <2>2. CASE task[p].grp \notin Pid
    <3>1. task' = [task EXCEPT ![p] = Gone]
      BY <1>1, <2>2 DEF EndExec, Sound
    <3> QED  BY <3>1, UnusedTyped, SoundUpdate DEF Gone, Unused
  <2> QED  BY <2>1, <2>2
<1> QED
  BY <1>1, SyscallStepSound, CreateSound, GroupExitSound, ThreadExitSound, BeginExecSound

------------------------------------------------------------------------------
(* The tracer *)

LoopTyped ==
  /\ loop \in {"wait", "handle", "post", "done", "aborted"}
  /\ cur.pid \in Pid \cup {None} /\ (loop = "handle" => cur.pid \in Pid)
  /\ cur.code \in Codes \cup {None}
  /\ syscallStateMap \in [Pid -> {"absent", "undefined", "in"}]
  /\ suspendedThreads \subseteq Pid
  /\ {traceeExitCode, reaped} \subseteq Codes \cup {None}
  /\ rc \in Codes \cup {None, "sanity", "sigkill"}

TInv == ContextTyped /\ Sound(task) /\ LoopTyped

LEMMA TInvIsTypes == TInv <=> TypeOK /\ length \in [Name -> Size] /\ DeadHaveCode
BY DEF TInv, ContextTyped, Sound, Coded, LoopTyped, TypeOK, DeadHaveCode

LEMMA TrackedIsPid == Tracked \subseteq Pid
BY DEF Tracked

------------------------------------------------------------------------------
(* Parts of the steps *)

LEMMA ContinueTyped ==
  ASSUME LoopTyped, Continue, UNCHANGED <<traceeExitCode, reaped>>,
         syscallStateMap' \in [Pid -> {"absent", "undefined", "in"}],
         suspendedThreads' \subseteq Pid
  PROVE  LoopTyped'
BY DEF LoopTyped, Continue, Nothing

LEMMA ReturnTyped ==
  ASSUME LoopTyped, NEW code \in Codes \cup {None, "sanity", "sigkill"},
         ReturnFromLoop(code), UNCHANGED <<traceeExitCode, reaped>>
  PROVE  LoopTyped'
BY DEF LoopTyped, ReturnFromLoop, Nothing

LEMMA SameContext ==
  ASSUME ContextTyped, UNCHANGED <<contextVars, length>>
  PROVE  ContextTyped'
BY DEF ContextTyped, contextVars

LEMMA RestartLastSound ==
  ASSUME NEW t, Sound(t), NEW p \in Pid, NEW state
  PROVE  Sound(RestartLast(t, p, state))
<1>1. (~UseSecComp \/ (cur.why \in {"entry", "exit", "seccomp"} /\ state # "undefined"))
        \in BOOLEAN
  OBVIOUS
<1> QED  BY <1>1, RestartedSound DEF RestartLast

------------------------------------------------------------------------------
(* Types *)

LEMMA InitTyped == Init => TInv
<1> SUFFICES ASSUME Init PROVE TInv
  OBVIOUS
<1>1. ContextTyped
  <2>1. PICK fds \in SUBSET Fd : \E inherited \in [fds -> Name] :
                                   RegisterTracee(TraceePid, inherited)
    BY DEF Init
  <2> QED  BY <2>1, RegisterTraceeTyped, TraceeIsTask DEF Init
<1>2. Sound(task)
  <2>1. TraceePid \in Pid
    BY TraceeIsTask
  <2>2. (~UseSecComp) \in BOOLEAN
    OBVIOUS
  <2>3. [Unused EXCEPT !.st = "running", !.grp = TraceePid, !.trace = ~UseSecComp] \in Task
    BY <2>1, <2>2 DEF Unused, Task
  <2>4. \A p \in Pid : task[p].st # "dead" /\ task[p].why # "exitevent"
    BY DEF Init, TasksInit, Unused
  <2> QED  BY <2>3, <2>4, UnusedTyped DEF Init, TasksInit, Sound, Coded
<1>3. LoopTyped
  BY DEF Init, LoopTyped, Nothing
<1> QED  BY <1>1, <1>2, <1>3 DEF TInv

LEMMA KernelTyped == ASSUME TInv, Kernel PROVE TInv'
<1>1. Sound(task)'
  BY TasksNextSound DEF Kernel, TInv
<1>2. ContextTyped'
  BY SameContext DEF Kernel, TInv
<1> QED  BY <1>1, <1>2 DEF Kernel, TInv, LoopTyped, tracerVars

LEMMA WaitTyped == ASSUME TInv, NEW p \in Pid, Wait(p) PROVE TInv'
<1>1. task[p] \in Task /\ task[p].code \in Codes \cup {None}
  BY DEF TInv, Sound, Task
<1>2. ContextTyped'
  BY SameContext DEF Wait, TInv
<1>3. CASE /\ task[p].st = "stopped"
           /\ task' = [task EXCEPT ![p].st = "reported"]
           /\ cur' = [pid |-> p, why |-> task[p].why, code |-> None]
           /\ UNCHANGED reaped
  <2> DEFINE new == [task[p] EXCEPT !.st = "reported"]
  <2>1. /\ new \in Task /\ new.st = "reported"
        /\ new.why = "exitevent" => new.code # None
    BY <1>1 DEF Task, TInv, Sound, Coded
  <2> HIDE DEF new
  <2>2. Sound([task EXCEPT ![p] = new])
    BY <2>1, SoundUpdate DEF TInv
  <2>3. Sound(task)'
    BY <1>3, <2>2 DEF new
  <2> QED  BY <1>2, <1>3, <2>3 DEF Wait, TInv, LoopTyped
<1>4. CASE /\ Reapable(p)
           /\ task' = [task EXCEPT ![p] = Gone]
           /\ cur' = [pid |-> p, why |-> "exited", code |-> task[p].code]
           /\ reaped' = IF p = TraceePid /\ reaped = None THEN task[p].code ELSE reaped
  <2>1. Sound(task)'
    BY <1>4, UnusedTyped, SoundUpdate DEF TInv, Gone, Unused
  <2> QED  BY <1>1, <1>2, <1>4, <2>1 DEF Wait, TInv, LoopTyped
<1> QED  BY <1>3, <1>4 DEF Wait

LEMMA HandleExitTyped == ASSUME TInv, NEW p \in Pid, HandleExit(p) PROVE TInv'
<1>1. ContextTyped'
  BY VanishTyped DEF HandleExit, TInv
<1>2. Sound(task)'
  BY RestartedSound DEF HandleExit, TInv
<1>3. CASE ReturnsAt(p)
  <2>1. cur.code \in Codes \cup {None, "sanity", "sigkill"}
    BY DEF TInv, LoopTyped
  <2>2. ReturnFromLoop(cur.code) /\ UNCHANGED <<traceeExitCode, reaped>>
    BY <1>3 DEF HandleExit
  <2> QED  BY <1>1, <1>2, <2>1, <2>2, ReturnTyped DEF TInv
<1>4. CASE ~ReturnsAt(p)
  <2>1. /\ Continue /\ UNCHANGED <<suspendedThreads, reaped>>
        /\ syscallStateMap' = [syscallStateMap EXCEPT ![p] = "absent"]
        /\ traceeExitCode' = FirstCode(p)
    BY <1>4 DEF HandleExit
  <2>2. LoopTyped'
    BY <2>1 DEF TInv, LoopTyped, Continue, Nothing, FirstCode
  <2> QED  BY <1>1, <1>2, <2>2 DEF TInv
<1> QED  BY <1>3, <1>4

LEMMA HandleNewTaskTyped == ASSUME TInv, NEW p \in Pid, HandleNewTask(p) PROVE TInv'
<1> DEFINE child == ReportedPid(p)
           resumed == IF child \in suspendedThreads
                      THEN Restarted(task, child, ~UseSecComp, FALSE) ELSE task
<1>1. child \in Pid /\ p \in Registered
  BY DEF HandleNewTask
<1>2. ContextTyped'
  <2>1. RegisterThread(p, child) \/ RegisterProcess(p, child)
    BY DEF HandleNewTask
  <2>2. UNCHANGED length
    BY DEF HandleNewTask
  <2> QED  BY <1>1, <2>1, <2>2, RegisterTyped DEF TInv
<1>3. Sound(task)'
  <2>1. (~UseSecComp) \in BOOLEAN
    OBVIOUS
  <2>2. Sound(Restarted(task, child, ~UseSecComp, FALSE))
    BY <1>1, <2>1, RestartedSound DEF TInv
  <2>3. Sound(resumed)
    BY <2>2 DEF TInv
  <2>4. task' = RestartLast(resumed, p, "undefined")
    BY DEF HandleNewTask
  <2> HIDE DEF resumed
  <2> QED  BY <2>3, <2>4, RestartLastSound
<1>4. LoopTyped'
  BY <1>1, ContinueTyped DEF HandleNewTask, TInv, LoopTyped
<1> QED  BY <1>2, <1>3, <1>4 DEF TInv

LEMMA HandleExecTyped == ASSUME TInv, NEW p \in Pid, HandleExec(p) PROVE TInv'
<1> DEFINE old == ReportedPid(p)
<1>1. old \in Pid /\ p \in Registered
  BY TrackedIsPid DEF HandleExec
<1>2. ContextTyped'
  BY <1>1, RegisterExecTyped DEF HandleExec, TInv
<1>3. Sound(task)'
  <2>1. Sound(Restarted(task, old, TRUE, FALSE))
    BY <1>1, RestartedSound DEF TInv
  <2>2. \/ task' = RestartLast(task, p, "undefined")
        \/ task' = RestartLast(Restarted(task, old, TRUE, FALSE), p, "undefined")
    BY DEF HandleExec
  <2> QED  BY <2>1, <2>2, RestartLastSound DEF TInv
<1>4. LoopTyped'
  BY ContinueTyped DEF HandleExec, TInv, LoopTyped
<1> QED  BY <1>2, <1>3, <1>4 DEF TInv

LEMMA HandleSyscallStopTyped ==
  ASSUME TInv, NEW p \in Pid, HandleEntry(p) \/ HandleInsaneEntry(p) \/ HandleSyscallExit(p)
  PROVE  TInv'
<1>1. CASE HandleEntry(p)
  <2>1. Sound(task)' /\ ContextTyped'
    BY <1>1, RestartLastSound, SameContext DEF HandleEntry, TInv
  <2>2. LoopTyped'
    BY <1>1, ContinueTyped DEF HandleEntry, TInv, LoopTyped
  <2> QED  BY <2>1, <2>2 DEF TInv
<1>2. CASE HandleInsaneEntry(p)
  <2>1. Sound(task)' /\ ContextTyped'
    BY <1>2, SameContext DEF HandleInsaneEntry, TInv
  <2>2. LoopTyped'
    BY <1>2, ReturnTyped DEF HandleInsaneEntry, TInv
  <2> QED  BY <2>1, <2>2 DEF TInv
<1>3. CASE HandleSyscallExit(p)
  <2>1. Sound(task)'
    BY <1>3, RestartLastSound DEF HandleSyscallExit, TInv
  <2>2. LoopTyped'
    BY <1>3, ContinueTyped DEF HandleSyscallExit, TInv, LoopTyped
  <2>3. ContextTyped'
    BY <1>3, SyscallExitTyped, RegistersAssumption DEF HandleSyscallExit, TInv
  <2> QED  BY <2>1, <2>2, <2>3 DEF TInv
<1> QED  BY <1>1, <1>2, <1>3

\* The handlers that call nothing of the context.
LEMMA HandleQuietTyped ==
  ASSUME TInv, NEW p \in Pid,
         \/ HandleNewThread(p) \/ HandleDeadTask(p)
         \/ HandleSeccompV1(p) \/ HandleOtherStop(p)
  PROVE  TInv'
<1>1. ContextTyped'
  BY SameContext
  DEF HandleNewThread, HandleDeadTask, HandleSeccompV1, HandleOtherStop, TInv
<1>2. Sound(task)'
  BY RestartedSound, RestartLastSound
  DEF HandleNewThread, HandleDeadTask, HandleSeccompV1, HandleOtherStop, TInv
<1>3. LoopTyped'
  BY ContinueTyped
  DEF HandleNewThread, HandleDeadTask, HandleSeccompV1, HandleOtherStop,
      TInv, LoopTyped
<1> QED  BY <1>1, <1>2, <1>3 DEF TInv

LEMMA EndTyped ==
  ASSUME TInv, NEW p \in Pid, AssertFails(p) \/ LastChildGone \/ Post(p) \/ Report
  PROVE  TInv'
<1>1. CASE AssertFails(p)
  BY <1>1, SameContext DEF AssertFails, TInv, LoopTyped
<1>2. CASE LastChildGone
  <2>1. (IF traceeExitCode = None THEN "sigkill" ELSE traceeExitCode)
          \in Codes \cup {None, "sanity", "sigkill"}
    BY DEF TInv, LoopTyped
  <2>2. LoopTyped'
    BY <1>2, <2>1, ReturnTyped DEF LastChildGone, TInv
  <2> QED  BY <1>2, <2>2, SameContext DEF LastChildGone, TInv
<1>3. CASE Post(p)
  <2>1. ContextTyped'
    BY <1>3, VanishTyped DEF Post, PostProcess, TInv
  <2> QED  BY <1>3, <2>1 DEF Post, TInv, LoopTyped, tracerVars
<1>4. CASE Report
  BY <1>4, SameContext DEF Report, TInv, LoopTyped
<1> QED  BY <1>1, <1>2, <1>3, <1>4

LEMMA StutterTyped == ASSUME TInv, UNCHANGED vars PROVE TInv'
BY SameContext DEF vars, tracerVars, TInv, LoopTyped

LEMMA NextTyped == TInv /\ [Next]_vars => TInv'
<1> SUFFICES ASSUME TInv, [Next]_vars PROVE TInv'
  OBVIOUS
<1>1. ASSUME NEW p \in Pid, Handle(p)
      PROVE  TInv'
  BY <1>1, HandleExitTyped, HandleNewTaskTyped, HandleExecTyped, HandleSyscallStopTyped,
     HandleQuietTyped, EndTyped DEF Handle, HandleSyscallEntry
<1>2. ASSUME Next
      PROVE  TInv'
  BY <1>1, <1>2, KernelTyped, WaitTyped, EndTyped, StutterTyped, TraceeIsTask
  DEF Next, Terminated
<1> QED  BY <1>2, StutterTyped

\* Every value stays in its type, whatever tasks do and in whatever order the
\* tracer hears of it.
THEOREM TypeCorrect == Spec => []TypeOK
<1>1. Spec => []TInv
  BY InitTyped, NextTyped, PTL DEF Spec
<1>2. TInv => TypeOK
  BY TInvIsTypes
<1> QED  BY <1>1, <1>2, PTL

\* Every dying task has the exit status wait3 will give.
LEMMA StatusKnown == Spec => []TInv
BY InitTyped, NextTyped, PTL DEF Spec

------------------------------------------------------------------------------
(* The processes the context knows *)

KInv == KnownProcesses /\ NothingFollowed

\* Most handlers touch no map at all.
LEMMA SameMaps ==
  ASSUME KInv, UNCHANGED <<ProcMap, GroupLeaders, syscallStateMap>>,
         loop' \in {"post", "done"} => loop \in {"post", "done"}
  PROVE  KInv'
BY DEF KInv, KnownProcesses, NothingFollowed, Tracked, Registered

\* A handler that leaves the loop running and follows p, whom the context
\* knows, on in another state.
LEMMA SameTracked ==
  ASSUME KInv, TInv, UNCHANGED <<ProcMap, GroupLeaders>>, Continue,
         NEW p \in Tracked, NEW state \in {"undefined", "in"},
         syscallStateMap' = [syscallStateMap EXCEPT ![p] = state]
  PROVE  KInv'
<1>1. Tracked' = Tracked
  BY DEF Tracked, TInv, LoopTyped
<1> QED  BY <1>1 DEF KInv, KnownProcesses, NothingFollowed, Registered, Continue

\* The loop's maps are destroyed when it returns.
LEMMA ReturnForgets ==
  ASSUME KInv, NEW code, ReturnFromLoop(code), GroupLeaders' \subseteq Registered'
  PROVE  KInv'
<1>1. Tracked' = {}
  BY DEF ReturnFromLoop, Tracked
<1> QED  BY <1>1 DEF KInv, KnownProcesses, NothingFollowed

\* The context forgets the thread that has exited, and so does the loop.
LEMMA HandleExitKnown == ASSUME TInv, KInv, NEW p \in Pid, HandleExit(p) PROVE KInv'
<1>1. Registered' = Registered \ {p} /\ GroupLeaders' = GroupLeaders \ {p}
  BY VanishTyped DEF HandleExit, TInv
<1>2. GroupLeaders' \subseteq Registered'
  BY <1>1 DEF KInv, KnownProcesses
<1>3. CASE ReturnsAt(p)
  BY <1>2, <1>3, ReturnForgets DEF HandleExit
<1>4. CASE ~ReturnsAt(p)
  <2>1. Continue /\ syscallStateMap' = [syscallStateMap EXCEPT ![p] = "absent"]
    BY <1>4 DEF HandleExit
  <2>2. Tracked' = Tracked \ {p}
    BY <2>1 DEF Tracked, TInv, LoopTyped
  <2> QED  BY <1>1, <1>2, <2>1, <2>2 DEF KInv, KnownProcesses, NothingFollowed, Continue
<1> QED  BY <1>3, <1>4

\* A new task is registered with the context before the loop follows it.
LEMMA HandleNewTaskKnown == ASSUME TInv, KInv, NEW p \in Pid, HandleNewTask(p) PROVE KInv'
<1> DEFINE child == ReportedPid(p)
<1>1. /\ child \in Pid /\ p \in Registered
      /\ RegisterThread(p, child) \/ RegisterProcess(p, child)
      /\ UNCHANGED length
      /\ syscallStateMap' = [syscallStateMap EXCEPT ![child] = "undefined"]
      /\ Continue
  BY DEF HandleNewTask
<1>2. /\ Registered' = Registered \cup {child}
      /\ GroupLeaders' \subseteq GroupLeaders \cup {child}
  BY <1>1, RegisterTyped DEF TInv
<1>3. Tracked' = Tracked \cup {child}
  BY <1>1 DEF Tracked, TInv, LoopTyped
<1> QED  BY <1>1, <1>2, <1>3 DEF KInv, KnownProcesses, NothingFollowed, Continue

\* An execve leaves its process registered; the loop forgets the old id.
LEMMA HandleExecKnown == ASSUME TInv, KInv, NEW p \in Pid, HandleExec(p) PROVE KInv'
<1>1. Registered' = Registered /\ GroupLeaders' = GroupLeaders \cup {p} /\ p \in Registered
  BY RegisterExecTyped DEF HandleExec, TInv
<1>2. Tracked' \subseteq Tracked /\ Continue
  BY DEF HandleExec, Tracked, TInv, LoopTyped
<1> QED  BY <1>1, <1>2 DEF KInv, KnownProcesses, NothingFollowed, Continue

LEMMA HandleSyscallStopKnown ==
  ASSUME TInv, KInv, NEW p \in Pid,
         \/ HandleEntry(p) \/ HandleInsaneEntry(p) \/ HandleSyscallExit(p)
         \/ HandleDeadTask(p)
  PROVE  KInv'
<1>1. CASE HandleEntry(p)
  BY <1>1, SameTracked
  DEF HandleEntry, HandlingSyscall, HandlingStop, contextVars
<1>2. CASE HandleInsaneEntry(p)
  BY <1>2, ReturnForgets
  DEF HandleInsaneEntry, contextVars, KInv, KnownProcesses, Registered
<1>3. CASE HandleSyscallExit(p)
  <2>1. UNCHANGED <<ProcMap, GroupLeaders>>
    BY <1>3, SyscallExitTyped, RegistersAssumption DEF HandleSyscallExit, TInv
  <2> QED  BY <1>3, <2>1, SameTracked DEF HandleSyscallExit, HandlingSyscall, HandlingStop
<1>4. CASE HandleDeadTask(p)
  BY <1>4, SameTracked, SameMaps DEF HandleDeadTask, HandlingStop, Continue, contextVars
<1> QED  BY <1>1, <1>2, <1>3, <1>4

LEMMA PostKnown == ASSUME TInv, KInv, NEW p \in Pid, Post(p) PROVE KInv'
<1>1. Registered' = Registered \ {p} /\ GroupLeaders' = GroupLeaders \ {p}
  BY VanishTyped DEF Post, PostProcess, TInv
<1>2. Tracked = {} /\ Tracked' = {} /\ loop' = "post"
  BY DEF Post, KInv, NothingFollowed, Tracked, tracerVars
<1> QED  BY <1>1, <1>2 DEF KInv, KnownProcesses, NothingFollowed

LEMMA QuietKnown ==
  ASSUME TInv, KInv, NEW p \in Pid,
         \/ Kernel \/ Wait(p) \/ HandleNewThread(p)
         \/ HandleSeccompV1(p) \/ HandleOtherStop(p) \/ AssertFails(p) \/ Report
         \/ UNCHANGED vars
  PROVE  KInv'
<1>1. /\ UNCHANGED <<ProcMap, GroupLeaders, syscallStateMap>>
      /\ loop' \in {"post", "done"} => loop \in {"post", "done"}
  BY DEF Kernel, Wait, HandleNewThread, HandleSeccompV1, HandleOtherStop,
         AssertFails, Report, vars, contextVars, tracerVars, Continue
<1> QED  BY <1>1, SameMaps

LEMMA NextKnown == TInv /\ KInv /\ [Next]_vars => KInv'
<1> SUFFICES ASSUME TInv, KInv, [Next]_vars PROVE KInv'
  OBVIOUS
<1>1. ASSUME NEW p \in Pid, Handle(p)
      PROVE  KInv'
  BY <1>1, HandleExitKnown, HandleNewTaskKnown, HandleExecKnown, HandleSyscallStopKnown,
     QuietKnown DEF Handle, HandleSyscallEntry
<1>2. CASE LastChildGone
  BY <1>2, ReturnForgets
  DEF LastChildGone, contextVars, KInv, KnownProcesses, Registered
<1> QED
  BY <1>1, <1>2, PostKnown, QuietKnown, TraceeIsTask DEF Next, Terminated

LEMMA KnownInvariant == Spec => []KInv
<1>1. Init => KInv
  <2> SUFFICES ASSUME Init PROVE KInv
    OBVIOUS
  <2>1. Registered = {TraceePid} /\ GroupLeaders = {TraceePid}
    BY TraceeIsTask, ContextAssumption DEF Init, RegisterTracee, Registered
  <2>2. Tracked = {TraceePid} /\ loop = "wait"
    BY TraceeIsTask DEF Init, Tracked
  <2> QED  BY <2>1, <2>2 DEF KInv, KnownProcesses, NothingFollowed
<1> QED  BY <1>1, NextKnown, StatusKnown, PTL DEF Spec

\* The context knows every thread the loop follows, so that none of the
\* assertions on the way of a tracked thread can fail (GetProcState,
\* VanishProcess), however tasks are created and die.
THEOREM ProcessesAreKnown == Spec => []KnownProcesses
<1>1. KInv => KnownProcesses
  BY DEF KInv
<1> QED  BY <1>1, KnownInvariant, PTL

------------------------------------------------------------------------------
(* The status optrace exits with *)

SInv == FirstStatusKept /\ ExitsLikeTracee /\ EndsWhenDone

\* A handler that goes back to wait3, of anything but the tracee's exit.
LEMMA ContinueKeepsStatus ==
  ASSUME SInv, loop = "handle", ~(cur.why = "exited" /\ cur.pid = TraceePid),
         Continue, UNCHANGED <<traceeExitCode, reaped>>
  PROVE  SInv'
BY DEF SInv, FirstStatusKept, ExitsLikeTracee, EndsWhenDone, Continue

LEMMA HandleExitStatus == ASSUME TInv, SInv, NEW p \in Pid, HandleExit(p) PROVE SInv'
<1>1. loop = "handle" /\ cur.pid = p /\ cur.why = "exited" /\ UNCHANGED reaped
  BY DEF HandleExit, Handling
<1>2. CASE p = TraceePid /\ ~Daemons
  <2>1. loop' = "post" /\ rc' = cur.code
    BY <1>2 DEF HandleExit, ReturnsAt, ReturnFromLoop
  <2>2. cur.code # None /\ reaped = cur.code
    BY <1>1, <1>2 DEF SInv, FirstStatusKept
  <2> QED
    BY <1>1, <1>2, <2>1, <2>2 DEF SInv, FirstStatusKept, ExitsLikeTracee, EndsWhenDone, Daemons
<1>3. CASE p = TraceePid /\ Daemons
  <2>1. loop' = "wait" /\ traceeExitCode' = IF traceeExitCode = None THEN cur.code
                                                                     ELSE traceeExitCode
    BY <1>3 DEF HandleExit, ReturnsAt, FirstCode, Continue
  <2>2. traceeExitCode' = reaped'
    BY <1>1, <1>3, <2>1 DEF SInv, FirstStatusKept
  <2> QED
    BY <1>3, <2>1, <2>2 DEF SInv, FirstStatusKept, ExitsLikeTracee, EndsWhenDone, Daemons
<1>4. CASE p # TraceePid
  <2>1. Continue /\ UNCHANGED traceeExitCode
    BY <1>4 DEF HandleExit, ReturnsAt, FirstCode
  <2> QED  BY <1>1, <1>4, <2>1, ContinueKeepsStatus
<1> QED  BY <1>2, <1>3, <1>4

LEMMA WaitStatus == ASSUME TInv, SInv, NEW p \in Pid, Wait(p) PROVE SInv'
<1>1. /\ loop = "wait" /\ loop' = "handle" /\ UNCHANGED <<traceeExitCode, rc>>
      /\ traceeExitCode = reaped /\ (~Daemons => reaped = None)
  BY DEF Wait, SInv, FirstStatusKept
<1>2. CASE task[p].st = "stopped" /\ UNCHANGED reaped
             /\ cur' = [pid |-> p, why |-> task[p].why, code |-> None]
  <2>1. cur'.why # "exited"
    BY <1>2 DEF TInv, Sound, Task
  <2> QED  BY <1>1, <1>2, <2>1 DEF SInv, FirstStatusKept, ExitsLikeTracee, EndsWhenDone
<1>3. CASE /\ Reapable(p)
           /\ cur' = [pid |-> p, why |-> "exited", code |-> task[p].code]
           /\ reaped' = IF p = TraceePid /\ reaped = None THEN task[p].code ELSE reaped
  <2>1. cur'.code # None
    BY <1>3 DEF Reapable, TInv, Sound, Coded
  <2> QED
    BY <1>1, <1>3, <2>1 DEF SInv, FirstStatusKept, ExitsLikeTracee, EndsWhenDone
<1> QED  BY <1>2, <1>3 DEF Wait

LEMMA LastChildStatus == ASSUME TInv, SInv, LastChildGone PROVE SInv'
<1>1. /\ loop = "wait" /\ loop' = "post" /\ NoChild /\ UNCHANGED <<task, reaped>>
      /\ rc' = IF traceeExitCode = None THEN "sigkill" ELSE traceeExitCode
  BY DEF LastChildGone, ReturnFromLoop
<1>2. traceeExitCode = reaped
  BY <1>1 DEF SInv, FirstStatusKept
<1>3. NoChild'
  BY <1>1 DEF NoChild
<1> QED  BY <1>1, <1>2, <1>3 DEF SInv, FirstStatusKept, ExitsLikeTracee, EndsWhenDone

\* Steps that say nothing new of the status.
LEMMA QuietStatus ==
  ASSUME SInv, NEW p \in Pid,
         \/ Kernel \/ HandleInsaneEntry(p) \/ AssertFails(p) \/ Post(p) \/ Report
         \/ UNCHANGED vars
  PROVE  SInv'
<1>1. CASE Kernel \/ UNCHANGED vars
  <2>1. /\ UNCHANGED <<loop, cur, traceeExitCode, rc, reaped>>
        /\ loop \in {"post", "done"} => UNCHANGED task
    BY <1>1 DEF Kernel, vars, tracerVars
  <2> QED  BY <2>1 DEF SInv, FirstStatusKept, ExitsLikeTracee, EndsWhenDone, NoChild
<1>2. CASE HandleInsaneEntry(p)
  BY <1>2 DEF HandleInsaneEntry, ReturnFromLoop, SInv, FirstStatusKept, ExitsLikeTracee,
              EndsWhenDone
<1>3. CASE AssertFails(p)
  BY <1>3 DEF AssertFails, SInv, FirstStatusKept, ExitsLikeTracee, EndsWhenDone
<1>4. CASE Post(p) \/ Report
  <2>1. /\ loop = "post" /\ loop' \in {"post", "done"} /\ UNCHANGED <<task, rc, reaped>>
    BY <1>4 DEF Post, Report, tracerVars
  <2> QED  BY <2>1 DEF SInv, FirstStatusKept, ExitsLikeTracee, EndsWhenDone, NoChild
<1> QED  BY <1>1, <1>2, <1>3, <1>4

LEMMA NextStatus == TInv /\ SInv /\ [Next]_vars => SInv'
<1> SUFFICES ASSUME TInv, SInv, [Next]_vars PROVE SInv'
  OBVIOUS
<1>1. ASSUME NEW p \in Pid, Handle(p), ~HandleExit(p), ~HandleInsaneEntry(p), ~AssertFails(p)
      PROVE  SInv'
  <2>1. /\ loop = "handle" /\ cur.why # "exited" /\ Continue
        /\ UNCHANGED <<traceeExitCode, reaped>>
    BY <1>1 DEF Handle, HandleSyscallEntry, HandleNewThread, HandleDeadTask, HandleNewTask,
                HandleExec, HandleSeccompV1, HandleEntry, HandleSyscallExit, HandleOtherStop,
                HandlingSyscall, HandlingStop, Handling
  <2> QED  BY <2>1, ContinueKeepsStatus
<1> QED
  BY <1>1, HandleExitStatus, WaitStatus, LastChildStatus, QuietStatus, TraceeIsTask
  DEF Next, Terminated

LEMMA StatusInvariant == Spec => []SInv
<1>1. Init => SInv
  BY DEF Init, Nothing, SInv, FirstStatusKept, ExitsLikeTracee, EndsWhenDone
<1> QED  BY <1>1, NextStatus, StatusKnown, PTL DEF Spec

\* optrace exits with the first status collected for the tracee, with or
\* without --wait-daemons and whatever other task is given its pid later.
THEOREM ExitStatusIsTracees == Spec => []ExitsLikeTracee
<1>1. SInv => ExitsLikeTracee
  BY DEF SInv
<1> QED  BY <1>1, StatusInvariant, PTL

\* The report is made early only if the tracee itself has gone and daemons
\* are not waited for.
THEOREM ReportsAtTheEnd == Spec => []EndsWhenDone
<1>1. SInv => EndsWhenDone
  BY DEF SInv
<1> QED  BY <1>1, StatusInvariant, PTL

\* The inductive invariant as a whole, as the runs check it.
THEOREM InductiveInvariant == Spec => []IInv
<1>1. TInv /\ KnownProcesses /\ NothingFollowed /\ FirstStatusKept => IInv
  BY TInvIsTypes DEF IInv
<1>2. SInv => FirstStatusKept
  BY DEF SInv
<1>3. KInv => KnownProcesses /\ NothingFollowed
  BY DEF KInv
<1> QED  BY <1>1, <1>2, <1>3, StatusKnown, KnownInvariant, StatusInvariant, PTL

------------------------------------------------------------------------------
(* What a step of the tasks does to each task *)

SameLife(q) ==
  /\ task'[q].st = task[q].st /\ task'[q].why = task[q].why
  /\ task'[q].msg = task[q].msg /\ task'[q].grp = task[q].grp

\* p makes a system call, gets a signal or begins to exit.
Moves(p) ==
  /\ task[p].st = "running"
  /\ task'[p].msg = task[p].msg /\ task'[p].grp = task[p].grp
  /\ \/ task'[p].st = "running" /\ task'[p].why = task[p].why
     \/ /\ task'[p].st = "stopped"
        /\ task'[p].why \in {"entry", "exit", "seccomp", "signal", "exitevent"}
  /\ \A q \in Pid \ {p} : SameLife(q)

\* p creates c.
Bears(p, c, how) ==
  /\ task[p].st = "running" /\ Available(c) /\ p # c
  /\ how \in Creates /\ how \in NewTaskEvent
  /\ task'[p].st = "stopped" /\ task'[p].why = how /\ task'[p].msg = c
  /\ task'[p].grp = task[p].grp
  /\ task'[c].st = "stopped" /\ task'[c].why = "sigstop" /\ task'[c].msg = None
  /\ task'[c].grp = IF how = "thread" THEN task[p].grp ELSE c
  /\ \A q \in Pid \ {p, c} : SameLife(q)

\* The tasks of killed are killed; one task may begin to wait for that.
Kills(killed) ==
  /\ SuddenDeath \/ NothingUnread(killed)
  /\ \A q \in killed :
       /\ Living(q)
       /\ task'[q].grp = task[q].grp /\ task'[q].msg = None
       /\ \/ task'[q].st = "dead" /\ task'[q].why = "none"
          \/ task'[q].st = "stopped" /\ task'[q].why = "exitevent"
  /\ \A q \in Pid \ killed :
       \/ SameLife(q)
       \/ /\ task[q].st = "running" /\ task'[q].st = "execing"
          /\ ThreadExec \/ task[q].grp = q
          /\ task'[q].why = task[q].why /\ task'[q].msg = task[q].msg
          /\ task'[q].grp = task[q].grp

\* p gets the id g of its leader.
TakesId(p, g) ==
  /\ task[p].st = "execing" /\ g = task[p].grp
  /\ \A q \in Pid \ {p} : task[q].grp = g => q = g /\ task[q].st = "dead"
  /\ task'[g].st = "stopped" /\ task'[g].why = "exec" /\ task'[g].msg = p
  /\ task'[g].grp = g
  /\ p # g => /\ task'[p].st = "gone" /\ task'[p].why = "none"
              /\ task'[p].msg = None /\ task'[p].grp = None
  /\ \A q \in Pid \ {p, g} : SameLife(q)

LEMMA OneMoves ==
  ASSUME task \in [Pid -> Task], NEW p \in Pid, task[p].st = "running", NEW new,
         task' = [task EXCEPT ![p] = new],
         new.msg = task[p].msg, new.grp = task[p].grp,
         \/ new.st = "running" /\ new.why = task[p].why
         \/ /\ new.st = "stopped"
            /\ new.why \in {"entry", "exit", "seccomp", "signal", "exitevent"}
  PROVE  Moves(p)
BY DEF Moves, SameLife

LEMMA StopMoves ==
  ASSUME task \in [Pid -> Task], NEW p \in Pid, task[p].st = "running",
         NEW why \in {"entry", "exit", "seccomp", "signal"}, NEW call,
         task' = Stop(p, why) \/ task' = [Stop(p, why) EXCEPT ![p].call = call]
  PROVE  Moves(p)
<1> DEFINE old == task[p]
           new == [old EXCEPT !.st = "stopped", !.why = why]
           called == [new EXCEPT !.call = call]
<1>1. task[p] \in Task
  OBVIOUS
<1>2. /\ new.st = "stopped" /\ new.why = why /\ new.msg = old.msg /\ new.grp = old.grp
      /\ called.st = "stopped" /\ called.why = why
      /\ called.msg = old.msg /\ called.grp = old.grp
  BY <1>1 DEF Task
<1>3. Stop(p, why) = [task EXCEPT ![p] = new]
  BY DEF Stop
<1>4. [Stop(p, why) EXCEPT ![p].call = call] = [task EXCEPT ![p] = called]
  BY <1>3
<1> HIDE DEF new, called
<1> QED  BY <1>2, <1>3, <1>4, OneMoves

LEMMA CallMoves ==
  ASSUME task \in [Pid -> Task], NEW p \in Pid, task[p].st = "running", NEW call,
         task' = [task EXCEPT ![p].call = call]
  PROVE  Moves(p)
<1> DEFINE new == [task[p] EXCEPT !.call = call]
<1>1. /\ new.st = "running" /\ new.why = task[p].why
      /\ new.msg = task[p].msg /\ new.grp = task[p].grp
  BY DEF Task
<1>2. task' = [task EXCEPT ![p] = new]
  OBVIOUS
<1> HIDE DEF new
<1> QED  BY <1>1, <1>2, OneMoves

LEMMA SyscallStepMoves ==
  ASSUME Sound(task), NEW p \in Pid,
         \/ EnterIo(p) \/ SecondStop(p) \/ EnterOther(p) \/ Return(p) \/ Signal(p)
         \/ \E code \in Codes : ThreadExit(p, code)
  PROVE  Moves(p)
<1>1. task \in [Pid -> Task]
  BY DEF Sound
<1>2. CASE EnterIo(p)
  BY <1>1, <1>2, StopMoves DEF EnterIo
<1>3. CASE SecondStop(p)
  BY <1>1, <1>3, StopMoves, CallMoves DEF SecondStop
<1>4. CASE EnterOther(p)
  BY <1>1, <1>4, StopMoves DEF EnterOther
<1>5. CASE Return(p)
  BY <1>1, <1>5, StopMoves, CallMoves DEF Return
<1>6. CASE Signal(p)
  BY <1>1, <1>6, StopMoves DEF Signal
<1>7. ASSUME NEW code \in Codes, ThreadExit(p, code)
      PROVE  Moves(p)
  <2> DEFINE new == [task[p] EXCEPT !.st = "stopped", !.why = "exitevent", !.call = "user",
                                    !.trace = FALSE, !.code = code]
  <2>1. /\ new.st = "stopped" /\ new.why = "exitevent"
        /\ new.msg = task[p].msg /\ new.grp = task[p].grp
    BY <1>1 DEF Task
  <2>2. task' = [task EXCEPT ![p] = new]
    BY <1>1, <1>7 DEF ThreadExit, Stop
  <2>3. task[p].st = "running"
    BY <1>7 DEF ThreadExit, InCall
  <2> HIDE DEF new
  <2> QED  BY <1>1, <2>1, <2>2, <2>3, OneMoves
<1> QED  BY <1>2, <1>3, <1>4, <1>5, <1>6, <1>7

LEMMA CreateBears ==
  ASSUME Sound(task), NEW p \in Pid, NEW c \in Pid \ {p}, NEW how \in Creates,
         Create(p, c, how)
  PROVE  Bears(p, c, how)
<1> DEFINE creator == [task[p] EXCEPT !.st = "stopped", !.why = how, !.msg = c]
           child == Newborn(IF how = "thread" THEN task[p].grp ELSE c)
<1>1. task \in [Pid -> Task] /\ how \in NewTaskEvent
  BY TasksAssumption DEF Sound, NewTaskEvent
<1>2. /\ child.st = "stopped" /\ child.why = "sigstop" /\ child.msg = None
      /\ child.grp = IF how = "thread" THEN task[p].grp ELSE c
  BY DEF Newborn, Unused
<1>3. /\ creator.st = "stopped" /\ creator.why = how /\ creator.msg = c
      /\ creator.grp = task[p].grp
  BY <1>1 DEF Task
<1>4. task' = [[task EXCEPT ![p] = creator] EXCEPT ![c] = child]
  BY <1>1 DEF Create, Stop
<1>5. task[p].st = "running" /\ Available(c)
  BY DEF Create, InCall
<1> HIDE DEF creator, child
<1> QED  BY <1>1, <1>2, <1>3, <1>4, <1>5 DEF Bears, SameLife

LEMMA KilledEffect ==
  ASSUME Sound(task), NEW killed, NEW atExit, NEW code, NEW q \in Pid
  PROVE  LET t == Killed(task, killed, atExit, code)
         IN  /\ q \notin killed => t[q] = task[q]
             /\ q \in killed =>
                  /\ t[q].grp = task[q].grp /\ t[q].msg = None
                  /\ \/ t[q].st = "dead" /\ t[q].why = "none"
                     \/ t[q].st = "stopped" /\ t[q].why = "exitevent"
<1>1. task[q] \in Task
  BY DEF Sound
<1> QED  BY <1>1 DEF Killed, Task

LEMMA GroupExitKills ==
  ASSUME Sound(task), NEW g \in Pid, NEW code \in Codes, NEW atExit, GroupExit(g, code, atExit)
  PROVE  \E killed \in SUBSET Pid : Kills(killed)
<1> DEFINE killed == {p \in Members(g) : Living(p)}
           t == Killed(task, killed, atExit, code)
<1>1. task' = [p \in Pid |-> IF task[p].st = "dead" /\ task[p].grp = g
                             THEN [task[p] EXCEPT !.code = code] ELSE t[p]]
  BY DEF GroupExit
<1>2. SuddenDeath \/ NothingUnread(killed)
  BY DEF GroupExit
<1>3. \A q \in killed : q \in Pid /\ Living(q) /\ task[q].st # "dead"
  BY DEF Members, Living
<1> HIDE DEF t, killed
<1>4. \A q \in killed : /\ Living(q)
                        /\ task'[q].grp = task[q].grp /\ task'[q].msg = None
                        /\ \/ task'[q].st = "dead" /\ task'[q].why = "none"
                           \/ task'[q].st = "stopped" /\ task'[q].why = "exitevent"
  BY <1>1, <1>3, KilledEffect DEF t
<1>5. \A q \in Pid \ killed : SameLife(q)
  <2> SUFFICES ASSUME NEW q \in Pid \ killed PROVE SameLife(q)
    OBVIOUS
  <2>1. t[q] = task[q] /\ task[q] \in Task
    BY KilledEffect DEF t, Sound
  <2> QED  BY <1>1, <2>1 DEF SameLife, Task
<1> QED  BY <1>2, <1>3, <1>4, <1>5 DEF Kills

LEMMA BeginExecKills ==
  ASSUME Sound(task), NEW p \in Pid, NEW atExit, BeginExec(p, atExit)
  PROVE  \E killed \in SUBSET Pid : Kills(killed)
<1> DEFINE killed == {q \in Members(task[p].grp) \ {p} : Living(q)}
           t == Killed(task, killed, atExit, KilledCode)
<1>1. task' = [t EXCEPT ![p].st = "execing"]
  BY DEF BeginExec
<1>2. SuddenDeath \/ NothingUnread(killed)
  BY DEF BeginExec
<1>3. /\ p \notin killed
      /\ \A q \in killed : q \in Pid /\ Living(q)
  BY DEF Members
<1>4. DOMAIN t = Pid
  BY DEF Killed
<1> HIDE DEF t, killed
<1>5. \A q \in killed : /\ Living(q)
                        /\ task'[q].grp = task[q].grp /\ task'[q].msg = None
                        /\ \/ task'[q].st = "dead" /\ task'[q].why = "none"
                           \/ task'[q].st = "stopped" /\ task'[q].why = "exitevent"
  BY <1>1, <1>3, <1>4, KilledEffect DEF t
<1>6. \A q \in Pid \ (killed \cup {p}) : SameLife(q)
  BY <1>1, <1>4, KilledEffect DEF t, SameLife
<1>7. /\ task[p].st = "running" /\ task'[p].st = "execing"
      /\ ThreadExec \/ task[p].grp = p
      /\ task'[p].why = task[p].why /\ task'[p].msg = task[p].msg
      /\ task'[p].grp = task[p].grp
  <2>1. t[p] = task[p] /\ task[p] \in Task
    BY <1>3, KilledEffect DEF t, Sound
  <2>2. task' = [t EXCEPT ![p] = [task[p] EXCEPT !.st = "execing"]]
    BY <1>1, <2>1
  <2>3. task'[p] = [task[p] EXCEPT !.st = "execing"]
    BY <1>4, <2>2
  <2>4. task[p].st = "running" /\ (ThreadExec \/ task[p].grp = p)
    BY DEF BeginExec, InCall
  <2> QED  BY <2>1, <2>3, <2>4 DEF Task
<1> QED  BY <1>2, <1>3, <1>5, <1>6, <1>7 DEF Kills

LEMMA EndExecTakes ==
  ASSUME Sound(task), NEW p \in Pid, task[p].grp \in Pid, EndExec(p)
  PROVE  TakesId(p, task[p].grp)
<1> DEFINE g == task[p].grp
           new == [task[p] EXCEPT !.st = "stopped", !.why = "exec", !.msg = p]
<1>1. task[p] \in Task
  BY DEF Sound
<1>2. new.st = "stopped" /\ new.why = "exec" /\ new.msg = p /\ new.grp = g
  BY <1>1 DEF Task
<1>3. task' = [[task EXCEPT ![p] = Gone] EXCEPT ![g] = new]
  BY DEF EndExec
<1>4. Gone.st = "gone" /\ Gone.why = "none" /\ Gone.msg = None /\ Gone.grp = None
  BY DEF Gone, Unused
<1>5. \A q \in Pid \ {p} : task[q].grp = g => q = g /\ task[q].st = "dead"
  BY DEF EndExec, Members
<1> HIDE DEF new
<1> QED  BY <1>2, <1>3, <1>4, <1>5 DEF Sound, TakesId, SameLife, EndExec

\* Every step of the tasks is one of the four.
LEMMA TasksNextEffect ==
  ASSUME Sound(task), TasksAgree, TasksNext
  PROVE  \/ \E p \in Pid : Moves(p)
         \/ \E p, c \in Pid, how \in Creates : Bears(p, c, how)
         \/ \E killed \in SUBSET Pid : Kills(killed)
         \/ \E p, g \in Pid : TakesId(p, g)
<1> PICK p \in Pid :
      \/ EnterIo(p) \/ SecondStop(p) \/ EnterOther(p) \/ Return(p) \/ Signal(p)
      \/ \E c \in Pid \ {p}, how \in Creates : Create(p, c, how)
      \/ \E code \in Codes, atExit \in SUBSET Members(p) : GroupExit(p, code, atExit)
      \/ \E code \in Codes : ThreadExit(p, code)
      \/ \E atExit \in SUBSET Members(task[p].grp) : BeginExec(p, atExit)
      \/ EndExec(p)
  BY DEF TasksNext
<1>1. CASE EndExec(p)
  <2>1. task[p].grp \in Pid
    BY <1>1 DEF EndExec, TasksAgree, Present
  <2> QED  BY <1>1, <2>1, EndExecTakes
<1> QED
  BY <1>1, SyscallStepMoves, CreateBears, GroupExitKills, BeginExecKills
------------------------------------------------------------------------------
(* The life of the tasks, while the loop runs *)

\* Where a thread other than the leader executes a program, no task is killed
\* before its event has been handled, and no id is used again.  TLC violates
\* every theorem below with ThreadExec and PidReuse: the loop is told of the
\* exec only after the id the thread had may belong to another task.
\* Where a task can be killed before its event is handled, the exit status that
\* the loop then takes for a pid is the id of no task.
LifeAssumption ==
  /\ ThreadExec => ~SuddenDeath /\ ~PidReuse
  /\ SuddenDeath => StatusesApart

\* A kernel step leaves the loop as it is, and the task at hand gone if it is.
Underneath ==
  /\ LoopRuns /\ UNCHANGED <<loop, cur, syscallStateMap>>
  /\ cur.pid \in Pid /\ Bygone(task, cur.pid) => Bygone(task', cur.pid)

Running == LoopRuns /\ EventIsCurrent /\ UntrackedAreNew /\ AnnouncedAreNew /\ TrackedAreThere

LEMMA RunsInv ==
  LifeInv /\ LoopRuns => /\ Running
                         /\ TasksAgree /\ GroupsAreLed /\ ExecutedAreGone
BY DEF LifeInv, Running

LEMMA SameLoop ==
  ASSUME Underneath
  PROVE  /\ Tracked' = Tracked /\ LoopRuns' /\ loop' = loop /\ cur' = cur
         /\ \A p : AtHand(p)' <=> AtHand(p)
BY DEF Underneath, Tracked, LoopRuns, AtHand

\* A running task is followed; so is one that waits in execve or has an event.
LEMMA FollowedTasks ==
  ASSUME TasksAgree, UntrackedAreNew, NEW p \in Pid, Present(p),
         \/ task[p].st \in {"running", "execing"}
         \/ Announces(p) \/ AtExec(p)
         \/ ~SuddenDeath /\ task[p].st = "dead"
  PROVE  p \in Tracked
<1> SUFFICES ASSUME p \notin Tracked PROVE FALSE
  OBVIOUS
<1>1. \/ InPtraceStop(p) /\ task[p].why = "sigstop"
      \/ SuddenDeath /\ (task[p].why = "exitevent" \/ task[p].st = "dead")
  BY DEF UntrackedAreNew
<1> QED  BY <1>1 DEF TasksAgree, Announces, AtExec, InPtraceStop, NewTaskEvent

LEMMA MovesLife ==
  ASSUME LifeAssumption, TInv, Sound(task)', LifeInv, Underneath, NEW p \in Pid, Moves(p)
  PROVE  LifeInv'
<1> USE DEF Present, Announces, AtExec, InPtraceStop, NewTaskEvent
<1>1. Running /\ TasksAgree /\ GroupsAreLed /\ ExecutedAreGone
  BY RunsInv DEF Underneath
<1>2. p \in Tracked
  BY <1>1, FollowedTasks DEF Running, Moves
<1>3. TasksAgree'
  BY <1>1 DEF TasksAgree, Moves, SameLife
<1>4. GroupsAreLed'
  BY <1>1 DEF GroupsAreLed, TasksAgree, Moves, SameLife
<1>5. ExecutedAreGone'
  BY <1>1 DEF ExecutedAreGone, TasksAgree, Moves, SameLife
<1>6. EventIsCurrent'
  BY <1>1, SameLoop DEF Running, EventIsCurrent, Moves, SameLife, TInv, LoopTyped
<1>7. UntrackedAreNew'
  BY <1>1, <1>2, SameLoop DEF Running, UntrackedAreNew, Moves, SameLife
<1>8. AnnouncedAreNew'
  BY <1>1, <1>2, SameLoop DEF Running, AnnouncedAreNew, TasksAgree, Moves, SameLife
<1>9. TrackedAreThere'
  BY <1>1, <1>2, SameLoop, TrackedIsPid DEF Running, TrackedAreThere, Moves, SameLife
<1> QED  BY <1>3, <1>4, <1>5, <1>6, <1>7, <1>8, <1>9 DEF LifeInv

\* An id that can be given is of no task that is announced or followed.
LEMMA AvailableIsFree ==
  ASSUME LifeAssumption, TInv, LifeInv, Underneath,
         NEW p \in Pid, NEW c \in Pid, NEW how \in Creates, Bears(p, c, how)
  PROVE  /\ c \notin Tracked /\ ~AtHand(c) /\ ~Present(c)
         /\ \A q \in Pid : Announces(q) => task[q].msg # c
         /\ \A q \in Pid : Present(q) => task[q].grp # c
<1> USE DEF Present
<1>1. Running /\ TasksAgree /\ GroupsAreLed /\ ExecutedAreGone
  BY RunsInv DEF Underneath
<1>2. ~Present(c)
  BY DEF Bears, Available
<1>3. ~AtHand(c)
  <2> SUFFICES ASSUME AtHand(c) PROVE FALSE
    OBVIOUS
  <2>1. task[c].st = "gone"
    BY <1>1, <1>2 DEF AtHand, Running, EventIsCurrent
  <2>2. Bygone(task', c)
    BY <2>1 DEF Underneath, Bygone, AtHand
  <2> QED  BY <2>2 DEF Bygone, Bears
<1>4. c \notin Tracked
  <2> SUFFICES ASSUME c \in Tracked PROVE FALSE
    OBVIOUS
  <2>1. task[c].st = "gone" /\ PidReuse
    BY <1>1 DEF Running, TrackedAreThere, Bears, Available
  <2>2. PICK h \in Pid : AtExec(h) /\ task[h].msg = c
    BY <1>1, <1>3, <2>1 DEF Running, TrackedAreThere
  <2> QED
    BY <1>1, <2>1, <2>2 DEF ExecutedAreGone, AtExec, InPtraceStop, LifeAssumption
<1>5. ASSUME NEW q \in Pid, Announces(q), task[q].msg = c
      PROVE  FALSE
  BY <1>1, <1>2, <1>3, <1>5 DEF Running, AnnouncedAreNew
<1>6. ASSUME NEW q \in Pid, Present(q), task[q].grp = c
      PROVE  FALSE
  BY <1>1, <1>2, <1>6 DEF GroupsAreLed
<1> QED  BY <1>2, <1>3, <1>4, <1>5, <1>6

LEMMA BearsLife ==
  ASSUME LifeAssumption, TInv, Sound(task)', LifeInv, Underneath,
         NEW p \in Pid, NEW c \in Pid, NEW how \in Creates, Bears(p, c, how)
  PROVE  LifeInv'
<1>1. Running /\ TasksAgree /\ GroupsAreLed /\ ExecutedAreGone
  BY RunsInv DEF Underneath
<1>2. /\ c \notin Tracked /\ ~AtHand(c) /\ ~Present(c)
      /\ \A q \in Pid : Announces(q) => task[q].msg # c
      /\ \A q \in Pid : Present(q) => task[q].grp # c
  BY AvailableIsFree
<1> USE DEF Present, Announces, AtExec, InPtraceStop, NewTaskEvent
<1>3. p \in Tracked
  BY <1>1, FollowedTasks DEF Running, Bears
<1>4. None \notin Pid /\ task[p].grp \in Pid
  BY <1>1, IdsAssumption DEF TasksAgree, Bears
<1>5. TasksAgree'
  BY <1>1, <1>4 DEF TasksAgree, Bears, Available, SameLife
<1>6. GroupsAreLed'
  BY <1>1, <1>2, <1>4 DEF GroupsAreLed, TasksAgree, Bears, SameLife
<1>7. ExecutedAreGone'
  BY <1>1, <1>2 DEF ExecutedAreGone, TasksAgree, LifeAssumption, Bears, Available, SameLife
<1>8. EventIsCurrent'
  BY <1>1, <1>2, SameLoop
  DEF Running, EventIsCurrent, Bears, SameLife, TInv, LoopTyped, AtHand
<1>9. UntrackedAreNew'
  BY <1>1, <1>2, <1>3, SameLoop DEF Running, UntrackedAreNew, Bears, SameLife
<1>10. AnnouncedAreNew'
  BY <1>1, <1>2, <1>3, SameLoop DEF Running, AnnouncedAreNew, TasksAgree, Bears, SameLife
<1>11. TrackedAreThere'
  BY <1>1, <1>2, <1>3, SameLoop, TrackedIsPid DEF Running, TrackedAreThere, Bears, SameLife
<1> QED  BY <1>5, <1>6, <1>7, <1>8, <1>9, <1>10, <1>11 DEF LifeInv

\* Where no event is lost a kill spares whoever has one, and whoever is new.
LEMMA Spared ==
  ASSUME TasksAgree, NEW killed \in SUBSET Pid, Kills(killed), NEW q \in killed
  PROVE  \/ SuddenDeath
         \/ /\ ~Announces(q) /\ ~AtExec(q)
            /\ \A a \in Pid : Announces(a) => task[a].msg # q
BY DEF Kills, NothingUnread, Unannounced, TasksAgree, Announces, AtExec

LEMMA KillsLife ==
  ASSUME LifeAssumption, TInv, Sound(task)', LifeInv, Underneath,
         NEW killed \in SUBSET Pid, Kills(killed)
  PROVE  LifeInv'
<1>1. Running /\ TasksAgree /\ GroupsAreLed /\ ExecutedAreGone
  BY RunsInv DEF Underneath
<1>2. \A q \in killed : \/ SuddenDeath
                        \/ /\ ~Announces(q) /\ ~AtExec(q)
                           /\ \A a \in Pid : Announces(a) => task[a].msg # q
  BY <1>1, Spared
<1>3. None \notin Pid
  BY IdsAssumption
<1> USE DEF Present, Announces, AtExec, InPtraceStop, NewTaskEvent, Living
<1>4. TasksAgree'
  BY <1>1, <1>3 DEF TasksAgree, Kills, SameLife
<1>5. GroupsAreLed'
  BY <1>1 DEF GroupsAreLed, TasksAgree, Kills, SameLife
<1>6. ExecutedAreGone'
  BY <1>1 DEF ExecutedAreGone, TasksAgree, Kills, SameLife
<1>7. EventIsCurrent'
  BY <1>1, <1>2, SameLoop DEF Running, EventIsCurrent, Kills, SameLife, TInv, LoopTyped
<1>8. UntrackedAreNew'
  BY <1>1, <1>2, SameLoop DEF Running, UntrackedAreNew, Kills, SameLife
<1>9. AnnouncedAreNew'
  BY <1>1, <1>2, SameLoop DEF Running, AnnouncedAreNew, TasksAgree, Kills, SameLife
<1>10. TrackedAreThere'
  BY <1>1, <1>2, SameLoop, TrackedIsPid DEF Running, TrackedAreThere, ExecutedAreGone,
     LifeAssumption, Kills, SameLife
<1> QED  BY <1>4, <1>5, <1>6, <1>7, <1>8, <1>9, <1>10 DEF LifeInv

LEMMA TakesLife ==
  ASSUME LifeAssumption, TInv, Sound(task)', LifeInv, Underneath,
         NEW p \in Pid, NEW g \in Pid, TakesId(p, g)
  PROVE  LifeInv'
<1>1. Running /\ TasksAgree /\ GroupsAreLed /\ ExecutedAreGone
  BY RunsInv DEF Underneath
<1>2. None \notin Pid
  BY IdsAssumption
<1> USE DEF Present, Announces, AtExec, InPtraceStop, NewTaskEvent
<1>3. /\ p # g => ThreadExec /\ ~SuddenDeath /\ ~PidReuse /\ task[g].st = "dead"
      /\ Present(g)
      /\ \A q \in Pid : Present(q) /\ task[q].grp = p => p = g
  BY <1>1 DEF TakesId, TasksAgree, GroupsAreLed, LifeAssumption
<1>4. p \in Tracked /\ g \in Tracked
  BY <1>1, <1>3, FollowedTasks DEF Running, TakesId
<1>5. TasksAgree'
  BY <1>1, <1>2, <1>3 DEF TasksAgree, TakesId, SameLife
<1>6. GroupsAreLed'
  BY <1>1, <1>2, <1>3 DEF GroupsAreLed, TasksAgree, TakesId, SameLife
<1>7. ExecutedAreGone'
  BY <1>1, <1>3 DEF ExecutedAreGone, TasksAgree, TakesId, SameLife
<1>8. EventIsCurrent'
  <2> SUFFICES ASSUME loop = "handle"
               PROVE  /\ cur.pid # g
                      /\ cur.pid = p => FALSE
    BY <1>1, SameLoop DEF Running, EventIsCurrent, TakesId, SameLife, TInv, LoopTyped
  <2>1. cur.pid # p
    BY <1>1 DEF Running, EventIsCurrent, TakesId
  <2>2. cur.pid # g
    <3>1. g # p /\ cur.pid = g => Bygone(task, g)
      BY <1>3 DEF Bygone
    <3> QED  BY <2>1, <3>1 DEF Underneath, Bygone, TakesId
  <2> QED  BY <2>1, <2>2
<1>9. UntrackedAreNew'
  BY <1>1, <1>3, <1>4, SameLoop DEF Running, UntrackedAreNew, TakesId, SameLife
<1>10. AnnouncedAreNew'
  BY <1>1, <1>3, <1>4, SameLoop DEF Running, AnnouncedAreNew, TasksAgree, TakesId, SameLife
<1>11. TrackedAreThere'
  BY <1>1, <1>3, <1>4, SameLoop, TrackedIsPid
  DEF Running, TrackedAreThere, ExecutedAreGone, TakesId, SameLife
<1> QED  BY <1>5, <1>6, <1>7, <1>8, <1>9, <1>10, <1>11 DEF LifeInv

LEMMA KernelLife == ASSUME LifeAssumption, TInv, LifeInv, Kernel PROVE LifeInv'
<1>1. Underneath
  BY DEF Kernel, Underneath, LoopRuns, tracerVars
<1>2. Sound(task)'
  BY KernelTyped DEF TInv
<1>3. \/ \E p \in Pid : Moves(p)
      \/ \E p, c \in Pid, how \in Creates : Bears(p, c, how)
      \/ \E killed \in SUBSET Pid : Kills(killed)
      \/ \E p, g \in Pid : TakesId(p, g)
  BY TasksNextEffect DEF Kernel, TInv, LifeInv
<1> QED  BY <1>1, <1>2, <1>3, MovesLife, BearsLife, KillsLife, TakesLife
------------------------------------------------------------------------------
(* The steps of the tracer *)

\* What a restart makes of a task.
RestartOf(old, new) ==
  /\ new.grp = old.grp
  /\ IF old.st \notin {"stopped", "reported"} THEN new = old
     ELSE \/ /\ old.why = "exitevent" /\ new.st = "dead" /\ new.why = "none"
             /\ new.msg = old.msg
          \/ /\ old.why = "sigstop" /\ new.st = "stopped" /\ new.why = "groupstop"
             /\ new.msg = old.msg
          \/ /\ old.why # "exitevent" /\ new.st = "running" /\ new.why = "none"
             /\ new.msg = None

LEMMA RestartedEffect ==
  ASSUME NEW t, Sound(t), NEW p \in Pid, NEW trace, NEW sigstop
  PROVE  LET r == Restarted(t, p, trace, sigstop)
         IN  RestartOf(t[p], r[p]) /\ \A q \in Pid \ {p} : r[q] = t[q]
<1>1. t \in [Pid -> Task] /\ t[p] \in Task
  BY DEF Sound
<1> DEFINE dead == [t[p] EXCEPT !.st = "dead", !.why = "none"]
           again == [t[p] EXCEPT !.st = "stopped", !.why = "groupstop", !.trace = trace]
           on == [t[p] EXCEPT !.st = "running", !.why = "none", !.msg = None,
                              !.trace = trace]
<1>2. /\ dead.st = "dead" /\ dead.why = "none" /\ dead.msg = t[p].msg
      /\ dead.grp = t[p].grp
      /\ again.st = "stopped" /\ again.why = "groupstop" /\ again.msg = t[p].msg
      /\ again.grp = t[p].grp
      /\ on.st = "running" /\ on.why = "none" /\ on.msg = None /\ on.grp = t[p].grp
  BY <1>1 DEF Task
<1>3. CASE t[p].st \notin {"stopped", "reported"}
  BY <1>3 DEF Restarted, RestartOf
<1>4. CASE t[p].st \in {"stopped", "reported"} /\ t[p].why = "exitevent"
  <2>1. Restarted(t, p, trace, sigstop) = [t EXCEPT ![p] = dead]
    BY <1>4 DEF Restarted
  <2> HIDE DEF dead, again, on
  <2> QED  BY <1>1, <1>2, <1>4, <2>1 DEF RestartOf
<1>5. CASE t[p].st \in {"stopped", "reported"} /\ t[p].why = "sigstop" /\ sigstop
  <2>1. Restarted(t, p, trace, sigstop) = [t EXCEPT ![p] = again]
    BY <1>5 DEF Restarted
  <2> HIDE DEF dead, again, on
  <2> QED  BY <1>1, <1>2, <1>5, <2>1 DEF RestartOf
<1>6. CASE /\ t[p].st \in {"stopped", "reported"} /\ t[p].why # "exitevent"
           /\ ~(t[p].why = "sigstop" /\ sigstop)
  <2>1. Restarted(t, p, trace, sigstop) = [t EXCEPT ![p] = on]
    BY <1>6 DEF Restarted
  <2> HIDE DEF dead, again, on
  <2> QED  BY <1>1, <1>2, <1>6, <2>1 DEF RestartOf
<1> QED  BY <1>3, <1>4, <1>5, <1>6

LEMMA RestartedPlainly ==
  ASSUME NEW t, Sound(t), NEW p \in Pid
  PROVE  LET r == Restarted(t, p, TRUE, FALSE)
         IN  RestartOf(t[p], r[p]) /\ \A q \in Pid \ {p} : r[q] = t[q]
<1>1. \A trace, sigstop :
        LET r == Restarted(t, p, trace, sigstop)
        IN  RestartOf(t[p], r[p]) /\ \A q \in Pid \ {p} : r[q] = t[q]
  BY RestartedEffect
<1> QED  BY <1>1, Zenon

LEMMA RestartLastEffect ==
  ASSUME NEW t, Sound(t), NEW p \in Pid, NEW state
  PROVE  LET r == RestartLast(t, p, state)
         IN  RestartOf(t[p], r[p]) /\ \A q \in Pid \ {p} : r[q] = t[q]
BY RestartedEffect DEF RestartLast

\* The stop at hand, if the task is still in a stop.
LEMMA StopAtHand ==
  ASSUME LifeInv, NEW p \in Pid, HandlingStop(p), Reachable(p)
  PROVE  /\ Running /\ TasksAgree /\ GroupsAreLed /\ ExecutedAreGone
         /\ \/ task[p].st = "reported" /\ task[p].why = cur.why
            \/ /\ task[p].st = "stopped" /\ task[p].why = "exitevent"
               /\ SuddenDeath \/ cur.why \notin NewTaskEvent \cup {"exec"}
<1>1. Running /\ TasksAgree /\ GroupsAreLed /\ ExecutedAreGone
  BY RunsInv DEF HandlingStop, Handling, LoopRuns
<1> QED
  BY <1>1 DEF Running, EventIsCurrent, HandlingStop, Handling, Reachable, InPtraceStop

\* The handlers after which p runs on, and nothing else has changed.
RunsOn(p) ==
  /\ HandlingStop(p) /\ ~Announces(p) /\ ~AtExec(p)
  /\ Continue /\ Tracked' = Tracked
  /\ RestartOf(task[p], task'[p]) /\ \A q \in Pid \ {p} : task'[q] = task[q]

LEMMA HandlersRunOn ==
  ASSUME TInv, LifeInv, NEW p \in Pid,
         \/ HandleDeadTask(p) \/ HandleSeccompV1(p) \/ HandleEntry(p)
         \/ HandleSyscallExit(p) \/ HandleOtherStop(p)
  PROVE  RunsOn(p)
<1> USE DEF HandlingStop, TInv
<1>1. CASE HandleDeadTask(p)
  <2>1. ~Announces(p) /\ ~AtExec(p)
    BY <1>1 DEF HandleDeadTask, Reachable, Announces, AtExec
  <2>2. Tracked' = Tracked
    BY <1>1 DEF HandleDeadTask, Tracked, LoopTyped
  <2> QED  BY <1>1, <2>1, <2>2, RestartedPlainly DEF HandleDeadTask, RunsOn
<1>2. ASSUME HandlingStop(p), Reachable(p), cur.why \notin NewTaskEvent \cup {"exec"}
      PROVE  ~Announces(p) /\ ~AtExec(p)
  BY <1>2, StopAtHand DEF Announces, AtExec, NewTaskEvent
<1>3. CASE HandleSeccompV1(p)
  <2>1. Tracked' = Tracked
    BY <1>3 DEF HandleSeccompV1, Tracked
  <2> QED
    BY <1>2, <1>3, <2>1, RestartedPlainly DEF HandleSeccompV1, RunsOn, NewTaskEvent
<1>4. CASE HandleEntry(p)
  <2>1. Tracked' = Tracked
    BY <1>4 DEF HandleEntry, HandlingSyscall, Tracked, LoopTyped
  <2> QED
    BY <1>2, <1>4, <2>1, RestartLastEffect
    DEF HandleEntry, HandlingSyscall, SyscallStop, RunsOn, NewTaskEvent
<1>5. CASE HandleSyscallExit(p)
  <2>1. Tracked' = Tracked
    BY <1>5 DEF HandleSyscallExit, HandlingSyscall, Tracked, LoopTyped
  <2> QED
    BY <1>2, <1>5, <2>1, RestartLastEffect
    DEF HandleSyscallExit, HandlingSyscall, SyscallStop, RunsOn, NewTaskEvent
<1>6. CASE HandleOtherStop(p)
  <2>1. Tracked' = Tracked
    BY <1>6 DEF HandleOtherStop, Tracked
  <2>2. ~Announces(p) /\ ~AtExec(p)
    <3>1. CASE InPtraceStop(p)
      BY <1>2, <1>6, <3>1 DEF HandleOtherStop, Reachable, NewTaskEvent
    <3>2. CASE ~InPtraceStop(p)
      BY <3>2 DEF Announces, AtExec
    <3> QED  BY <3>1, <3>2
  <2> QED  BY <1>6, <2>1, <2>2, RestartLastEffect DEF HandleOtherStop, RunsOn
<1> QED  BY <1>1, <1>3, <1>4, <1>5, <1>6

LEMMA RunsOnLife ==
  ASSUME TInv, LifeInv, NEW p \in Pid, RunsOn(p)
  PROVE  LifeInv'
<1>1. Running /\ TasksAgree /\ GroupsAreLed /\ ExecutedAreGone
  BY RunsInv DEF RunsOn, HandlingStop, Handling, LoopRuns
<1>2. None \notin Pid /\ p \in Tracked /\ Tracked' = Tracked
  BY IdsAssumption DEF RunsOn, HandlingStop
<1> USE DEF RunsOn, RestartOf, Present, Announces, AtExec, InPtraceStop, NewTaskEvent
<1>3. TasksAgree'
  BY <1>1, <1>2 DEF TasksAgree
<1>4. GroupsAreLed'
  BY <1>1 DEF GroupsAreLed, TasksAgree
<1>5. ExecutedAreGone'
  BY <1>1 DEF ExecutedAreGone, TasksAgree
<1>6. loop' = "wait"
  BY DEF Continue
<1>7. EventIsCurrent'
  BY <1>6 DEF EventIsCurrent
<1>8. UntrackedAreNew'
  BY <1>1, <1>2 DEF Running, UntrackedAreNew
<1>9. \A q : AtHand(q) => q = p /\ cur.why # "exited"
  BY DEF AtHand, HandlingStop, Handling
<1>10. AnnouncedAreNew'
  BY <1>1, <1>2, <1>6, <1>9 DEF Running, AnnouncedAreNew, TasksAgree
<1>11. TrackedAreThere'
  BY <1>1, <1>2, <1>6, <1>9, TrackedIsPid DEF Running, TrackedAreThere
<1> QED  BY <1>3, <1>4, <1>5, <1>7, <1>8, <1>10, <1>11 DEF LifeInv
\* The event of a new task is read from the creator, which announces it.
LEMMA NewTaskAtHand ==
  ASSUME LifeInv, NEW p \in Pid, HandlingStop(p), Reachable(p),
         cur.why \in NewTaskEvent, task[p].why # "exitevent"
  PROVE  /\ Announces(p) /\ task[p].st = "reported" /\ task[p].why = cur.why
         /\ ReportedPid(p) = task[p].msg /\ ReportedPid(p) \in Pid
         /\ ReportedPid(p) \notin Tracked /\ Present(ReportedPid(p)) /\ ReportedPid(p) # p
         /\ \A q \in Pid : Announces(q) /\ task[q].msg = ReportedPid(p) => q = p
         /\ ~Announces(ReportedPid(p)) /\ ~AtExec(ReportedPid(p))
<1>1. /\ Running /\ TasksAgree
      /\ task[p].st = "reported" /\ task[p].why = cur.why
  BY StopAtHand
<1>2. Announces(p) /\ ReportedPid(p) = task[p].msg /\ ReportedPid(p) \in Pid
  BY <1>1 DEF TasksAgree, Announces, Reachable, ReportedPid
<1>3. /\ ReportedPid(p) \notin Tracked
      /\ \A q \in Pid : Announces(q) /\ task[q].msg = ReportedPid(p) => q = p
      /\ Present(ReportedPid(p)) \/ AtHand(ReportedPid(p))
  BY <1>1, <1>2 DEF Running, AnnouncedAreNew
<1>4. ReportedPid(p) # p
  BY <1>3 DEF HandlingStop
<1>5. Present(ReportedPid(p))
  BY <1>3, <1>4 DEF AtHand, HandlingStop, Handling
<1>6. ~Announces(ReportedPid(p)) /\ ~AtExec(ReportedPid(p))
  BY <1>1, <1>2, <1>3, <1>5, FollowedTasks DEF Running
<1> QED  BY <1>1, <1>2, <1>3, <1>4, <1>5, <1>6

\* What the handler of a new task does: it follows it, and both run on.
Follows(p, child) ==
  /\ HandlingStop(p) /\ Continue /\ Tracked' = Tracked \cup {child}
  /\ RestartOf(task[p], task'[p])
  /\ task'[child] = task[child] \/ RestartOf(task[child], task'[child])
  /\ \A q \in Pid \ {p, child} : task'[q] = task[q]

LEMMA HandleNewTaskFollows ==
  ASSUME TInv, LifeInv, NEW p \in Pid, HandleNewTask(p), task[p].why # "exitevent"
  PROVE  Follows(p, ReportedPid(p))
<1> DEFINE child == ReportedPid(p)
           resumed == IF child \in suspendedThreads
                      THEN Restarted(task, child, ~UseSecComp, FALSE) ELSE task
<1>1. child \in Pid /\ child # p
  BY NewTaskAtHand DEF HandleNewTask
<1>2. /\ Sound(resumed)
      /\ resumed[child] = task[child] \/ RestartOf(task[child], resumed[child])
      /\ \A q \in Pid \ {child} : resumed[q] = task[q]
  <2>1. \A trace, sigstop :
          LET r == Restarted(task, child, trace, sigstop)
          IN  RestartOf(task[child], r[child]) /\ \A q \in Pid \ {child} : r[q] = task[q]
    BY <1>1, RestartedEffect DEF TInv
  <2>2. LET r == Restarted(task, child, ~UseSecComp, FALSE)
        IN  RestartOf(task[child], r[child]) /\ \A q \in Pid \ {child} : r[q] = task[q]
    BY <2>1, Zenon
  <2>3. Sound(Restarted(task, child, ~UseSecComp, FALSE))
    BY <1>1, RestartedSound DEF TInv
  <2> QED  BY <2>2, <2>3 DEF TInv
<1>3. task' = RestartLast(resumed, p, "undefined")
  BY DEF HandleNewTask
<1>4. Tracked' = Tracked \cup {child}
  BY <1>1 DEF HandleNewTask, Tracked, TInv, LoopTyped
<1> HIDE DEF resumed
<1>5. RestartOf(resumed[p], task'[p]) /\ \A q \in Pid \ {p} : task'[q] = resumed[q]
  BY <1>2, <1>3, RestartLastEffect
<1> QED  BY <1>1, <1>2, <1>4, <1>5 DEF HandleNewTask, Follows

LEMMA HandleNewTaskLife ==
  ASSUME TInv, LifeInv, NEW p \in Pid, HandleNewTask(p), task[p].why # "exitevent"
  PROVE  LifeInv'
<1> DEFINE child == ReportedPid(p)
<1>1. Running /\ TasksAgree /\ GroupsAreLed /\ ExecutedAreGone
  BY StopAtHand DEF HandleNewTask
<1>2. /\ child \in Pid /\ Announces(p) /\ child \notin Tracked /\ Present(child) /\ child # p
      /\ \A q \in Pid : Announces(q) /\ task[q].msg = child => q = p
      /\ ~Announces(child) /\ ~AtExec(child)
  BY NewTaskAtHand DEF HandleNewTask
<1>3. Follows(p, child) /\ p \in Tracked
  BY HandleNewTaskFollows DEF HandleNewTask, HandlingStop
<1>4. None \notin Pid
  BY IdsAssumption
<1>5. task[p].msg = child
  BY NewTaskAtHand DEF HandleNewTask
<1> HIDE DEF child
<1> USE DEF Follows, RestartOf, Present, Announces, AtExec, InPtraceStop, NewTaskEvent
<1>6. TasksAgree'
  BY <1>1, <1>2, <1>3, <1>4 DEF TasksAgree
<1>7. GroupsAreLed'
  BY <1>1, <1>2, <1>3 DEF GroupsAreLed, TasksAgree
<1>8. ExecutedAreGone'
  BY <1>1, <1>2, <1>3 DEF ExecutedAreGone, TasksAgree
<1>9. loop' = "wait"
  BY <1>3 DEF Continue
<1>10. EventIsCurrent'
  BY <1>9 DEF EventIsCurrent
<1>11. UntrackedAreNew'
  BY <1>1, <1>2, <1>3, <1>5 DEF Running, UntrackedAreNew
<1>12. \A q : AtHand(q) => q = p /\ cur.why # "exited"
  BY <1>3 DEF AtHand, HandlingStop, Handling
<1>13. AnnouncedAreNew'
  BY <1>1, <1>2, <1>3, <1>9, <1>12 DEF Running, AnnouncedAreNew, TasksAgree
<1>14. TrackedAreThere'
  BY <1>1, <1>2, <1>3, <1>9, <1>12, TrackedIsPid DEF Running, TrackedAreThere
<1> QED  BY <1>6, <1>7, <1>8, <1>10, <1>11, <1>13, <1>14 DEF LifeInv

\* The event of an execve is read from the task that has made it.
LEMMA ExecAtHand ==
  ASSUME LifeInv, NEW p \in Pid, HandlingStop(p), Reachable(p), cur.why = "exec",
         task[p].why # "exitevent"
  PROVE  /\ AtExec(p) /\ ReportedPid(p) = task[p].msg /\ task[p].st = "reported"
         /\ ReportedPid(p) = p \/ (ThreadExec /\ task[ReportedPid(p)].st = "gone")
<1>1. TasksAgree /\ ExecutedAreGone /\ task[p].st = "reported" /\ task[p].why = "exec"
  BY StopAtHand
<1>2. AtExec(p) /\ ReportedPid(p) = task[p].msg
  BY <1>1 DEF AtExec, Reachable, ReportedPid
<1> QED  BY <1>1, <1>2 DEF ExecutedAreGone

\* What the handler of an execve does: the id the thread had is not followed.
Executes(p, old) ==
  /\ HandlingStop(p) /\ Continue
  /\ Tracked' = IF old = p THEN Tracked ELSE Tracked \ {old}
  /\ RestartOf(task[p], task'[p]) /\ \A q \in Pid \ {p} : task'[q] = task[q]

LEMMA HandleExecExecutes ==
  ASSUME TInv, LifeInv, NEW p \in Pid, HandleExec(p), task[p].why # "exitevent"
  PROVE  Executes(p, ReportedPid(p))
<1> DEFINE old == ReportedPid(p)
<1>1. old \in Pid /\ (old = p \/ task[old].st = "gone")
  BY ExecAtHand, TrackedIsPid DEF HandleExec
<1>2. Restarted(task, old, TRUE, FALSE) = task \/ old = p
  BY <1>1 DEF Restarted
<1>3. task' = RestartLast(task, p, "undefined")
  BY <1>2 DEF HandleExec
<1>4. RestartOf(task[p], task'[p]) /\ \A q \in Pid \ {p} : task'[q] = task[q]
  BY <1>3, RestartLastEffect DEF TInv
<1>5. Tracked' = IF old = p THEN Tracked ELSE Tracked \ {old}
  BY <1>1 DEF HandleExec, Tracked, TInv, LoopTyped
<1> QED  BY <1>4, <1>5 DEF HandleExec, Executes

LEMMA HandleExecLife ==
  ASSUME TInv, LifeInv, NEW p \in Pid, HandleExec(p), task[p].why # "exitevent"
  PROVE  LifeInv'
<1> DEFINE old == ReportedPid(p)
<1>1. Running /\ TasksAgree /\ GroupsAreLed /\ ExecutedAreGone
  BY StopAtHand DEF HandleExec
<1>2. old \in Pid /\ AtExec(p) /\ (old = p \/ task[old].st = "gone")
  BY ExecAtHand, TrackedIsPid DEF HandleExec
<1>3. Executes(p, old) /\ p \in Tracked
  BY HandleExecExecutes DEF HandleExec, HandlingStop
<1>4. None \notin Pid
  BY IdsAssumption
<1>5. task[p].msg = old
  BY ExecAtHand DEF HandleExec
<1> HIDE DEF old
<1> USE DEF Executes, RestartOf, Present, Announces, AtExec, InPtraceStop, NewTaskEvent
<1>6. TasksAgree'
  BY <1>1, <1>2, <1>3, <1>4 DEF TasksAgree
<1>7. GroupsAreLed'
  BY <1>1, <1>2, <1>3 DEF GroupsAreLed, TasksAgree
<1>8. ExecutedAreGone'
  BY <1>1, <1>2, <1>3 DEF ExecutedAreGone, TasksAgree
<1>9. loop' = "wait"
  BY <1>3 DEF Continue
<1>10. EventIsCurrent'
  BY <1>9 DEF EventIsCurrent
<1>11. UntrackedAreNew'
  BY <1>1, <1>2, <1>3 DEF Running, UntrackedAreNew
<1>12. \A q : AtHand(q) => q = p /\ cur.why # "exited"
  BY <1>3 DEF AtHand, HandlingStop, Handling
<1>13. AnnouncedAreNew'
  BY <1>1, <1>2, <1>3, <1>9, <1>12 DEF Running, AnnouncedAreNew, TasksAgree
<1>14. TrackedAreThere'
  BY <1>1, <1>2, <1>3, <1>5, <1>9, <1>12, TrackedIsPid DEF Running, TrackedAreThere
<1> QED  BY <1>6, <1>7, <1>8, <1>10, <1>11, <1>13, <1>14 DEF LifeInv

\* An event whose task has been killed since, so that its message is an exit
\* status: that is the id of no task.
LEMMA StatusAtHand ==
  ASSUME LifeAssumption, TInv, LifeInv, NEW p \in Pid, HandlingStop(p), Reachable(p),
         cur.why \in NewTaskEvent \cup {"exec"}, task[p].why = "exitevent"
  PROVE  /\ SuddenDeath /\ ReportedPid(p) \in Pid \ TaskPid /\ ReportedPid(p) # p
         /\ task[ReportedPid(p)].st = "unused" /\ ~Announces(p) /\ ~AtExec(p)
<1>1. TasksAgree /\ SuddenDeath
  BY StopAtHand DEF NewTaskEvent
<1>2. task[p].code \in Codes
  BY DEF TInv, Sound, Coded, Task
<1>3. ReportedPid(p) \in Pid \ TaskPid
  BY <1>1, <1>2, TasksAssumption DEF LifeAssumption, StatusesApart, ReportedPid
<1>4. p \in TaskPid
  BY <1>1 DEF TasksAgree, Reachable, InPtraceStop
<1>5. task[ReportedPid(p)].st = "unused"
  BY <1>1, <1>3 DEF TasksAgree
<1> QED
  BY <1>1, <1>3, <1>4, <1>5 DEF Announces, AtExec, NewTaskEvent

\* What the handler of such an event does to the tasks: only p is restarted, and
\* nobody is followed or forgotten who is a task.
StraysOn(p) ==
  /\ SuddenDeath /\ HandlingStop(p) /\ ~Announces(p) /\ ~AtExec(p)
  /\ Continue /\ \A q \in TaskPid : q \in Tracked' <=> q \in Tracked
  /\ RestartOf(task[p], task'[p]) /\ \A q \in Pid \ {p} : task'[q] = task[q]

LEMMA HandlersStray ==
  ASSUME LifeAssumption, TInv, LifeInv, NEW p \in Pid, HandleNewTask(p) \/ HandleExec(p),
         task[p].why = "exitevent"
  PROVE  StraysOn(p)
<1> PICK s \in Pid : s = ReportedPid(p)
  BY TrackedIsPid DEF HandleNewTask, HandleExec
<1>1. /\ HandlingStop(p) /\ Reachable(p) /\ Continue
      /\ cur.why \in NewTaskEvent \cup {"exec"}
  BY DEF HandleNewTask, HandleExec
<1>2. /\ SuddenDeath /\ s \notin TaskPid /\ s # p
      /\ task[s].st = "unused" /\ ~Announces(p) /\ ~AtExec(p)
  BY <1>1, StatusAtHand
<1>3. \A trace, sigstop : Restarted(task, s, trace, sigstop) = task
  BY <1>2 DEF Restarted
<1>4. task' = RestartLast(task, p, "undefined")
  BY <1>3 DEF HandleNewTask, HandleExec
<1>5. RestartOf(task[p], task'[p]) /\ \A q \in Pid \ {p} : task'[q] = task[q]
  BY <1>4, RestartLastEffect DEF TInv
<1>6. \A q \in TaskPid : q \in Tracked' <=> q \in Tracked
  BY <1>2, TasksAssumption DEF HandleNewTask, HandleExec, Tracked, TInv, LoopTyped
<1> QED  BY <1>1, <1>2, <1>5, <1>6 DEF StraysOn

LEMMA StraysOnLife ==
  ASSUME TInv, LifeInv, NEW p \in Pid, StraysOn(p)
  PROVE  LifeInv'
<1>1. Running /\ TasksAgree /\ GroupsAreLed /\ ExecutedAreGone
  BY RunsInv DEF StraysOn, HandlingStop, Handling, LoopRuns
<1>2. None \notin Pid /\ p \in Tracked
  BY IdsAssumption DEF StraysOn, HandlingStop
<1> USE DEF StraysOn, RestartOf, Present, Announces, AtExec, InPtraceStop, NewTaskEvent
<1>3. TasksAgree'
  BY <1>1, <1>2 DEF TasksAgree
<1>4. GroupsAreLed'
  BY <1>1 DEF GroupsAreLed, TasksAgree
<1>5. ExecutedAreGone'
  BY <1>1 DEF ExecutedAreGone, TasksAgree
<1>6. loop' = "wait"
  BY DEF Continue
<1>7. EventIsCurrent'
  BY <1>6 DEF EventIsCurrent
<1>8. UntrackedAreNew'
  BY <1>1, <1>2 DEF Running, UntrackedAreNew, TasksAgree
<1>9. \A q : AtHand(q) => q = p /\ cur.why # "exited"
  BY DEF AtHand, HandlingStop, Handling
<1>10. AnnouncedAreNew'
  BY <1>1, <1>2, <1>6, <1>9 DEF Running, AnnouncedAreNew, TasksAgree
<1>11. TrackedAreThere'
  <2>1. \A q \in Pid : q \notin TaskPid => task'[q].st = "unused"
    BY <1>1 DEF TasksAgree
  <2>2. Tracked' \subseteq Pid
    BY DEF Tracked
  <2> QED
    BY <1>1, <1>2, <1>6, <1>9, <2>1, <2>2 DEF Running, TrackedAreThere, TasksAgree
<1> QED  BY <1>3, <1>4, <1>5, <1>7, <1>8, <1>10, <1>11 DEF LifeInv

LEMMA HandleNewThreadLife ==
  ASSUME TInv, LifeInv, NEW p \in Pid, HandleNewThread(p)
  PROVE  LifeInv'
<1>1. Running /\ TasksAgree /\ GroupsAreLed /\ ExecutedAreGone
  BY RunsInv DEF HandleNewThread, Handling, LoopRuns
<1>2. loop' = "wait" /\ Tracked' = Tracked /\ task' = task
  BY DEF HandleNewThread, Continue, Tracked
<1>3. \A q : AtHand(q) => q = p /\ cur.why # "exited"
  BY DEF AtHand, HandleNewThread, Handling
<1>4. TasksAgree' /\ GroupsAreLed' /\ ExecutedAreGone'
  BY <1>1, <1>2 DEF TasksAgree, GroupsAreLed, ExecutedAreGone,
     Present, Announces, AtExec, InPtraceStop
<1>5. EventIsCurrent' /\ UntrackedAreNew'
  BY <1>1, <1>2 DEF Running, EventIsCurrent, UntrackedAreNew,
     Present, Announces, AtExec, InPtraceStop
<1>6. AnnouncedAreNew' /\ TrackedAreThere'
  BY <1>1, <1>2, <1>3 DEF Running, AnnouncedAreNew, TrackedAreThere,
     Present, Announces, AtExec, InPtraceStop
<1> QED  BY <1>4, <1>5, <1>6 DEF LifeInv

\* A step after which the loop runs no more.
LEMMA LeavesLoop ==
  ASSUME LifeInv, UNCHANGED task, loop' \notin {"wait", "handle"}
  PROVE  LifeInv'
<1>1. TasksAgree' /\ GroupsAreLed' /\ ExecutedAreGone'
  BY DEF LifeInv, TasksAgree, GroupsAreLed, ExecutedAreGone,
     Present, Announces, AtExec, InPtraceStop
<1> QED  BY <1>1 DEF LifeInv, LoopRuns

LEMMA HandleExitLife ==
  ASSUME TInv, LifeInv, NEW p \in Pid, HandleExit(p)
  PROVE  LifeInv'
<1>1. Running /\ TasksAgree /\ GroupsAreLed /\ ExecutedAreGone
  BY RunsInv DEF HandleExit, Handling, LoopRuns
<1>2. task[p].st = "gone" /\ p \in Tracked
  BY <1>1 DEF Running, EventIsCurrent, HandleExit, Handling
<1>3. task' = task
  BY <1>2 DEF HandleExit, Restarted
<1>4. CASE ReturnsAt(p)
  BY <1>3, <1>4, LeavesLoop DEF HandleExit, ReturnFromLoop
<1>5. CASE ~ReturnsAt(p)
  <2>1. loop' = "wait" /\ Tracked' = Tracked \ {p}
    BY <1>5 DEF HandleExit, Continue, Tracked, TInv, LoopTyped
  <2>2. \A q : AtHand(q) => q = p
    BY DEF AtHand, HandleExit, Handling
  <2>3. TasksAgree' /\ GroupsAreLed' /\ ExecutedAreGone'
    BY <1>1, <1>3 DEF TasksAgree, GroupsAreLed, ExecutedAreGone,
       Present, Announces, AtExec, InPtraceStop
  <2>4. EventIsCurrent' /\ UntrackedAreNew'
    BY <1>1, <1>2, <1>3, <2>1 DEF Running, EventIsCurrent, UntrackedAreNew,
       Present, Announces, AtExec, InPtraceStop
  <2>5. AnnouncedAreNew' /\ TrackedAreThere'
    BY <1>1, <1>2, <1>3, <2>1, <2>2 DEF Running, AnnouncedAreNew, TrackedAreThere,
       Present, Announces, AtExec, InPtraceStop
  <2> QED  BY <2>3, <2>4, <2>5 DEF LifeInv
<1> QED  BY <1>4, <1>5

LEMMA WaitLife ==
  ASSUME TInv, LifeInv, NEW p \in Pid, Wait(p)
  PROVE  LifeInv'
<1>1. Running /\ TasksAgree /\ GroupsAreLed /\ ExecutedAreGone /\ None \notin Pid
  BY RunsInv, IdsAssumption DEF Wait, LoopRuns
<1>2. /\ loop = "wait" /\ loop' = "handle" /\ Tracked' = Tracked
      /\ \A q : ~AtHand(q)
  BY DEF Wait, Tracked, AtHand
<1> USE DEF Present, Announces, AtExec, InPtraceStop, NewTaskEvent
<1>3. CASE /\ task[p].st = "stopped"
           /\ task' = [task EXCEPT ![p].st = "reported"]
           /\ cur' = [pid |-> p, why |-> task[p].why, code |-> None]
  <2>1. /\ task'[p].st = "reported" /\ task'[p].why = task[p].why
        /\ task'[p].msg = task[p].msg /\ task'[p].grp = task[p].grp
        /\ \A q \in Pid \ {p} : task'[q] = task[q]
        /\ task[p].why # "exited"
    BY <1>3 DEF TInv, Sound, Task
  <2>2. TasksAgree' /\ GroupsAreLed' /\ ExecutedAreGone'
    BY <1>1, <1>3, <2>1 DEF TasksAgree, GroupsAreLed, ExecutedAreGone
  <2>3. EventIsCurrent'
    BY <1>3, <2>1 DEF EventIsCurrent
  <2>4. UntrackedAreNew'
    BY <1>1, <1>2, <1>3, <2>1 DEF Running, UntrackedAreNew
  <2>5. AnnouncedAreNew'
    BY <1>1, <1>2, <1>3, <2>1 DEF Running, AnnouncedAreNew, TasksAgree
  <2>6. TrackedAreThere'
    BY <1>1, <1>2, <1>3, <2>1, TrackedIsPid DEF Running, TrackedAreThere
  <2> QED  BY <2>2, <2>3, <2>4, <2>5, <2>6 DEF LifeInv
<1>4. CASE /\ Reapable(p)
           /\ task' = [task EXCEPT ![p] = Gone]
           /\ cur' = [pid |-> p, why |-> "exited", code |-> task[p].code]
  <2>1. /\ task'[p].st = "gone" /\ task'[p].why = "none"
        /\ task'[p].msg = None /\ task'[p].grp = None
        /\ \A q \in Pid \ {p} : task'[q] = task[q]
        /\ task[p].st = "dead"
    BY <1>4 DEF TInv, Sound, Reapable, Gone, Unused
  <2>2. p = task[p].grp => \A q \in Pid : task[q].grp = p => q = p
    BY <1>4 DEF Reapable, Members
  <2>3. TasksAgree'
    BY <1>1, <2>1 DEF TasksAgree
  <2>4. GroupsAreLed'
    BY <1>1, <2>1, <2>2 DEF GroupsAreLed, TasksAgree
  <2>5. ExecutedAreGone'
    BY <1>1, <2>1 DEF ExecutedAreGone, TasksAgree
  <2>6. EventIsCurrent'
    BY <1>4, <2>1 DEF EventIsCurrent
  <2>7. UntrackedAreNew'
    BY <1>1, <1>2, <2>1 DEF Running, UntrackedAreNew
  <2>8. AtHand(p)' /\ cur'.why = "exited"
    BY <1>2, <1>4 DEF AtHand
  <2>9. AnnouncedAreNew'
    BY <1>1, <1>2, <2>1, <2>8 DEF Running, AnnouncedAreNew, TasksAgree
  <2>10. TrackedAreThere'
    BY <1>1, <1>2, <2>1, <2>8, TrackedIsPid DEF Running, TrackedAreThere
  <2> QED  BY <2>3, <2>4, <2>5, <2>6, <2>7, <2>9, <2>10 DEF LifeInv
<1> QED  BY <1>3, <1>4 DEF Wait

LEMMA OtherStepsLife ==
  ASSUME LifeInv, NEW p \in Pid,
         \/ HandleInsaneEntry(p) \/ AssertFails(p) \/ LastChildGone \/ Post(p) \/ Report
         \/ UNCHANGED vars
  PROVE  LifeInv'
<1>1. CASE HandleInsaneEntry(p) \/ AssertFails(p) \/ LastChildGone \/ Post(p) \/ Report
  <2>1. UNCHANGED task /\ loop' \notin {"wait", "handle"}
    BY <1>1 DEF HandleInsaneEntry, AssertFails, LastChildGone, Post, Report, ReturnFromLoop,
       tracerVars
  <2> QED  BY <2>1, LeavesLoop
<1>2. CASE UNCHANGED vars
  BY <1>2 DEF vars, tracerVars, LifeInv, TasksAgree, GroupsAreLed, ExecutedAreGone, LoopRuns,
     EventIsCurrent, UntrackedAreNew, AnnouncedAreNew, TrackedAreThere,
     Present, Announces, AtExec, InPtraceStop, AtHand, Tracked
<1> QED  BY <1>1, <1>2

LEMMA NextLife ==
  ASSUME LifeAssumption, TInv, LifeInv, [Next]_vars
  PROVE  LifeInv'
<1>1. ASSUME NEW p \in Pid, Handle(p)
      PROVE  LifeInv'
  BY <1>1, HandleExitLife, HandleNewThreadLife, HandleNewTaskLife, HandleExecLife,
     HandlersStray, StraysOnLife, HandlersRunOn, RunsOnLife, OtherStepsLife
  DEF Handle, HandleSyscallEntry
<1> QED
  BY <1>1, KernelLife, WaitLife, OtherStepsLife, TraceeIsTask DEF Next, Terminated

LEMMA InitLife == ASSUME Init PROVE LifeInv
<1>1. /\ loop = "wait" /\ TraceePid \in TaskPid /\ TraceePid \in Pid /\ None \notin Pid
      /\ Tracked = {TraceePid}
      /\ \A p \in Pid : task[p].why = "none" /\ task[p].msg = None
      /\ task[TraceePid].st = "running" /\ task[TraceePid].grp = TraceePid
      /\ \A p \in Pid \ {TraceePid} : task[p].st = "unused" /\ task[p].grp = None
  BY TraceeIsTask, IdsAssumption DEF Init, TasksInit, Unused, Tracked
<1> QED
  BY <1>1 DEF LifeInv, TasksAgree, GroupsAreLed, ExecutedAreGone, EventIsCurrent,
     UntrackedAreNew, AnnouncedAreNew, TrackedAreThere,
     Present, Announces, AtExec, InPtraceStop, NewTaskEvent

LEMMA LifeInvariant == LifeAssumption => (Spec => []LifeInv)
<1> SUFFICES ASSUME LifeAssumption PROVE Spec => []LifeInv
  OBVIOUS
<1>1. TInv /\ LifeInv /\ [Next]_vars => LifeInv'
  BY NextLife
<1> QED  BY <1>1, InitLife, StatusKnown, PTL DEF Spec
------------------------------------------------------------------------------
(* Where no event is lost *)

Order == SuspendedAreNew /\ OthersAreGone /\ ExitsAreFollowed /\ ExecutedAreFollowed

\* Without SuddenDeath a task that is not followed is in its first stop, and
\* announced by one that is.
LEMMA UnfollowedTasks ==
  ASSUME TasksAgree, Running, ~SuddenDeath, NEW p \in Pid, p \notin Tracked, Present(p)
  PROVE  /\ InPtraceStop(p) /\ task[p].why = "sigstop"
         /\ \E q \in Tracked : Announces(q) /\ task[q].msg = p
<1>1. PICK q \in Pid : Announces(q) /\ task[q].msg = p
  BY DEF Running, UntrackedAreNew
<1>2. q \in Tracked
  BY <1>1, FollowedTasks DEF Running, Announces, InPtraceStop, Present
<1> QED  BY <1>1, <1>2 DEF Running, UntrackedAreNew

\* The event of a task is still there to be read.
LEMMA EventAtHand ==
  ASSUME LifeInv, ~SuddenDeath, NEW p \in Pid, HandlingStop(p), Reachable(p),
         cur.why \in NewTaskEvent \cup {"exec"}
  PROVE  task[p].why # "exitevent"
<1>1. cur.why # "exitevent"
  BY DEF NewTaskEvent
<1> QED  BY <1>1, StopAtHand

LEMMA EventsAreRead ==
  ASSUME LifeInv, ~SuddenDeath, NEW p \in Pid, HandleNewTask(p) \/ HandleExec(p)
  PROVE  task[p].why # "exitevent"
BY EventAtHand DEF HandleNewTask, HandleExec

LEMMA KernelOrder ==
  ASSUME LifeAssumption, TInv, LifeInv, ~SuddenDeath, Order, Kernel
  PROVE  Order'
<1>1. Underneath /\ UNCHANGED <<suspendedThreads, ProcMap>>
  BY DEF Kernel, Underneath, LoopRuns, tracerVars, contextVars
<1>2. Running /\ TasksAgree /\ GroupsAreLed /\ ExecutedAreGone
  BY <1>1, RunsInv DEF Underneath
<1>3. Tracked' = Tracked /\ Registered' = Registered /\ loop' = loop /\ cur' = cur
  BY <1>1, SameLoop DEF Registered
<1>4. Sound(task)'
  BY KernelTyped DEF TInv
<1>5. \/ \E p \in Pid : Moves(p)
      \/ \E p, c \in Pid, how \in Creates : Bears(p, c, how)
      \/ \E killed \in SUBSET Pid : Kills(killed)
      \/ \E p, g \in Pid : TakesId(p, g)
  BY <1>2, TasksNextEffect DEF Kernel, TInv
<1>6. suspendedThreads \subseteq Pid /\ Registered \subseteq Pid /\ None \notin Pid
      /\ (loop = "handle" => cur.pid \in Pid)
  BY IdsAssumption DEF TInv, LoopTyped, Registered
<1> USE DEF Order, Announces, AtExec, InPtraceStop, NewTaskEvent
<1>7. ASSUME NEW p \in Pid, Moves(p)
      PROVE  Order'
  <2>1. SuspendedAreNew'
    BY <1>1, <1>3, <1>6, <1>7 DEF SuspendedAreNew, Moves, SameLife
  <2>2. OthersAreGone'
    BY <1>3, <1>6, <1>7 DEF OthersAreGone, Moves, SameLife
  <2>3. ExitsAreFollowed' /\ ExecutedAreFollowed'
    BY <1>2, <1>3, <1>7 DEF ExitsAreFollowed, ExecutedAreFollowed, TasksAgree, Moves, SameLife
  <2> QED  BY <2>1, <2>2, <2>3
<1>8. ASSUME NEW p \in Pid, NEW c \in Pid, NEW how \in Creates, Bears(p, c, how)
      PROVE  Order'
  <2>1. SuspendedAreNew'
    BY <1>1, <1>3, <1>6, <1>8 DEF SuspendedAreNew, Bears, Available, SameLife
  <2>2. OthersAreGone'
    BY <1>3, <1>6, <1>8 DEF OthersAreGone, Bears, Available, SameLife
  <2>3. ExitsAreFollowed' /\ ExecutedAreFollowed'
    BY <1>2, <1>3, <1>8 DEF ExitsAreFollowed, ExecutedAreFollowed, TasksAgree, Bears, SameLife
  <2> QED  BY <2>1, <2>2, <2>3
<1>9. ASSUME NEW killed \in SUBSET Pid, Kills(killed)
      PROVE  Order'
  <2>1. \A q \in killed : /\ ~Announces(q) /\ ~AtExec(q) /\ Living(q)
                          /\ \A a \in Pid : Announces(a) => task[a].msg # q
    BY <1>2, <1>9, Spared DEF Kills
  <2>2. \A q \in suspendedThreads : q \notin killed
    BY <1>2, <1>6, <2>1, UnfollowedTasks, TrackedIsPid DEF SuspendedAreNew, Present
  <2>3. SuspendedAreNew'
    BY <1>1, <1>3, <1>6, <1>9, <2>2 DEF SuspendedAreNew, Kills, SameLife
  <2>4. OthersAreGone'
    BY <1>3, <1>6, <1>9, <2>1 DEF OthersAreGone, Kills, SameLife, Living
  <2>5. ExitsAreFollowed' /\ ExecutedAreFollowed'
    BY <1>2, <1>3, <1>9, <2>1
    DEF ExitsAreFollowed, ExecutedAreFollowed, TasksAgree, Kills, SameLife
  <2> QED  BY <2>3, <2>4, <2>5
<1>10. ASSUME NEW p \in Pid, NEW g \in Pid, TakesId(p, g)
       PROVE  Order'
  <2>1. /\ g # p => task[g].st = "dead"
        /\ p \in Tracked
    BY <1>2, <1>10, FollowedTasks DEF Running, TakesId, GroupsAreLed, Present
  <2>2. SuspendedAreNew'
    BY <1>1, <1>3, <1>6, <1>10, <2>1 DEF SuspendedAreNew, TakesId, SameLife
  <2>3. OthersAreGone'
    BY <1>3, <1>6, <1>10, <2>1 DEF OthersAreGone, TakesId, SameLife
  <2>4. loop = "handle" /\ cur.why = "exited" => cur.pid # p
    BY <1>2, <1>10 DEF Running, EventIsCurrent, TakesId
  <2>5. ExitsAreFollowed'
    BY <1>2, <1>3, <1>10, <2>1, <2>4 DEF ExitsAreFollowed, TakesId, SameLife
  <2>6. \A h \in Pid : AtExec(h) => task[h].msg # p
    BY <1>2, <1>10 DEF ExecutedAreGone, TakesId
  <2>7. ExecutedAreFollowed'
    BY <1>2, <1>3, <1>6, <1>10, <2>1, <2>6 DEF ExecutedAreFollowed, TakesId, SameLife
  <2> QED  BY <2>2, <2>3, <2>5, <2>7
<1> QED  BY <1>5, <1>7, <1>8, <1>9, <1>10

LEMMA WaitOrder ==
  ASSUME TInv, LifeInv, ~SuddenDeath, Order, NEW p \in Pid, Wait(p)
  PROVE  Order'
<1>1. Running /\ TasksAgree /\ GroupsAreLed /\ ExecutedAreGone /\ None \notin Pid
  BY RunsInv, IdsAssumption DEF Wait, LoopRuns
<1>2. /\ Tracked' = Tracked /\ Registered' = Registered /\ loop' = "handle"
      /\ UNCHANGED suspendedThreads /\ suspendedThreads \subseteq Pid /\ Registered \subseteq Pid
  BY DEF Wait, Tracked, Registered, contextVars, TInv, LoopTyped
<1> USE DEF Order, AtExec, InPtraceStop
<1>3. CASE /\ task[p].st = "stopped"
           /\ task' = [task EXCEPT ![p].st = "reported"]
           /\ cur' = [pid |-> p, why |-> task[p].why, code |-> None]
  <2>1. /\ task'[p].st = "reported" /\ task'[p].why = task[p].why
        /\ task'[p].msg = task[p].msg
        /\ \A q \in Pid \ {p} : task'[q] = task[q]
        /\ task[p].why # "exited"
    BY <1>3 DEF TInv, Sound, Task
  <2>2. SuspendedAreNew' /\ OthersAreGone'
    BY <1>2, <1>3, <2>1 DEF SuspendedAreNew, OthersAreGone
  <2>3. ExitsAreFollowed' /\ ExecutedAreFollowed'
    BY <1>2, <1>3, <2>1 DEF ExitsAreFollowed, ExecutedAreFollowed
  <2> QED  BY <2>2, <2>3
<1>4. CASE /\ Reapable(p)
           /\ task' = [task EXCEPT ![p] = Gone]
           /\ cur' = [pid |-> p, why |-> "exited", code |-> task[p].code]
  <2>1. /\ task'[p].st = "gone" /\ task'[p].why = "none"
        /\ task'[p].msg = None
        /\ \A q \in Pid \ {p} : task'[q] = task[q]
        /\ task[p].st = "dead"
    BY <1>4 DEF TInv, Sound, Reapable, Gone, Unused
  <2>2. SuspendedAreNew' /\ OthersAreGone'
    BY <1>2, <2>1 DEF SuspendedAreNew, OthersAreGone
  <2>3. p \in Tracked
    BY <1>1, <2>1, FollowedTasks DEF Running, Present
  <2>4. ExitsAreFollowed'
    BY <1>1, <1>2, <1>4, <2>1, <2>3 DEF ExitsAreFollowed, ExecutedAreGone
  <2>5. ExecutedAreFollowed'
    BY <1>2, <2>1 DEF ExecutedAreFollowed
  <2> QED  BY <2>2, <2>4, <2>5
<1> QED  BY <1>3, <1>4 DEF Wait

\* What the handlers do to the context's processes.
LEMMA HandlersRegister ==
  ASSUME TInv, NEW p \in Pid
  PROVE  /\ HandleExit(p) => Registered' = Registered \ {p}
         /\ HandleNewTask(p) => Registered' = Registered \cup {ReportedPid(p)}
         /\ HandleExec(p) => Registered' = Registered
         /\ \/ HandleDeadTask(p) \/ HandleSeccompV1(p)
            \/ HandleEntry(p) \/ HandleSyscallExit(p) \/ HandleOtherStop(p)
            => UNCHANGED <<ProcMap, GroupLeaders, suspendedThreads>>
<1>1. HandleExit(p) => Registered' = Registered \ {p}
  BY VanishTyped DEF HandleExit, TInv
<1>2. HandleNewTask(p) => Registered' = Registered \cup {ReportedPid(p)}
  BY RegisterTyped DEF HandleNewTask, TInv
<1>3. HandleExec(p) => Registered' = Registered
  BY RegisterExecTyped DEF HandleExec, TInv
<1>4. HandleSyscallExit(p) => UNCHANGED <<ProcMap, GroupLeaders, suspendedThreads>>
  BY SyscallExitTyped, RegistersAssumption DEF HandleSyscallExit, TInv
<1> QED
  BY <1>1, <1>2, <1>3, <1>4
  DEF HandleDeadTask, HandleSeccompV1, HandleEntry, HandleOtherStop, contextVars

LEMMA RunsOnOrder ==
  ASSUME TInv, LifeInv, Order, NEW p \in Pid, RunsOn(p),
         UNCHANGED <<ProcMap, suspendedThreads>>
  PROVE  Order'
<1>1. TasksAgree /\ ExecutedAreGone /\ None \notin Pid
  BY IdsAssumption DEF LifeInv
<1>2. /\ Tracked' = Tracked /\ Registered' = Registered /\ loop' = "wait" /\ p \in Tracked
      /\ suspendedThreads \subseteq Pid /\ Registered \subseteq Pid
  BY DEF RunsOn, HandlingStop, Continue, Registered, TInv, LoopTyped
<1> USE DEF Order, Announces, AtExec, InPtraceStop, RunsOn, RestartOf
<1>3. SuspendedAreNew' /\ OthersAreGone'
  BY <1>2 DEF SuspendedAreNew, OthersAreGone
<1>4. ExitsAreFollowed' /\ ExecutedAreFollowed'
  BY <1>1, <1>2 DEF ExitsAreFollowed, ExecutedAreFollowed
<1> QED  BY <1>3, <1>4

LEMMA HandleExitOrder ==
  ASSUME TInv, LifeInv, Order, NEW p \in Pid, HandleExit(p), ~ReturnsAt(p)
  PROVE  Order'
<1>1. task[p].st = "gone" /\ p \in Tracked /\ loop = "handle" /\ cur.why = "exited" /\ cur.pid = p
  BY RunsInv DEF Running, EventIsCurrent, HandleExit, Handling, LoopRuns
<1>2. task' = task
  BY <1>1 DEF HandleExit, Restarted
<1>3. /\ loop' = "wait" /\ Tracked' = Tracked \ {p} /\ Registered' = Registered \ {p}
      /\ UNCHANGED suspendedThreads
  BY HandlersRegister DEF HandleExit, Continue, Tracked, TInv, LoopTyped
<1> QED
  BY <1>1, <1>2, <1>3
  DEF Order, SuspendedAreNew, OthersAreGone, ExitsAreFollowed, ExecutedAreFollowed, AtExec,
      InPtraceStop

LEMMA HandleNewThreadOrder ==
  ASSUME TInv, LifeInv, ~SuddenDeath, Order, NEW p \in Pid, HandleNewThread(p)
  PROVE  Order'
<1>1. /\ Running /\ TasksAgree
      /\ loop = "handle" /\ cur.why # "exited" /\ cur.pid = p /\ p \notin Tracked
  BY RunsInv DEF HandleNewThread, Handling, LoopRuns
<1>2. /\ loop' = "wait" /\ Tracked' = Tracked /\ task' = task /\ Registered' = Registered
      /\ suspendedThreads' = suspendedThreads \cup {p}
  BY DEF HandleNewThread, Continue, Tracked, Registered, contextVars
<1>3. task[p].st = "reported" /\ task[p].why = "sigstop"
  BY <1>1, UnfollowedTasks DEF Running, EventIsCurrent, Present, InPtraceStop
<1> QED
  BY <1>1, <1>2, <1>3
  DEF Order, SuspendedAreNew, OthersAreGone, ExitsAreFollowed, ExecutedAreFollowed, AtExec,
      InPtraceStop

LEMMA HandleNewTaskOrder ==
  ASSUME TInv, LifeInv, Order, NEW p \in Pid, HandleNewTask(p),
         task[p].why # "exitevent"
  PROVE  Order'
<1> DEFINE child == ReportedPid(p)
<1>1. TasksAgree /\ ExecutedAreGone /\ None \notin Pid
  BY IdsAssumption DEF LifeInv
<1>2. /\ child \in Pid /\ Announces(p) /\ child \notin Tracked /\ Present(child) /\ child # p
      /\ ~AtExec(child)
  BY NewTaskAtHand DEF HandleNewTask
<1>3. Follows(p, child) /\ p \in Tracked
  BY HandleNewTaskFollows DEF HandleNewTask, HandlingStop
<1>4. /\ Registered' = Registered \cup {child} /\ Tracked' = Tracked \cup {child}
      /\ suspendedThreads' = suspendedThreads \ {child} /\ loop' = "wait"
      /\ suspendedThreads \subseteq Pid /\ Registered \subseteq Pid
  BY <1>3, HandlersRegister DEF HandleNewTask, Follows, Continue, Registered, TInv, LoopTyped
<1> HIDE DEF child
<1> USE DEF Order, Announces, AtExec, InPtraceStop, NewTaskEvent, Follows, RestartOf
<1>5. SuspendedAreNew' /\ OthersAreGone'
  BY <1>2, <1>3, <1>4 DEF SuspendedAreNew, OthersAreGone
<1>6. ExitsAreFollowed' /\ ExecutedAreFollowed'
  BY <1>1, <1>2, <1>3, <1>4 DEF ExitsAreFollowed, ExecutedAreFollowed
<1> QED  BY <1>5, <1>6

LEMMA HandleExecOrder ==
  ASSUME LifeAssumption, TInv, LifeInv, Order, NEW p \in Pid, HandleExec(p),
         task[p].why # "exitevent"
  PROVE  Order'
<1> DEFINE old == ReportedPid(p)
<1>1. TasksAgree /\ ExecutedAreGone /\ None \notin Pid
  BY IdsAssumption DEF LifeInv
<1>2. /\ old \in Pid /\ AtExec(p) /\ p \in Tracked
      /\ old = p \/ (ThreadExec /\ task[old].st = "gone")
  BY ExecAtHand, TrackedIsPid DEF HandleExec, HandlingStop
<1>3. Executes(p, old)
  BY HandleExecExecutes
<1>4. /\ Registered' = Registered /\ UNCHANGED suspendedThreads /\ loop' = "wait"
      /\ suspendedThreads \subseteq Pid /\ Registered \subseteq Pid
  BY <1>3, HandlersRegister DEF HandleExec, Executes, Continue, Registered, TInv, LoopTyped
<1>5. task[p].msg = old
  BY ExecAtHand DEF HandleExec
<1> HIDE DEF old
<1> USE DEF Order, Announces, AtExec, InPtraceStop, NewTaskEvent, Executes, RestartOf
<1>6. SuspendedAreNew'
  BY <1>2, <1>3, <1>4 DEF SuspendedAreNew
<1>7. OthersAreGone'
  BY <1>2, <1>3, <1>4 DEF OthersAreGone, LifeAssumption
<1>8. ExitsAreFollowed' /\ ExecutedAreFollowed'
  BY <1>1, <1>2, <1>3, <1>4, <1>5 DEF ExitsAreFollowed, ExecutedAreFollowed
<1> QED  BY <1>6, <1>7, <1>8

LEMMA NextOrder ==
  ASSUME LifeAssumption, TInv, LifeInv, OrderInv, [Next]_vars
  PROVE  OrderInv'
<1> SUFFICES ASSUME LoopRuns', ~SuddenDeath PROVE Order'
  BY DEF OrderInv, Order
<1>1. loop' \in {"wait", "handle"}
  BY DEF LoopRuns
<1>2. ASSUME Kernel \/ \E p \in Pid : Wait(p) \/ Handle(p)
      PROVE  LoopRuns
  BY <1>2 DEF Kernel, Wait, Handle, HandleSyscallEntry, HandleExit, HandleNewThread,
     HandleDeadTask, HandleNewTask, HandleExec, HandleSeccompV1, HandleEntry,
     HandleInsaneEntry, HandleSyscallExit, HandleOtherStop, AssertFails,
     HandlingSyscall, HandlingStop, Handling, LoopRuns
<1>3. ASSUME NEW p \in Pid, Handle(p)
      PROVE  Order'
  <2>1. Order
    BY <1>2, <1>3 DEF OrderInv, Order
  <2>2. CASE HandleExit(p)
    <3>1. ~ReturnsAt(p)
      BY <1>1, <2>2 DEF HandleExit, ReturnFromLoop
    <3> QED  BY <2>1, <2>2, <3>1, HandleExitOrder
  <2>3. CASE \/ HandleDeadTask(p) \/ HandleSeccompV1(p)
             \/ HandleEntry(p) \/ HandleSyscallExit(p) \/ HandleOtherStop(p)
    BY <2>1, <2>3, HandlersRunOn, HandlersRegister, RunsOnOrder
  <2>4. ~HandleInsaneEntry(p) /\ ~AssertFails(p)
    BY <1>1 DEF HandleInsaneEntry, ReturnFromLoop, AssertFails
  <2> QED
    BY <1>3, <2>1, <2>2, <2>3, <2>4, EventsAreRead, HandleNewThreadOrder,
       HandleNewTaskOrder, HandleExecOrder
    DEF Handle, HandleSyscallEntry
<1>4. CASE UNCHANGED vars
  BY <1>1, <1>4 DEF OrderInv, Order, LoopRuns, vars, contextVars, tracerVars,
     SuspendedAreNew, OthersAreGone, ExitsAreFollowed, ExecutedAreFollowed, AtExec,
     InPtraceStop, Tracked, Registered
<1>5. CASE Kernel \/ \E p \in Pid : Wait(p)
  <2>1. Order
    BY <1>2, <1>5 DEF OrderInv, Order
  <2> QED  BY <1>5, <2>1, KernelOrder, WaitOrder
<1>6. ~LastChildGone /\ ~Report /\ \A p \in Pid : ~Post(p)
  BY <1>1 DEF LastChildGone, ReturnFromLoop, Report, Post, tracerVars
<1> QED  BY <1>3, <1>4, <1>5, <1>6 DEF Next, Terminated

LEMMA OrderInvariant == LifeAssumption => (Spec => []OrderInv)
<1> SUFFICES ASSUME LifeAssumption PROVE Spec => []OrderInv
  OBVIOUS
<1>1. TInv /\ LifeInv /\ OrderInv /\ [Next]_vars => OrderInv'
  BY NextOrder
<1>2. Init => OrderInv
  <2> SUFFICES ASSUME Init PROVE Order
    BY DEF OrderInv, Order
  <2>1. Registered = {TraceePid} /\ Tracked = {TraceePid} /\ suspendedThreads = {}
    BY TraceeIsTask, ContextAssumption DEF Init, RegisterTracee, Registered, Tracked
  <2>2. \A p \in Pid : ~AtExec(p)
    BY DEF Init, TasksInit, Unused, AtExec, InPtraceStop
  <2> QED
    BY <2>1, <2>2 DEF Order, SuspendedAreNew, OthersAreGone, ExitsAreFollowed,
       ExecutedAreFollowed, Init
<1> QED  BY <1>1, <1>2, StatusKnown, LifeInvariant, PTL DEF Spec

\* Unless tasks are killed while an event of theirs is still to be read, each
\* thread in suspendedThreads is in its first stop, and its creator at the
\* event whose handler will resume it: none is forgotten, in whatever order
\* wait3 returns the two, and even where ids are used again.
THEOREM SuspendedAreResumed ==
  LifeAssumption /\ ~SuddenDeath => (Spec => []SuspendedAwaitCreator)
<1> SUFFICES ASSUME LifeAssumption, ~SuddenDeath PROVE Spec => []SuspendedAwaitCreator
  OBVIOUS
<1>1. TInv /\ LifeInv /\ OrderInv => SuspendedAwaitCreator
  <2> SUFFICES ASSUME TInv, LifeInv, OrderInv, LoopRuns, NEW p \in suspendedThreads
               PROVE  /\ p \notin Tracked /\ task[p].st = "reported"
                      /\ \E q \in Tracked : Announces(q) /\ task[q].msg = p
    BY DEF SuspendedAwaitCreator, LoopRuns, Announces
  <2>1. p \in Pid /\ p \notin Tracked /\ task[p].st = "reported"
    BY DEF OrderInv, SuspendedAreNew, TInv, LoopTyped
  <2> QED  BY <2>1, UnfollowedTasks, RunsInv DEF Present
<1> QED  BY <1>1, StatusKnown, LifeInvariant, OrderInvariant, PTL

LEMMA NoAssertStep ==
  ASSUME TInv, KInv, LifeInv, OrderInv, ~SuddenDeath, NEW p \in Pid, AssertFails(p)
  PROVE  FALSE
<1>1. Running /\ TasksAgree /\ Order /\ Handling(p)
  BY RunsInv DEF AssertFails, Handling, LoopRuns, OrderInv, Order
<1>2. Tracked \subseteq Registered
  BY DEF KInv, KnownProcesses
<1>3. cur.why # "exited"
  BY <1>1, <1>2 DEF AssertFails, HandlingStop, Handling, Order, ExitsAreFollowed
<1>4. HandlingStop(p) /\ Reachable(p) /\ p \in Registered
  BY <1>2, <1>3 DEF AssertFails, HandlingStop
<1>5. CASE cur.why \in NewTaskEvent /\ ReportedPid(p) \in Registered
  <2>1. ReportedPid(p) \notin Tracked /\ Present(ReportedPid(p))
    BY <1>4, <1>5, EventAtHand, NewTaskAtHand
  <2> QED  BY <1>1, <1>5, <2>1 DEF Order, OthersAreGone, Present
<1>6. CASE cur.why = "exec" /\ ReportedPid(p) \notin Tracked
  <2>1. AtExec(p) /\ ReportedPid(p) = task[p].msg
    BY <1>4, <1>6, EventAtHand, ExecAtHand
  <2> QED  BY <1>1, <1>6, <2>1 DEF Order, ExecutedAreFollowed
<1> QED  BY <1>3, <1>4, <1>5, <1>6 DEF AssertFails

\* No assertion of the loop or of the context fails, unless tasks are killed
\* while an event of theirs is still to be read: what exits is followed, what
\* is announced is not known yet, and the id a program had is.
THEOREM AssertionsHold ==
  LifeAssumption /\ ~SuddenDeath => (Spec => []NoAssertFails)
<1> SUFFICES ASSUME LifeAssumption, ~SuddenDeath PROVE Spec => []NoAssertFails
  OBVIOUS
<1>1. Init => NoAssertFails
  BY DEF Init, NoAssertFails
<1>2. TInv /\ KInv /\ LifeInv /\ OrderInv /\ NoAssertFails /\ [Next]_vars => NoAssertFails'
  <2> SUFFICES ASSUME TInv, KInv, LifeInv, OrderInv, loop # "aborted", [Next]_vars
               PROVE  loop' # "aborted"
    BY DEF NoAssertFails
  <2>1. \A p \in Pid : ~AssertFails(p)
    BY NoAssertStep
  <2> QED
    BY <2>1 DEF Next, Kernel, Wait, Handle, HandleSyscallEntry, HandleExit,
       HandleNewThread, HandleDeadTask, HandleNewTask, HandleExec, HandleSeccompV1, HandleEntry,
       HandleInsaneEntry, HandleSyscallExit, HandleOtherStop, Post, LastChildGone, Report,
       Terminated, Continue, ReturnFromLoop, tracerVars, vars
<1> QED
  BY <1>1, <1>2, StatusKnown, KnownInvariant, LifeInvariant, OrderInvariant, PTL DEF Spec

------------------------------------------------------------------------------
(* Thread groups *)

Tables == LeadersAgree /\ TablesFollowGroups /\ ExitedAreAlone /\ TablesAreLed

\* ExecIsAlone is of the tasks alone.
LEMMA KernelAlone ==
  ASSUME TInv, TasksAgree, GroupsAreLed, ExecIsAlone, TasksNext
  PROVE  ExecIsAlone'
<1>1. \/ \E p \in Pid : Moves(p)
      \/ \E p, c \in Pid, how \in Creates : Bears(p, c, how)
      \/ \E killed \in SUBSET Pid : Kills(killed)
      \/ \E p, g \in Pid : TakesId(p, g)
  BY TasksNextEffect DEF TInv
<1>2. None \notin Pid
  BY IdsAssumption
<1> USE DEF ExecIsAlone, Members, AtExec, InPtraceStop
<1>3. ASSUME NEW p \in Pid, Moves(p)
      PROVE  ExecIsAlone'
  BY <1>3 DEF Moves, SameLife
<1>4. ASSUME NEW p \in Pid, NEW c \in Pid, NEW how \in Creates, Bears(p, c, how)
      PROVE  ExecIsAlone'
  <2> SUFFICES ASSUME NEW h \in Pid, AtExec(h)', NEW q \in Pid
               PROVE  task'[h].grp = h /\ (task'[q].grp = h => q = h)
    OBVIOUS
  <2>1. h # p /\ h # c /\ AtExec(h) /\ SameLife(h)
    BY <1>4 DEF Bears, SameLife, NewTaskEvent
  <2>2. task[h].grp = h /\ \A x \in Pid : task[x].grp = h => x = h
    BY <2>1
  <2>3. task'[c].grp # h
    BY <1>4, <2>1, <2>2 DEF Bears
  <2> QED  BY <1>4, <2>1, <2>2, <2>3 DEF Bears, SameLife
<1>5. ASSUME NEW killed \in SUBSET Pid, Kills(killed)
      PROVE  ExecIsAlone'
  BY <1>5 DEF Kills, SameLife
<1>6. ASSUME NEW p \in Pid, NEW g \in Pid, TakesId(p, g)
      PROVE  ExecIsAlone'
  <2> SUFFICES ASSUME NEW h \in Pid, AtExec(h)', NEW q \in Pid
               PROVE  task'[h].grp = h /\ (task'[q].grp = h => q = h)
    OBVIOUS
  <2>1. CASE h = g
    BY <1>2, <1>6, <2>1 DEF TakesId, SameLife
  <2>2. CASE h # g
    <3>1. h # p /\ AtExec(h) /\ SameLife(h)
      BY <1>6, <2>2 DEF TakesId, SameLife
    <3> QED  BY <1>2, <1>6, <2>2, <3>1 DEF TakesId, SameLife
  <2> QED  BY <2>1, <2>2
<1> QED  BY <1>1, <1>3, <1>4, <1>5, <1>6

\* Without SuddenDeath what is announced is in its first stop.
LEMMA AnnouncedTasks ==
  ASSUME LifeInv, OrderInv, LoopRuns, ~SuddenDeath, NEW p \in Pid, Announces(p)
  PROVE  LET c == task[p].msg
         IN  c \in Pid /\ c \notin Tracked /\ Present(c) /\ InPtraceStop(c) /\ task[c].why = "sigstop"
<1>1. Running /\ TasksAgree
  BY RunsInv
<1>2. task[p].msg \in Pid
  BY <1>1 DEF TasksAgree
<1>3. task[p].msg \notin Tracked /\ Present(task[p].msg)
  BY <1>1, <1>2 DEF Running, AnnouncedAreNew, AtHand, OrderInv, ExitsAreFollowed
<1> QED  BY <1>1, <1>2, <1>3, UnfollowedTasks

LEMMA KernelNew ==
  ASSUME LifeAssumption, TInv, LifeInv, OrderInv, ~SuddenDeath, NewAreMembers, Kernel
  PROVE  NewAreMembers'
<1>1. Underneath
  BY DEF Kernel, Underneath, LoopRuns, tracerVars
<1>2. Running /\ TasksAgree /\ GroupsAreLed /\ LoopRuns
  BY <1>1, RunsInv DEF Underneath
<1>3. \/ \E p \in Pid : Moves(p)
      \/ \E p, c \in Pid, how \in Creates : Bears(p, c, how)
      \/ \E killed \in SUBSET Pid : Kills(killed)
      \/ \E p, g \in Pid : TakesId(p, g)
  BY <1>2, TasksNextEffect DEF Kernel, TInv
<1>4. \A a \in Pid : Announces(a) =>
        /\ task[a].msg \in Pid /\ task[a].msg \notin Tracked /\ Present(task[a].msg)
        /\ InPtraceStop(task[a].msg) /\ task[task[a].msg].why = "sigstop"
  BY <1>2, AnnouncedTasks
<1>5. None \notin Pid
  BY IdsAssumption
<1> USE DEF Members, Announces, InPtraceStop, NewTaskEvent
<1>6. ASSUME NEW p \in Pid, Moves(p)
      PROVE  NewAreMembers'
  BY <1>4, <1>6 DEF NewAreMembers, Moves, SameLife
<1>7. ASSUME NEW p \in Pid, NEW c \in Pid, NEW how \in Creates, Bears(p, c, how)
      PROVE  NewAreMembers'
  <2>1. /\ ~Present(c) /\ \A q \in Pid : Announces(q) => task[q].msg # c
        /\ \A q \in Pid : Present(q) => task[q].grp # c
        /\ \A q \in Pid : task[q].grp \in Pid => Present(q)
    BY <1>1, <1>2, <1>7, AvailableIsFree DEF TasksAgree
  <2> SUFFICES ASSUME NEW a \in Pid, Announces(a)'
               PROVE  LET d == task'[a].msg
                      IN  /\ task'[d].grp = IF task'[a].why = "thread" THEN task'[a].grp ELSE d
                          /\ \A q \in Pid : task'[q].grp = d => q = d
    BY DEF NewAreMembers
  <2>2. CASE a = p
    <3>1. /\ task'[a].msg = c /\ task'[a].why = how /\ task'[a].grp = task[p].grp
          /\ task'[c].grp = IF how = "thread" THEN task[p].grp ELSE c
      BY <1>7, <2>2 DEF Bears
    <3>2. task[p].grp # c
      BY <1>7, <2>1 DEF Bears, Present
    <3> QED  BY <1>7, <2>1, <3>1, <3>2 DEF Bears, SameLife
  <2>3. CASE a # p
    <3>1. a # c /\ SameLife(a) /\ Announces(a)
      BY <1>7, <2>3 DEF Bears, SameLife
    <3> DEFINE d == task[a].msg
    <3>2. d \in Pid /\ d # p /\ d # c /\ SameLife(d)
      BY <1>4, <1>7, <2>1, <3>1 DEF Bears
    <3>3. /\ task[d].grp = IF task[a].why = "thread" THEN task[a].grp ELSE d
          /\ \A q \in Pid : task[q].grp = d => q = d
      BY <3>1 DEF NewAreMembers
    <3>4. task'[c].grp # d
      BY <1>7, <3>2, <3>3 DEF Bears
    <3> QED  BY <1>7, <3>1, <3>2, <3>3, <3>4 DEF Bears, SameLife
  <2> QED  BY <2>2, <2>3
<1>8. ASSUME NEW killed \in SUBSET Pid, Kills(killed)
      PROVE  NewAreMembers'
  BY <1>4, <1>8 DEF NewAreMembers, Kills, SameLife
<1>9. ASSUME NEW p \in Pid, NEW g \in Pid, TakesId(p, g)
      PROVE  NewAreMembers'
  <2>1. g # p => task[g].st = "dead"
    BY <1>2, <1>9 DEF TakesId, GroupsAreLed, Present
  <2> SUFFICES ASSUME NEW a \in Pid, Announces(a)'
               PROVE  LET d == task'[a].msg
                      IN  /\ task'[d].grp = IF task'[a].why = "thread" THEN task'[a].grp ELSE d
                          /\ \A q \in Pid : task'[q].grp = d => q = d
    BY DEF NewAreMembers
  <2>2. a # p /\ a # g /\ SameLife(a) /\ Announces(a)
    BY <1>9 DEF TakesId, SameLife
  <2> DEFINE d == task[a].msg
  <2>3. d \in Pid /\ d # p /\ d # g /\ SameLife(d)
    BY <1>4, <1>9, <2>1, <2>2 DEF TakesId
  <2>4. /\ task[d].grp = IF task[a].why = "thread" THEN task[a].grp ELSE d
        /\ \A q \in Pid : task[q].grp = d => q = d
    BY <2>2 DEF NewAreMembers
  <2> QED  BY <1>5, <1>9, <2>2, <2>3, <2>4 DEF TakesId, SameLife
<1> QED  BY <1>3, <1>6, <1>7, <1>8, <1>9

\* The loop's steps change no group, but for the task that is reaped.
SameGroups ==
  \A q \in Pid : /\ task'[q].grp = task[q].grp
                 /\ task'[q].msg = task[q].msg \/ ~InPtraceStop(q)'
                 /\ AtExec(q)' => AtExec(q)
                 /\ Announces(q)' => Announces(q) /\ task'[q].why = task[q].why
                 /\ Present(q)' <=> Present(q)

LEMMA SameGroupsKeep ==
  ASSUME SameGroups, TasksAgree
  PROVE  /\ ExecIsAlone => ExecIsAlone'
         /\ NewAreMembers => NewAreMembers'
<1>1. ASSUME ExecIsAlone PROVE ExecIsAlone'
  BY <1>1 DEF ExecIsAlone, SameGroups, Members
<1>2. ASSUME NewAreMembers PROVE NewAreMembers'
  <2> SUFFICES ASSUME NEW a \in Pid, Announces(a)'
               PROVE  LET d == task'[a].msg
                      IN  /\ task'[d].grp = IF task'[a].why = "thread" THEN task'[a].grp ELSE d
                          /\ \A q \in Pid : task'[q].grp = d => q = d
    BY DEF NewAreMembers, Members
  <2>1. Announces(a) /\ task'[a].msg = task[a].msg /\ task[a].msg \in Pid
    BY DEF SameGroups, Announces, TasksAgree
  <2> QED  BY <1>2, <2>1 DEF NewAreMembers, Members, SameGroups
<1> QED  BY <1>1, <1>2

LEMMA HandlersKeepGroups ==
  ASSUME LifeAssumption, TInv, LifeInv, NEW p \in Pid, Handle(p)
  PROVE  SameGroups
<1> USE DEF SameGroups, RestartOf, Present, AtExec, Announces, InPtraceStop, NewTaskEvent
<1>1. CASE \/ HandleDeadTask(p) \/ HandleSeccompV1(p)
           \/ HandleEntry(p) \/ HandleSyscallExit(p) \/ HandleOtherStop(p)
  BY <1>1, HandlersRunOn DEF RunsOn
<1>2. CASE HandleNewTask(p) /\ task[p].why # "exitevent"
  <2>1. ReportedPid(p) \in Pid
    BY <1>2 DEF HandleNewTask
  <2> QED  BY <1>2, <2>1, HandleNewTaskFollows DEF Follows
<1>3. CASE HandleExec(p) /\ task[p].why # "exitevent"
  BY <1>3, HandleExecExecutes DEF Executes
<1>6. CASE (HandleNewTask(p) \/ HandleExec(p)) /\ task[p].why = "exitevent"
  BY <1>6, HandlersStray DEF StraysOn
<1>4. CASE HandleExit(p)
  <2>1. task[p].st = "gone"
    BY <1>4, RunsInv DEF Running, EventIsCurrent, HandleExit, Handling, LoopRuns
  <2>2. task' = task
    BY <1>4, <2>1 DEF HandleExit, Restarted
  <2> QED  BY <2>2
<1>5. CASE HandleNewThread(p) \/ HandleInsaneEntry(p) \/ AssertFails(p)
  BY <1>5 DEF HandleNewThread, HandleInsaneEntry, AssertFails
<1> QED  BY <1>1, <1>2, <1>3, <1>4, <1>5, <1>6 DEF Handle, HandleSyscallEntry

LEMMA WaitGroups ==
  ASSUME TInv, LifeInv, NEW p \in Pid, Wait(p)
  PROVE  /\ ExecIsAlone => ExecIsAlone'
         /\ OrderInv /\ ~SuddenDeath /\ NewAreMembers => NewAreMembers'
<1>1. Running /\ TasksAgree /\ GroupsAreLed /\ LoopRuns /\ None \notin Pid
  BY RunsInv, IdsAssumption DEF Wait, LoopRuns
<1>2. CASE /\ task[p].st = "stopped"
           /\ task' = [task EXCEPT ![p].st = "reported"]
           /\ cur' = [pid |-> p, why |-> task[p].why, code |-> None]
  <2>1. /\ task'[p].st = "reported" /\ task'[p].why = task[p].why
        /\ task'[p].msg = task[p].msg /\ task'[p].grp = task[p].grp
        /\ \A q \in Pid \ {p} : task'[q] = task[q]
    BY <1>2 DEF TInv, Sound, Task
  <2>2. SameGroups
    BY <1>2, <2>1 DEF SameGroups, Present, AtExec, Announces, InPtraceStop
  <2> QED  BY <1>1, <2>2, SameGroupsKeep
<1>3. CASE /\ Reapable(p)
           /\ task' = [task EXCEPT ![p] = Gone]
           /\ cur' = [pid |-> p, why |-> "exited", code |-> task[p].code]
  <2>1. /\ task'[p].st = "gone" /\ task'[p].grp = None
        /\ \A q \in Pid \ {p} : task'[q] = task[q]
        /\ task[p].st = "dead"
    BY <1>3 DEF TInv, Sound, Reapable, Gone, Unused
  <2>2. ExecIsAlone => ExecIsAlone'
    BY <1>1, <2>1 DEF ExecIsAlone, Members, AtExec, InPtraceStop
  <2>3. ASSUME OrderInv, ~SuddenDeath, NewAreMembers PROVE NewAreMembers'
    <3>1. \A a \in Pid : Announces(a) => task[a].msg \in Pid /\ InPtraceStop(task[a].msg)
      BY <1>1, <2>3, AnnouncedTasks
    <3> QED
      BY <1>1, <2>1, <2>3, <3>1 DEF NewAreMembers, Members, Announces, InPtraceStop
  <2> QED  BY <2>2, <2>3
<1> QED  BY <1>2, <1>3 DEF Wait

LEMMA SameTasksSameGroups == ASSUME UNCHANGED task PROVE SameGroups
BY DEF SameGroups, Present, AtExec, Announces, InPtraceStop

\* Every step but those of the tasks and of wait3.
LEMMA TracerKeepsGroups ==
  ASSUME LifeAssumption, TInv, LifeInv,
         \/ \E p \in Pid : Handle(p) \/ Post(p)
         \/ LastChildGone \/ Report \/ UNCHANGED vars
  PROVE  SameGroups
<1>1. ASSUME NEW p \in Pid, Post(p) PROVE UNCHANGED task
  BY <1>1 DEF Post
<1>2. LastChildGone \/ Report \/ UNCHANGED vars => UNCHANGED task
  BY DEF LastChildGone, Report, vars
<1> QED  BY <1>1, <1>2, HandlersKeepGroups, SameTasksSameGroups

MembersInv == ExecIsAlone /\ (LoopRuns /\ ~SuddenDeath => NewAreMembers)

\* The loop never starts again.
LEMMA LoopRan == ASSUME LoopRuns', [Next]_vars PROVE LoopRuns
<1>1. CASE Kernel \/ UNCHANGED vars
  BY <1>1 DEF Kernel, LoopRuns, vars, tracerVars
<1>2. ASSUME NEW p \in Pid, Wait(p) PROVE LoopRuns
  BY <1>2 DEF Wait, LoopRuns
<1>3. ASSUME NEW p \in Pid, Handle(p) PROVE LoopRuns
  BY <1>3 DEF Handle, HandleSyscallEntry, HandleExit, HandleNewThread, HandleDeadTask,
     HandleNewTask, HandleExec, HandleSeccompV1, HandleEntry,
     HandleInsaneEntry, HandleSyscallExit, HandleOtherStop, AssertFails,
     HandlingSyscall, HandlingStop, Handling, LoopRuns
<1>4. ASSUME NEW p \in Pid, Post(p) PROVE LoopRuns
  BY <1>4 DEF Post, LoopRuns, tracerVars
<1>5. CASE LastChildGone \/ Report \/ Terminated
  BY <1>5 DEF LastChildGone, Report, Terminated, ReturnFromLoop, LoopRuns, vars, tracerVars
<1> QED  BY <1>1, <1>2, <1>3, <1>4, <1>5 DEF Next

LEMMA NextMembers ==
  ASSUME LifeAssumption, TInv, LifeInv, OrderInv, MembersInv, [Next]_vars
  PROVE  MembersInv'
<1>1. TasksAgree /\ GroupsAreLed
  BY DEF LifeInv
<1>2. ASSUME LoopRuns', ~SuddenDeath PROVE NewAreMembers
  BY <1>2, LoopRan DEF MembersInv
<1>3. CASE Kernel
  <2>1. ExecIsAlone'
    BY <1>1, <1>3, KernelAlone DEF MembersInv, Kernel
  <2> QED  BY <1>2, <1>3, <2>1, KernelNew DEF MembersInv
<1>4. ASSUME NEW p \in Pid, Wait(p) PROVE MembersInv'
  BY <1>2, <1>4, WaitGroups DEF MembersInv
<1>5. CASE \/ \E p \in Pid : Handle(p) \/ Post(p)
           \/ LastChildGone \/ Report \/ UNCHANGED vars
  <2>1. SameGroups
    BY <1>5, TracerKeepsGroups
  <2> QED  BY <1>1, <1>2, <2>1, SameGroupsKeep DEF MembersInv
<1> QED  BY <1>3, <1>4, <1>5 DEF Next, Terminated

LEMMA MembersInvariant == LifeAssumption => (Spec => []MembersInv)
<1> SUFFICES ASSUME LifeAssumption PROVE Spec => []MembersInv
  OBVIOUS
<1>1. Init => MembersInv
  <2> SUFFICES ASSUME Init PROVE MembersInv
    OBVIOUS
  <2>1. \A p \in Pid : task[p].why = "none"
    BY DEF Init, TasksInit, Unused
  <2> QED
    BY <2>1 DEF MembersInv, ExecIsAlone, NewAreMembers, AtExec, Announces, NewTaskEvent
<1>2. TInv /\ LifeInv /\ OrderInv /\ MembersInv /\ [Next]_vars => MembersInv'
  BY NextMembers
<1> QED  BY <1>1, <1>2, StatusKnown, LifeInvariant, OrderInvariant, PTL DEF Spec

------------------------------------------------------------------------------
(* Tables and groups *)

\* TablesFollowGroups, with Present.
LEMMA TablesOfPresent ==
  TablesFollowGroups <=>
    \A p, q \in Tracked : Present(p) /\ Present(q) =>
      (ProcMap[p] = ProcMap[q] <=> task[p].grp = task[q].grp)
BY DEF TablesFollowGroups, Present

\* A step that leaves the maps as they are, and whoever is followed in its group.
LEMMA SameMapsTables ==
  ASSUME Tables, UNCHANGED <<ProcMap, GroupLeaders>>, Tracked' = Tracked,
         \A p \in Tracked : Present(p)' => Present(p) /\ task'[p].grp = task[p].grp,
         \A h \in Pid : AtExec(h)' /\ task'[h].msg # h =>
           task'[h].msg \notin GroupLeaders /\ ProcMap[task'[h].msg] = ProcMap[h],
         ExitedAreAlone'
  PROVE  Tables'
<1>1. LeadersAgree'
  BY DEF Tables, LeadersAgree
<1>2. TablesFollowGroups'
  <2> SUFFICES ASSUME NEW p \in Tracked, NEW q \in Tracked, Present(p)', Present(q)'
               PROVE  ProcMap[p] = ProcMap[q] <=> task'[p].grp = task'[q].grp
    <3>1. \A p, q : {task'[p].st, task'[q].st} \cap {"unused", "gone"} = {} =>
                      Present(p)' /\ Present(q)'
      BY DEF Present
    <3> QED  BY <3>1 DEF TablesFollowGroups
  <2> QED  BY TablesOfPresent DEF Tables
<1>3. TablesAreLed'
  BY DEF Tables, TablesAreLed
<1> QED  BY <1>1, <1>2, <1>3 DEF Tables

LEMMA KernelTables ==
  ASSUME LifeAssumption, TInv, LifeInv, ~SuddenDeath, Tables, Kernel
  PROVE  Tables'
<1>1. Underneath /\ UNCHANGED <<ProcMap, GroupLeaders>>
  BY DEF Kernel, Underneath, LoopRuns, tracerVars, contextVars
<1>2. Running /\ TasksAgree /\ GroupsAreLed
  BY <1>1, RunsInv DEF Underneath
<1>3. Tracked' = Tracked /\ loop' = loop /\ cur' = cur
  BY <1>1, SameLoop
<1>4. \/ \E p \in Pid : Moves(p)
      \/ \E p, c \in Pid, how \in Creates : Bears(p, c, how)
      \/ \E killed \in SUBSET Pid : Kills(killed)
      \/ \E p, g \in Pid : TakesId(p, g)
  BY <1>2, TasksNextEffect DEF Kernel, TInv
<1>5. ExitedAreAlone'
  BY <1>1, <1>3 DEF Tables, ExitedAreAlone
<1> DEFINE Kept == \A p \in Tracked : Present(p)' => Present(p) /\ task'[p].grp = task[p].grp
           Old == \A h \in Pid : AtExec(h)' => AtExec(h) /\ task'[h].msg = task[h].msg
           Execs == \A h \in Pid : AtExec(h)' /\ task'[h].msg # h =>
                      task'[h].msg \notin GroupLeaders /\ ProcMap[task'[h].msg] = ProcMap[h]
<1>6. Old => Execs
  BY DEF Tables, LeadersAgree
<1> USE DEF Present, AtExec, InPtraceStop, NewTaskEvent
<1>7. ASSUME NEW p \in Pid, Moves(p) PROVE Kept /\ Execs
  BY <1>6, <1>7, TrackedIsPid DEF Moves, SameLife
<1>8. ASSUME NEW p \in Pid, NEW c \in Pid, NEW how \in Creates, Bears(p, c, how)
      PROVE  Kept /\ Execs
  <2>1. c \notin Tracked
    BY <1>1, <1>8, AvailableIsFree
  <2> QED  BY <1>6, <1>8, <2>1, TrackedIsPid DEF Bears, SameLife
<1>9. ASSUME NEW killed \in SUBSET Pid, Kills(killed) PROVE Kept /\ Execs
  BY <1>6, <1>9, TrackedIsPid DEF Kills, SameLife, Living
<1>10. ASSUME NEW p \in Pid, NEW g \in Pid, TakesId(p, g) PROVE Kept /\ Execs
  <2>1. Present(p) /\ Present(g) /\ task[g].grp = g /\ task[p].grp = g
    BY <1>2, <1>10 DEF TakesId, GroupsAreLed
  <2>2. p \in Tracked /\ g \in Tracked
    BY <1>2, <1>10, <2>1, FollowedTasks DEF Running, TakesId
  <2>3. Kept
    BY <1>10, <2>1, TrackedIsPid DEF TakesId, SameLife
  <2>4. g # p => p \notin GroupLeaders /\ ProcMap[p] = ProcMap[g]
    BY <2>1, <2>2, TablesOfPresent DEF Tables, LeadersAgree
  <2>5. \A h \in Pid \ {g} : AtExec(h)' => AtExec(h) /\ task'[h].msg = task[h].msg
    BY <1>10 DEF TakesId, SameLife
  <2>6. Execs
    BY <1>10, <2>4, <2>5 DEF TakesId, Tables, LeadersAgree
  <2> QED  BY <2>3, <2>6
<1> QED  BY <1>1, <1>3, <1>4, <1>5, <1>7, <1>8, <1>9, <1>10, SameMapsTables

\* A leader can be reaped only when it is the last of its group.
LEMMA WaitTables ==
  ASSUME TInv, LifeInv, ~SuddenDeath, Tables, NEW p \in Pid, Wait(p)
  PROVE  Tables'
<1>1. /\ Running /\ TasksAgree /\ GroupsAreLed /\ None \notin Pid
      /\ loop = "wait" /\ loop' = "handle" /\ Tracked' = Tracked
      /\ UNCHANGED <<ProcMap, GroupLeaders>>
  BY RunsInv, IdsAssumption DEF Wait, LoopRuns, Tracked, contextVars
<1> USE DEF Present, AtExec, InPtraceStop
<1>2. CASE /\ task[p].st = "stopped"
           /\ task' = [task EXCEPT ![p].st = "reported"]
           /\ cur' = [pid |-> p, why |-> task[p].why, code |-> None]
  <2>1. /\ task'[p].st = "reported" /\ task'[p].why = task[p].why
        /\ task'[p].msg = task[p].msg /\ task'[p].grp = task[p].grp
        /\ \A q \in Pid \ {p} : task'[q] = task[q]
        /\ task[p].why # "exited"
    BY <1>2 DEF TInv, Sound, Task
  <2>2. ExitedAreAlone'
    BY <1>2, <2>1 DEF ExitedAreAlone
  <2>3. \A q \in Tracked : Present(q)' => Present(q) /\ task'[q].grp = task[q].grp
    BY <1>2, <2>1, TrackedIsPid
  <2>4. \A h \in Pid : AtExec(h)' => AtExec(h) /\ task'[h].msg = task[h].msg
    BY <1>2, <2>1
  <2> QED  BY <1>1, <2>2, <2>3, <2>4, SameMapsTables DEF Tables, LeadersAgree
<1>3. CASE /\ Reapable(p)
           /\ task' = [task EXCEPT ![p] = Gone]
           /\ cur' = [pid |-> p, why |-> "exited", code |-> task[p].code]
  <2>1. /\ task'[p].st = "gone"
        /\ \A q \in Pid \ {p} : task'[q] = task[q]
        /\ task[p].st = "dead"
        /\ p = task[p].grp => \A q \in Pid : task[q].grp = p => q = p
    BY <1>3 DEF TInv, Sound, Reapable, Gone, Unused, Members
  <2>2. p \in Tracked
    BY <1>1, <2>1, FollowedTasks DEF Running
  <2>3. ASSUME p \in GroupLeaders, NEW q \in Tracked, ProcMap[q] = ProcMap[p]
        PROVE  q = p
    <3>1. task[p].grp = p /\ q \in Pid
      BY <2>1, <2>2, <2>3, TrackedIsPid DEF Tables, LeadersAgree
    <3>2. ASSUME NEW r \in Tracked, Present(r), ProcMap[r] = ProcMap[p]
          PROVE  r = p
      BY <2>1, <2>2, <3>1, <3>2, TablesOfPresent, TrackedIsPid DEF Tables
    <3>3. CASE Present(q)
      BY <2>3, <3>2, <3>3
    <3>4. CASE ~Present(q)
      <4>1. PICK h \in Pid : AtExec(h) /\ task[h].msg = q
        BY <1>1, <3>4 DEF Running, TrackedAreThere, AtHand
      <4>2. h # q /\ h \in Tracked /\ Present(h)
        BY <1>1, <3>4, <4>1, FollowedTasks DEF Running
      <4>3. ProcMap[h] = ProcMap[p]
        BY <2>3, <4>1, <4>2 DEF Tables, LeadersAgree
      <4>4. h = p
        BY <3>2, <4>2, <4>3
      <4> QED  BY <2>1, <4>1, <4>4
    <3> QED  BY <3>3, <3>4
  <2>4. ExitedAreAlone'
    BY <1>1, <1>3, <2>3 DEF ExitedAreAlone
  <2>5. \A q \in Tracked : Present(q)' => Present(q) /\ task'[q].grp = task[q].grp
    BY <2>1, TrackedIsPid
  <2>6. \A h \in Pid : AtExec(h)' => AtExec(h) /\ task'[h].msg = task[h].msg
    BY <2>1
  <2> QED  BY <1>1, <2>4, <2>5, <2>6, SameMapsTables DEF Tables, LeadersAgree
<1> QED  BY <1>2, <1>3 DEF Wait
LEMMA HandleExitTables ==
  ASSUME TInv, LifeInv, Order, Tables, NEW p \in Pid, HandleExit(p), ~ReturnsAt(p)
  PROVE  Tables'
<1>1. /\ task[p].st = "gone" /\ p \in Tracked
      /\ loop = "handle" /\ cur.why = "exited" /\ cur.pid = p
  BY RunsInv DEF Running, EventIsCurrent, HandleExit, Handling, LoopRuns
<1>2. task' = task
  BY <1>1 DEF HandleExit, Restarted
<1>3. /\ loop' = "wait" /\ Tracked' = Tracked \ {p} /\ GroupLeaders' = GroupLeaders \ {p}
      /\ \A q \in Pid \ {p} : ProcMap'[q] = ProcMap[q]
  BY DEF HandleExit, VanishProcess, Continue, Tracked, TInv, LoopTyped, ContextTyped
<1>4. \A h \in Pid : AtExec(h) => h # p /\ task[h].msg # p /\ task[h].msg \in Pid
  BY <1>1 DEF Order, ExitsAreFollowed, AtExec, InPtraceStop, LifeInv, TasksAgree
<1>5. LeadersAgree'
  BY <1>2, <1>3, <1>4, TrackedIsPid DEF Tables, LeadersAgree, Present, AtExec, InPtraceStop
<1>6. TablesFollowGroups'
  <2> SUFFICES ASSUME NEW q \in Tracked \ {p}, NEW r \in Tracked \ {p}, Present(q), Present(r)
               PROVE  ProcMap'[q] = ProcMap'[r] <=> task[q].grp = task[r].grp
    <3>1. \A q, r : {task'[q].st, task'[r].st} \cap {"unused", "gone"} = {} =>
                      Present(q) /\ Present(r)
      BY <1>2 DEF Present
    <3> QED  BY <1>2, <1>3, <3>1 DEF TablesFollowGroups
  <2> QED  BY <1>3, TablesOfPresent, TrackedIsPid DEF Tables
<1>7. TablesAreLed'
  <2> SUFFICES ASSUME NEW q \in Tracked \ {p}
               PROVE  \E l \in GroupLeaders \ {p} : ProcMap'[l] = ProcMap'[q]
    BY <1>3 DEF TablesAreLed
  <2>1. PICK l \in GroupLeaders : ProcMap[l] = ProcMap[q]
    BY DEF Tables, TablesAreLed
  <2>2. l # p
    BY <1>1, <2>1 DEF Tables, ExitedAreAlone
  <2> QED  BY <1>3, <2>1, <2>2, TrackedIsPid DEF TInv, ContextTyped
<1>8. ExitedAreAlone'
  BY <1>3 DEF ExitedAreAlone
<1> QED  BY <1>5, <1>6, <1>7, <1>8 DEF Tables

\* What the registration of a new task does to the maps: a thread gets the
\* table of its creator, a process one nobody has.
LEMMA HandleNewTaskMaps ==
  ASSUME TInv, LifeInv, ~Clone3, NEW p \in Pid, HandleNewTask(p),
         task[p].why # "exitevent"
  PROVE  LET child == ReportedPid(p)
         IN  /\ \A q \in Pid \ {child} : ProcMap'[q] = ProcMap[q]
             /\ IF task[p].why = "thread"
                THEN ProcMap'[child] = ProcMap[p] /\ GroupLeaders' = GroupLeaders
                ELSE /\ GroupLeaders' = GroupLeaders \cup {child}
                     /\ \A q \in Pid : ProcMap[q] # ProcMap'[child]
<1> DEFINE child == ReportedPid(p)
<1>1. task[p].why = cur.why /\ child \in Pid
  BY NewTaskAtHand DEF HandleNewTask
<1>2. PICK isThread \in CloneThreadBit :
        IF isThread THEN RegisterThread(p, child)
        ELSE child \notin Registered /\ RegisterProcess(p, child)
  BY DEF HandleNewTask
<1>3. isThread <=> cur.why = "thread"
  BY <1>2 DEF CloneThreadBit
<1> HIDE DEF child
<1>4. CASE isThread
  BY <1>1, <1>2, <1>3, <1>4 DEF RegisterThread, TInv, ContextTyped, child
<1>5. CASE ~isThread
  <2>1. NewProcState \in ProcState /\ \A q \in Pid : ProcMap[q] # NewProcState
    BY <1>2, <1>5, NewProcStateTyped DEF RegisterProcess
  <2> QED  BY <1>1, <1>2, <1>3, <1>5, <2>1 DEF RegisterProcess, TInv, ContextTyped, child
<1> QED  BY <1>4, <1>5

LEMMA HandleNewTaskTables ==
  ASSUME LifeAssumption, TInv, LifeInv, Order, Tables, NewAreMembers, ~Clone3,
         NEW p \in Pid, HandleNewTask(p), task[p].why # "exitevent"
  PROVE  Tables'
<1> DEFINE child == ReportedPid(p)
<1>1. Running /\ TasksAgree /\ GroupsAreLed
  BY StopAtHand DEF HandleNewTask
<1>2. /\ child \in Pid /\ Announces(p) /\ child \notin Tracked /\ Present(child) /\ child # p
      /\ ~AtExec(child) /\ p \in Tracked /\ Present(p)
  BY NewTaskAtHand DEF HandleNewTask, HandlingStop, Announces, Present, InPtraceStop
<1>3. Follows(p, child) /\ loop' = "wait" /\ Tracked' = Tracked \cup {child}
  BY HandleNewTaskFollows DEF Follows, Continue
<1>4. SameGroups
  BY HandlersKeepGroups DEF Handle
<1>5. /\ \A q \in Pid \ {child} : ProcMap'[q] = ProcMap[q]
      /\ IF task[p].why = "thread"
         THEN ProcMap'[child] = ProcMap[p] /\ GroupLeaders' = GroupLeaders
         ELSE /\ GroupLeaders' = GroupLeaders \cup {child}
              /\ \A q \in Pid : ProcMap[q] # ProcMap'[child]
  BY HandleNewTaskMaps
<1>6. /\ task[child].grp = IF task[p].why = "thread" THEN task[p].grp ELSE child
      /\ \A q \in Pid : task[q].grp = child => q = child
  <2>1. task[p].msg = child
    BY NewTaskAtHand DEF HandleNewTask
  <2> HIDE DEF child
  <2> QED  BY <1>2, <2>1 DEF NewAreMembers, Members
<1> HIDE DEF child
<1>7. child \notin GroupLeaders /\ task[p].grp # child
  BY <1>2, <1>6 DEF Tables, LeadersAgree
<1>8. \A h \in Pid : AtExec(h)' =>
        AtExec(h) /\ task'[h].msg = task[h].msg /\ task[h].msg \in Tracked /\ h # child
  BY <1>2, <1>4 DEF SameGroups, AtExec, Order, ExecutedAreFollowed
<1>9. LeadersAgree'
  <2>1. GroupLeaders' \subseteq Tracked'
    BY <1>3, <1>5 DEF Tables, LeadersAgree
  <2>2. ASSUME NEW q \in Tracked', Present(q)'
        PROVE  q \in GroupLeaders' <=> task'[q].grp = q
    <3>1. q \in Pid /\ Present(q) /\ task'[q].grp = task[q].grp
      BY <1>2, <1>3, <1>4, <2>2, TrackedIsPid DEF SameGroups
    <3>2. CASE q = child
      BY <1>5, <1>6, <1>7, <3>1, <3>2
    <3>3. CASE q # child
      BY <1>3, <1>5, <3>1, <3>3 DEF Tables, LeadersAgree
    <3> QED  BY <3>2, <3>3
  <2>3. ASSUME NEW h \in Pid, AtExec(h)', task'[h].msg # h
        PROVE  task'[h].msg \notin GroupLeaders' /\ ProcMap'[task'[h].msg] = ProcMap'[h]
    BY <1>2, <1>5, <1>8, <2>3, TrackedIsPid DEF Tables, LeadersAgree
  <2> QED  BY <2>1, <2>2, <2>3 DEF LeadersAgree
<1>10. TablesFollowGroups'
  <2> SUFFICES ASSUME NEW q \in Tracked', NEW r \in Tracked', Present(q)', Present(r)'
               PROVE  ProcMap'[q] = ProcMap'[r] <=> task'[q].grp = task'[r].grp
    BY DEF TablesFollowGroups, Present
  <2>1. /\ q \in Pid /\ Present(q) /\ task'[q].grp = task[q].grp
        /\ r \in Pid /\ Present(r) /\ task'[r].grp = task[r].grp
    BY <1>2, <1>3, <1>4, TrackedIsPid DEF SameGroups
  <2>2. \A x, y \in Tracked : Present(x) /\ Present(y) =>
          (ProcMap[x] = ProcMap[y] <=> task[x].grp = task[y].grp)
    BY TablesOfPresent DEF Tables
  <2>3. ASSUME NEW x \in Tracked, Present(x)
        PROVE  ProcMap'[x] = ProcMap'[child] <=> task[x].grp = task[child].grp
    <3>1. x \in Pid /\ x # child
      BY <1>2, TrackedIsPid
    <3> QED  BY <1>2, <1>5, <1>6, <2>2, <2>3, <3>1
  <2> QED  BY <1>2, <1>3, <1>5, <2>1, <2>2, <2>3
<1>11. TablesAreLed'
  <2> SUFFICES ASSUME NEW q \in Tracked'
               PROVE  \E l \in GroupLeaders' : ProcMap'[l] = ProcMap'[q]
    BY DEF TablesAreLed
  <2>1. \A x \in Tracked : \E l \in GroupLeaders : ProcMap[l] = ProcMap[x]
    BY DEF Tables, TablesAreLed
  <2>2. GroupLeaders \subseteq Pid /\ GroupLeaders \subseteq GroupLeaders'
    BY <1>5 DEF TInv, ContextTyped
  <2>3. \A l \in GroupLeaders : ProcMap'[l] = ProcMap[l]
    BY <1>5, <1>7, <2>2
  <2>4. CASE q # child
    BY <1>3, <1>5, <2>1, <2>2, <2>3, <2>4, TrackedIsPid
  <2>5. CASE q = child
    BY <1>2, <1>5, <2>1, <2>2, <2>3, <2>5
  <2> QED  BY <2>4, <2>5
<1>12. ExitedAreAlone'
  BY <1>3 DEF ExitedAreAlone
<1> QED  BY <1>9, <1>10, <1>11, <1>12 DEF Tables

\* An execve gives its process a table nobody has.
LEMMA HandleExecMaps ==
  ASSUME TInv, NEW p \in Pid, HandleExec(p)
  PROVE  /\ \A q \in Pid \ {p} : ProcMap'[q] = ProcMap[q]
         /\ GroupLeaders' = GroupLeaders \cup {p}
         /\ \A q \in Pid : ProcMap[q] # ProcMap'[p]
<1>1. RegisterExec(p)
  BY DEF HandleExec
<1>2. NewProcState \in ProcState /\ \A q \in Pid : ProcMap[q] # NewProcState
  BY <1>1, NewProcStateTyped DEF RegisterExec
<1>3. /\ ProcMap' = [ProcMap EXCEPT ![p] = NewProcState]
      /\ GroupLeaders' = GroupLeaders \cup {p}
  BY <1>1 DEF RegisterExec
<1> QED  BY <1>2, <1>3 DEF TInv, ContextTyped

LEMMA HandleExecTables ==
  ASSUME LifeAssumption, ~SuddenDeath, TInv, LifeInv, Order, Tables, ExecIsAlone,
         NEW p \in Pid, HandleExec(p), task[p].why # "exitevent"
  PROVE  Tables'
<1> DEFINE old == ReportedPid(p)
<1>1. Running /\ TasksAgree /\ ExecutedAreGone /\ cur.why # "exited"
  BY StopAtHand DEF HandleExec
<1>2. /\ old \in Pid /\ AtExec(p) /\ p \in Tracked /\ Present(p)
      /\ old = p \/ task[old].st = "gone"
  BY ExecAtHand, TrackedIsPid DEF HandleExec, HandlingStop, AtExec, InPtraceStop, Present
<1>3. /\ loop' = "wait" /\ Executes(p, old)
      /\ Tracked' = IF old = p THEN Tracked ELSE Tracked \ {old}
  BY HandleExecExecutes DEF Executes, Continue
<1>4. SameGroups
  BY HandlersKeepGroups DEF Handle
<1>5. /\ \A q \in Pid \ {p} : ProcMap'[q] = ProcMap[q]
      /\ GroupLeaders' = GroupLeaders \cup {p}
      /\ \A q \in Pid : ProcMap[q] # ProcMap'[p]
  BY HandleExecMaps
<1>6. \A q \in Pid : task[q].grp = p <=> q = p
  BY <1>2 DEF ExecIsAlone, Members
<1>7. task[p].msg = old
  BY ExecAtHand DEF HandleExec
<1> HIDE DEF old
<1>8. \A h \in Pid : AtExec(h)' =>
        /\ AtExec(h) /\ task'[h].msg = task[h].msg /\ task[h].msg \in Pid
        /\ h # p /\ (task[h].msg = h \/ task[h].msg # p)
  <2>1. ~AtExec(p)'
    BY <1>2, <1>3 DEF Executes, RestartOf, AtExec, InPtraceStop
  <2>2. ASSUME NEW h \in Pid, AtExec(h), task[h].msg # h PROVE task[h].msg # p
    BY <1>1, <1>2, <2>2 DEF ExecutedAreGone, Present
  <2> QED  BY <1>1, <1>4, <2>1, <2>2 DEF SameGroups, AtExec, TasksAgree
<1>9. old # p => old \notin GroupLeaders
  BY <1>2, <1>7 DEF Tables, LeadersAgree
<1>10. LeadersAgree'
  <2>1. GroupLeaders' \subseteq Tracked'
    BY <1>2, <1>3, <1>5, <1>9 DEF Tables, LeadersAgree
  <2>2. ASSUME NEW q \in Tracked', Present(q)'
        PROVE  q \in GroupLeaders' <=> task'[q].grp = q
    <3>1. q \in Tracked /\ q \in Pid /\ Present(q) /\ task'[q].grp = task[q].grp
      BY <1>3, <1>4, <2>2, TrackedIsPid DEF SameGroups
    <3> QED  BY <1>5, <1>6, <3>1 DEF Tables, LeadersAgree
  <2>3. ASSUME NEW h \in Pid, AtExec(h)', task'[h].msg # h
        PROVE  task'[h].msg \notin GroupLeaders' /\ ProcMap'[task'[h].msg] = ProcMap'[h]
    <3>1. /\ AtExec(h) /\ task'[h].msg = task[h].msg /\ task[h].msg \in Pid
          /\ h # p /\ task[h].msg # p /\ task[h].msg # h
      BY <1>8, <2>3
    <3> QED  BY <1>5, <3>1 DEF Tables, LeadersAgree
  <2> QED  BY <2>1, <2>2, <2>3 DEF LeadersAgree
<1>11. \A x, y \in Tracked : Present(x) /\ Present(y) =>
         (ProcMap[x] = ProcMap[y] <=> task[x].grp = task[y].grp)
  BY TablesOfPresent DEF Tables
<1>12. TablesFollowGroups'
  <2> SUFFICES ASSUME NEW q \in Tracked', NEW r \in Tracked', Present(q)', Present(r)'
               PROVE  ProcMap'[q] = ProcMap'[r] <=> task'[q].grp = task'[r].grp
    BY DEF TablesFollowGroups, Present
  <2>1. /\ q \in Tracked /\ q \in Pid /\ Present(q) /\ task'[q].grp = task[q].grp
        /\ r \in Tracked /\ r \in Pid /\ Present(r) /\ task'[r].grp = task[r].grp
    BY <1>3, <1>4, TrackedIsPid DEF SameGroups
  <2> QED  BY <1>5, <1>6, <1>11, <2>1
<1>13. TablesAreLed'
  <2> SUFFICES ASSUME NEW q \in Tracked'
               PROVE  \E l \in GroupLeaders' : ProcMap'[l] = ProcMap'[q]
    BY DEF TablesAreLed
  <2>1. CASE q = p
    BY <1>5, <2>1
  <2>2. CASE q # p
    <3>1. q \in Tracked /\ q \in Pid /\ (old # p => q # old)
      BY <1>3, TrackedIsPid
    <3>2. PICK l \in GroupLeaders : ProcMap[l] = ProcMap[q]
      BY <3>1 DEF Tables, TablesAreLed
    <3>3. l # p
      <4> SUFFICES ASSUME ProcMap[q] = ProcMap[p] PROVE FALSE
        BY <3>2
      <4>1. \A r \in Tracked : Present(r) /\ ProcMap[r] = ProcMap[p] => r = p
        BY <1>2, <1>6, <1>11, TrackedIsPid
      <4>2. ~Present(q)
        BY <2>2, <3>1, <4>1
      <4>3. PICK h \in Pid : AtExec(h) /\ task[h].msg = q
        BY <1>1, <3>1, <4>2 DEF Running, TrackedAreThere, Present
      <4>4. h # q /\ h \in Tracked /\ Present(h)
        BY <1>1, <4>2, <4>3, FollowedTasks DEF Running, AtExec, InPtraceStop, Present
      <4>5. ProcMap[q] = ProcMap[h]
        BY <4>3, <4>4 DEF Tables, LeadersAgree
      <4>6. h = p
        BY <4>1, <4>4, <4>5
      <4> QED  BY <1>7, <3>1, <4>3, <4>4, <4>6
    <3>4. l \in Pid
      BY DEF TInv, ContextTyped
    <3> QED  BY <1>5, <2>2, <3>1, <3>2, <3>3, <3>4
  <2> QED  BY <2>1, <2>2
<1>14. ExitedAreAlone'
  BY <1>3 DEF ExitedAreAlone
<1> QED  BY <1>10, <1>12, <1>13, <1>14 DEF Tables

\* The other handlers leave the maps of the context as they are.
LEMMA QuietTables ==
  ASSUME LifeAssumption, TInv, LifeInv, Tables, NEW p \in Pid,
         \/ HandleNewThread(p) \/ HandleDeadTask(p)
         \/ HandleSeccompV1(p) \/ HandleEntry(p) \/ HandleSyscallExit(p)
         \/ HandleOtherStop(p)
  PROVE  Tables'
<1>1. UNCHANGED <<ProcMap, GroupLeaders>> /\ Tracked' = Tracked /\ loop' = "wait"
  <2>1. CASE HandleNewThread(p)
    BY <2>1 DEF HandleNewThread, contextVars, Tracked, Continue
  <2>2. CASE ~HandleNewThread(p)
    BY <2>2, HandlersRunOn, HandlersRegister DEF RunsOn, Continue
  <2> QED  BY <2>1, <2>2
<1>2. SameGroups /\ TasksAgree
  <2>1. Handle(p)
    BY DEF Handle, HandleSyscallEntry, HandleEntry
  <2> QED  BY <2>1, HandlersKeepGroups DEF LifeInv
<1>3. \A h \in Pid : AtExec(h)' => AtExec(h) /\ task'[h].msg = task[h].msg
  BY <1>2 DEF SameGroups, AtExec
<1>4. ExitedAreAlone'
  BY <1>1 DEF ExitedAreAlone
<1>5. \A q \in Tracked : Present(q)' => Present(q) /\ task'[q].grp = task[q].grp
  BY <1>2, TrackedIsPid DEF SameGroups
<1> QED  BY <1>1, <1>3, <1>4, <1>5, SameMapsTables DEF Tables, LeadersAgree

TablesInv == LoopRuns /\ ~SuddenDeath /\ ~Clone3 => Tables

LEMMA NextTables ==
  ASSUME LifeAssumption, TInv, LifeInv, OrderInv, MembersInv, TablesInv, [Next]_vars
  PROVE  TablesInv'
<1> SUFFICES ASSUME LoopRuns', ~SuddenDeath, ~Clone3 PROVE Tables'
  BY DEF TablesInv
<1>1. /\ Tables /\ Order /\ ExecIsAlone /\ NewAreMembers
      /\ loop' \in {"wait", "handle"}
  BY LoopRan DEF TablesInv, OrderInv, Order, MembersInv, LoopRuns
<1>2. ASSUME NEW p \in Pid, Handle(p)
      PROVE  Tables'
  <2>1. CASE HandleExit(p)
    <3>1. ~ReturnsAt(p)
      BY <1>1, <2>1 DEF HandleExit, ReturnFromLoop
    <3> QED  BY <1>1, <2>1, <3>1, HandleExitTables
  <2>2. ~HandleInsaneEntry(p) /\ ~AssertFails(p)
    BY <1>1 DEF HandleInsaneEntry, ReturnFromLoop, AssertFails
  <2> QED
    BY <1>1, <1>2, <2>1, <2>2, EventsAreRead, HandleNewTaskTables, HandleExecTables,
       QuietTables
    DEF Handle, HandleSyscallEntry
<1>3. CASE UNCHANGED vars
  BY <1>1, <1>3 DEF vars, contextVars, tracerVars, Tables, LeadersAgree, TablesFollowGroups,
     ExitedAreAlone, TablesAreLed, Tracked, Present, AtExec, InPtraceStop
<1>4. ~LastChildGone /\ ~Report /\ \A p \in Pid : ~Post(p)
  BY <1>1 DEF LastChildGone, ReturnFromLoop, Report, Post, tracerVars
<1> QED
  BY <1>1, <1>2, <1>3, <1>4, KernelTables, WaitTables DEF Next, Terminated

LEMMA TablesInvariant == LifeAssumption => (Spec => []TablesInv)
<1> SUFFICES ASSUME LifeAssumption PROVE Spec => []TablesInv
  OBVIOUS
<1>1. Init => TablesInv
  <2> SUFFICES ASSUME Init PROVE Tables
    BY DEF TablesInv
  <2>1. /\ GroupLeaders = {TraceePid} /\ Tracked = {TraceePid} /\ TraceePid \in Pid
        /\ loop = "wait" /\ task[TraceePid].grp = TraceePid
    <3>1. GroupLeaders = {TraceePid}
      BY DEF Init, RegisterTracee
    <3>2. Tracked = {TraceePid} /\ TraceePid \in Pid /\ loop = "wait"
      BY TraceeIsTask DEF Init, Tracked
    <3>3. task[TraceePid].grp = TraceePid
      BY <3>2 DEF Init, TasksInit, Unused
    <3> QED  BY <3>1, <3>2, <3>3
  <2>2. \A p \in Pid : ~AtExec(p)
    BY DEF Init, TasksInit, Unused, AtExec
  <2> QED
    BY <2>1, <2>2 DEF Tables, LeadersAgree, TablesFollowGroups, ExitedAreAlone, TablesAreLed
<1>2. /\ TInv /\ LifeInv /\ OrderInv /\ MembersInv /\ TablesInv
      /\ [Next]_vars
      => TablesInv'
  BY NextTables
<1> QED
  BY <1>1, <1>2, StatusKnown, LifeInvariant, OrderInvariant, MembersInvariant, PTL DEF Spec

\* The invariant of the groups as TracerLife states it.
LEMMA GroupInvariant == LifeAssumption => (Spec => []GroupInv)
<1> SUFFICES ASSUME LifeAssumption PROVE Spec => []GroupInv
  OBVIOUS
<1>1. MembersInv /\ TablesInv => GroupInv
  BY DEF MembersInv, TablesInv, Tables, GroupInv
<1> QED  BY <1>1, MembersInvariant, TablesInvariant, PTL

\* Two threads that are followed share a table of open files if and only if
\* the kernel has them in one thread group, whatever the order of the events,
\* unless events are lost or clone3 hides its flags.
THEOREM TablesAreOfGroups ==
  LifeAssumption /\ ~SuddenDeath /\ ~Clone3 => (Spec => []TablesFollowGroups)
<1> SUFFICES ASSUME LifeAssumption, ~SuddenDeath, ~Clone3
             PROVE  Spec => []TablesFollowGroups
  OBVIOUS
<1>1. TInv /\ KInv /\ NoAssertFails /\ TablesInv => TablesFollowGroups
  <2>1. TInv /\ NoAssertFails => LoopRuns \/ loop \in {"post", "done"}
    BY DEF TInv, LoopTyped, NoAssertFails, LoopRuns
  <2>2. KInv /\ loop \in {"post", "done"} => TablesFollowGroups
    BY DEF KInv, NothingFollowed, TablesFollowGroups
  <2> QED  BY <2>1, <2>2 DEF TablesInv, Tables
<1> QED
  BY <1>1, StatusKnown, KnownInvariant, AssertionsHold, TablesInvariant, PTL

LEMMA OneLeader ==
  ASSUME ~SuddenDeath, TInv, LifeInv, Order, Tables, LoopRuns, NEW p \in Tracked
  PROVE  \E l : {x \in GroupLeaders : ProcMap[x] = ProcMap[p]} = {l}
<1>1. PICK l \in GroupLeaders : ProcMap[l] = ProcMap[p]
  BY DEF Tables, TablesAreLed
<1>2. Running
  BY RunsInv
<1>3. ASSUME NEW x \in GroupLeaders, NEW y \in GroupLeaders, ProcMap[x] = ProcMap[y]
      PROVE  x = y
  <2>1. x \in Tracked /\ y \in Tracked /\ x \in Pid /\ y \in Pid
    BY TrackedIsPid DEF Tables, LeadersAgree
  <2>2. ASSUME NEW z \in GroupLeaders, ~Present(z)
        PROVE  \A q \in Tracked : ProcMap[q] = ProcMap[z] => q = z
    <3>1. z \in Tracked /\ z \in Pid
      BY TrackedIsPid DEF Tables, LeadersAgree
    <3>2. \A h \in Pid : AtExec(h) => task[h].msg # z
      BY <2>2 DEF Tables, LeadersAgree, AtExec, InPtraceStop, Present
    <3>3. AtHand(z) /\ cur.why = "exited"
      BY <1>2, <2>2, <3>1, <3>2 DEF Running, TrackedAreThere, Present
    <3> QED  BY <3>3 DEF Tables, ExitedAreAlone, AtHand
  <2>3. CASE Present(x) /\ Present(y)
    BY <1>3, <2>1, <2>3, TablesOfPresent DEF Tables, LeadersAgree
  <2> QED  BY <1>3, <2>1, <2>2, <2>3
<1> QED  BY <1>1, <1>3

\* The table of every thread that is followed belongs to exactly one group
\* leader, so that VanishProcess records its files, and records them once.
THEOREM TablesHaveOneLeader ==
  LifeAssumption /\ ~SuddenDeath /\ ~Clone3 => (Spec => []OneLeaderPerTable)
<1> SUFFICES ASSUME LifeAssumption, ~SuddenDeath, ~Clone3
             PROVE  Spec => []OneLeaderPerTable
  OBVIOUS
<1>1. TInv /\ KInv /\ NoAssertFails /\ LifeInv /\ OrderInv /\ TablesInv => OneLeaderPerTable
  <2>1. TInv /\ NoAssertFails => LoopRuns \/ loop \in {"post", "done"}
    BY DEF TInv, LoopTyped, NoAssertFails, LoopRuns
  <2>2. KInv /\ loop \in {"post", "done"} => OneLeaderPerTable
    BY DEF KInv, NothingFollowed, OneLeaderPerTable
  <2>3. ASSUME TInv, LifeInv, OrderInv, TablesInv, LoopRuns, NEW p \in Tracked
        PROVE  Cardinality({l \in GroupLeaders : ProcMap[l] = ProcMap[p]}) = 1
    <3>1. Order /\ Tables
      BY <2>3 DEF OrderInv, Order, TablesInv
    <3>2. PICK l : {x \in GroupLeaders : ProcMap[x] = ProcMap[p]} = {l}
      BY <2>3, <3>1, OneLeader
    <3> QED  BY <3>2, FS_Singleton
  <2> QED  BY <2>1, <2>2, <2>3 DEF OneLeaderPerTable
<1> QED
  BY <1>1, StatusKnown, KnownInvariant, AssertionsHold, LifeInvariant, OrderInvariant,
     TablesInvariant, PTL
------------------------------------------------------------------------------
(* System calls *)

\* A thread that is not the leader executes a program only where no call stops
\* but at its seccomp event and its exit.
PhaseAssumption == ThreadExec => CallsStopOnce

\* A change of a task that says nothing new of where in a call it is.
PhaseStep(old, new) ==
  /\ CallAgrees(new)
  /\ InsideCall(new) => InsideCall(old)
  /\ OutsideCall(new) => OutsideCall(old)

LEMMA PhaseStays ==
  ASSUME NEW t, CallAgrees(t)
  PROVE  PhaseStep(t, t)
BY DEF PhaseStep

\* Whoever is on the way out is in no call.
LEMMA DyingPhase ==
  ASSUME NEW old, NEW new, new.call = "user",
         \/ new.st \in {"dead", "gone"} /\ new.why = "none"
         \/ new.st = "stopped" /\ new.why = "exitevent"
  PROVE  PhaseStep(old, new)
BY DEF PhaseStep, CallAgrees, InsideCall, OutsideCall, NewTaskEvent

LEMMA OnePhase ==
  ASSUME task \in [Pid -> Task], CallsAgree, NEW p \in Pid, NEW new,
         task' = [task EXCEPT ![p] = new], PhaseStep(task[p], new)
  PROVE  \A q \in Pid : PhaseStep(task[q], task'[q])
BY PhaseStays DEF CallsAgree

LEMMA EnterPhase ==
  ASSUME Sound(task), CallsAgree, NEW p \in Pid,
         EnterIo(p) \/ SecondStop(p) \/ EnterOther(p)
  PROVE  \A q \in Pid : PhaseStep(task[q], task'[q])
<1> DEFINE entered(why, call) == [task[p] EXCEPT !.st = "stopped", !.why = why, !.call = call]
<1>1. task \in [Pid -> Task] /\ task[p] \in Task /\ CallAgrees(task[p])
  BY DEF Sound, CallsAgree
<1>2. \A why, call : /\ entered(why, call).st = "stopped" /\ entered(why, call).why = why
                     /\ entered(why, call).call = call
  BY <1>1 DEF Task
<1>3. \A why, call : [Stop(p, why) EXCEPT ![p].call = call]
                       = [task EXCEPT ![p] = entered(why, call)]
  BY <1>1 DEF Stop
<1> HIDE DEF entered
<1>4. ASSUME NEW why, NEW call, task' = [Stop(p, why) EXCEPT ![p].call = call],
             PhaseStep(task[p], entered(why, call))
      PROVE  \A q \in Pid : PhaseStep(task[q], task'[q])
  <2>1. task' = [task EXCEPT ![p] = entered(why, call)]
    BY <1>3, <1>4
  <2> QED  BY <1>1, <1>4, <2>1, OnePhase
<1> USE DEF PhaseStep, CallAgrees, InsideCall, OutsideCall, NewTaskEvent, CallsStopOnce
<1>5. CASE EnterIo(p)
  <2>1. task[p].st = "running" /\ task[p].call = "user" /\ (task[p].trace <=> ~UseSecComp)
    BY <1>1, <1>5 DEF EnterIo
  <2>2. CASE ~UseSecComp
    <3>1. task' = [Stop(p, "entry") EXCEPT ![p].call = "io"]
      BY <1>5, <2>2 DEF EnterIo
    <3>2. PhaseStep(task[p], entered("entry", "io"))
      BY <1>1, <1>2, <2>1, <2>2
    <3> QED  BY <1>4, <3>1, <3>2
  <2>3. CASE UseSecComp /\ SecCompV1
    <3>1. task' = [Stop(p, "seccomp") EXCEPT ![p].call = "filter"]
      BY <1>5, <2>3 DEF EnterIo
    <3>2. PhaseStep(task[p], entered("seccomp", "filter"))
      BY <1>1, <1>2, <2>1, <2>3
    <3> QED  BY <1>4, <3>1, <3>2
  <2>4. CASE UseSecComp /\ ~SecCompV1
    <3>1. task' = [Stop(p, "seccomp") EXCEPT ![p].call = "io"]
      BY <1>5, <2>1, <2>4 DEF EnterIo
    <3>2. PhaseStep(task[p], entered("seccomp", "io"))
      BY <1>1, <1>2, <2>1, <2>4
    <3> QED  BY <1>4, <3>1, <3>2
  <2> QED  BY <2>2, <2>3, <2>4
<1>6. CASE SecondStop(p)
  <2>1. task[p].st = "running" /\ task[p].call = "filter" /\ task[p].trace
        /\ UseSecComp /\ SecCompV1
    BY <1>1, <1>6 DEF SecondStop
  <2>2. task' = [Stop(p, "entry") EXCEPT ![p].call = "io"]
    BY <1>6, <2>1 DEF SecondStop
  <2>3. PhaseStep(task[p], entered("entry", "io"))
    BY <1>1, <1>2, <2>1
  <2> QED  BY <1>4, <2>2, <2>3
<1>7. CASE EnterOther(p)
  <2>1. task[p].st = "running" /\ task[p].call = "user" /\ task[p].trace /\ ~UseSecComp
    BY <1>1, <1>7 DEF EnterOther
  <2>2. task' = [Stop(p, "entry") EXCEPT ![p].call = "life"]
    BY <1>7 DEF EnterOther
  <2>3. PhaseStep(task[p], entered("entry", "life"))
    BY <1>1, <1>2, <2>1
  <2> QED  BY <1>4, <2>2, <2>3
<1> QED  BY <1>5, <1>6, <1>7

LEMMA LeavePhase ==
  ASSUME Sound(task), CallsAgree, NEW p \in Pid,
         Return(p) \/ Signal(p) \/ \E code \in Codes : ThreadExit(p, code)
  PROVE  \A q \in Pid : PhaseStep(task[q], task'[q])
<1>1. task \in [Pid -> Task] /\ task[p] \in Task /\ CallAgrees(task[p])
  BY DEF Sound, CallsAgree
<1>2. CASE Return(p)
  <2> DEFINE new == [task[p] EXCEPT !.st = "stopped", !.why = "exit", !.call = "user"]
  <2>1. task[p].st = "running" /\ task[p].call \in {"io", "life"} /\ task[p].trace
    BY <1>1, <1>2 DEF Return, CallAgrees
  <2>2. new.st = "stopped" /\ new.why = "exit" /\ new.call = "user"
    BY <1>1 DEF Task
  <2>3. task' = [task EXCEPT ![p] = new]
    BY <1>1, <1>2, <2>1 DEF Return, Stop
  <2> HIDE DEF new
  <2>4. PhaseStep(task[p], new)
    BY <1>1, <2>1, <2>2 DEF PhaseStep, CallAgrees, InsideCall, OutsideCall, NewTaskEvent
  <2> QED  BY <1>1, <2>3, <2>4, OnePhase
<1>3. CASE Signal(p)
  <2> DEFINE new == [task[p] EXCEPT !.st = "stopped", !.why = "signal"]
  <2>1. task[p].st = "running" /\ task[p].call = "user"
    BY <1>3 DEF Signal
  <2>2. new.st = "stopped" /\ new.why = "signal" /\ new.call = task[p].call
    BY <1>1 DEF Task
  <2>3. task' = [task EXCEPT ![p] = new]
    BY <1>1, <1>3 DEF Signal, Stop
  <2> HIDE DEF new
  <2>4. PhaseStep(task[p], new)
    BY <1>1, <2>1, <2>2 DEF PhaseStep, CallAgrees, InsideCall, OutsideCall, NewTaskEvent
  <2> QED  BY <1>1, <2>3, <2>4, OnePhase
<1>4. ASSUME NEW code \in Codes, ThreadExit(p, code)
      PROVE  \A q \in Pid : PhaseStep(task[q], task'[q])
  <2> DEFINE new == [task[p] EXCEPT !.st = "stopped", !.why = "exitevent", !.call = "user",
                                    !.trace = FALSE, !.code = code]
  <2>1. new.st = "stopped" /\ new.why = "exitevent" /\ new.call = "user"
    BY <1>1 DEF Task
  <2>2. task' = [task EXCEPT ![p] = new]
    BY <1>1, <1>4 DEF ThreadExit, Stop
  <2> HIDE DEF new
  <2> QED  BY <1>1, <2>1, <2>2, DyingPhase, OnePhase
<1> QED  BY <1>2, <1>3, <1>4

\* What a call that creates a task or executes a program is in.
LEMMA InCallPhase ==
  ASSUME Sound(task), CallsAgree, NEW p \in Pid, InCall(p)
  PROVE  task[p].st = "running" /\ task[p].call = IF UseSecComp THEN "user" ELSE "life"
<1>1. CallAgrees(task[p])
  BY DEF CallsAgree
<1> QED  BY <1>1 DEF InCall, CallAgrees

LEMMA CreatePhase ==
  ASSUME Sound(task), CallsAgree, NEW p \in Pid, NEW c \in Pid \ {p}, NEW how \in Creates,
         Create(p, c, how)
  PROVE  /\ \A q \in Pid \ {c} : PhaseStep(task[q], task'[q])
         /\ CallAgrees(task'[c])
<1> DEFINE creator == [task[p] EXCEPT !.st = "stopped", !.why = how, !.msg = c]
           child == Newborn(IF how = "thread" THEN task[p].grp ELSE c)
<1>1. task \in [Pid -> Task] /\ task[p] \in Task /\ CallAgrees(task[p]) /\ how \in NewTaskEvent
  BY TasksAssumption DEF Sound, CallsAgree, NewTaskEvent
<1>2. creator.st = "stopped" /\ creator.why = how /\ creator.call = task[p].call
  BY <1>1 DEF Task
<1>3. child.st = "stopped" /\ child.why = "sigstop" /\ child.call = "user"
  BY DEF Newborn, Unused
<1>4. task' = [[task EXCEPT ![p] = creator] EXCEPT ![c] = child]
  BY <1>1 DEF Create, Stop
<1>5. task[p].st = "running" /\ task[p].call = IF UseSecComp THEN "user" ELSE "life"
  BY InCallPhase DEF Create
<1> HIDE DEF creator, child
<1>6. PhaseStep(task[p], creator)
  BY <1>1, <1>2, <1>5 DEF PhaseStep, CallAgrees, InsideCall, OutsideCall, NewTaskEvent
<1>7. CallAgrees(child)
  BY <1>3 DEF CallAgrees, NewTaskEvent
<1> QED  BY <1>1, <1>4, <1>6, <1>7, PhaseStays DEF CallsAgree

LEMMA KilledPhase ==
  ASSUME Sound(task), CallsAgree, NEW killed, NEW atExit, NEW code, NEW q \in Pid
  PROVE  LET t == Killed(task, killed, atExit, code)
         IN  /\ q \notin killed => t[q] = task[q]
             /\ q \in killed => PhaseStep(task[q], t[q])
<1> DEFINE new == [task[q] EXCEPT !.st = IF q \in atExit THEN "stopped" ELSE "dead",
                                  !.why = IF q \in atExit THEN "exitevent" ELSE "none",
                                  !.msg = None, !.call = "user", !.trace = FALSE, !.code = code]
<1>1. task[q] \in Task
  BY DEF Sound
<1>2. /\ new.call = "user"
      /\ \/ new.st = "dead" /\ new.why = "none"
         \/ new.st = "stopped" /\ new.why = "exitevent"
  BY <1>1 DEF Task
<1>3. /\ q \notin killed => Killed(task, killed, atExit, code)[q] = task[q]
      /\ q \in killed => Killed(task, killed, atExit, code)[q] = new
  BY DEF Killed
<1> HIDE DEF new
<1> QED  BY <1>2, <1>3, DyingPhase

LEMMA GroupExitPhase ==
  ASSUME Sound(task), CallsAgree, NEW g \in Pid, NEW code \in Codes, NEW atExit,
         GroupExit(g, code, atExit)
  PROVE  \A q \in Pid : PhaseStep(task[q], task'[q])
<1> DEFINE killed == {p \in Members(g) : Living(p)}
           t == Killed(task, killed, atExit, code)
<1>1. task' = [p \in Pid |-> IF task[p].st = "dead" /\ task[p].grp = g
                             THEN [task[p] EXCEPT !.code = code] ELSE t[p]]
  BY DEF GroupExit
<1> HIDE DEF killed
<1> SUFFICES ASSUME NEW q \in Pid PROVE PhaseStep(task[q], task'[q])
  OBVIOUS
<1>2. task[q] \in Task /\ CallAgrees(task[q])
  BY DEF Sound, CallsAgree
<1>3. PhaseStep(task[q], t[q])
  BY <1>2, KilledPhase, PhaseStays
<1> HIDE DEF t
<1>4. CASE task[q].st = "dead" /\ task[q].grp = g
  <2> DEFINE new == [task[q] EXCEPT !.code = code]
  <2>1. /\ new.st = task[q].st /\ new.why = task[q].why /\ new.call = task[q].call
        /\ new.trace = task[q].trace
    BY <1>2 DEF Task
  <2>2. task'[q] = new
    BY <1>1, <1>4
  <2> HIDE DEF new
  <2> QED  BY <1>2, <1>4, <2>1, <2>2 DEF PhaseStep, CallAgrees, InsideCall, OutsideCall
<1>5. CASE ~(task[q].st = "dead" /\ task[q].grp = g)
  BY <1>1, <1>3, <1>5
<1> QED  BY <1>4, <1>5

LEMMA BeginExecPhase ==
  ASSUME Sound(task), CallsAgree, NEW p \in Pid, NEW atExit, BeginExec(p, atExit)
  PROVE  \A q \in Pid : PhaseStep(task[q], task'[q])
<1> DEFINE killed == {q \in Members(task[p].grp) \ {p} : Living(q)}
           t == Killed(task, killed, atExit, KilledCode)
           new == [task[p] EXCEPT !.st = "execing"]
<1>1. task' = [t EXCEPT ![p].st = "execing"] /\ InCall(p) /\ p \notin killed /\ DOMAIN t = Pid
  BY DEF BeginExec, Killed
<1>2. task[p] \in Task /\ CallAgrees(task[p])
  BY DEF Sound, CallsAgree
<1> HIDE DEF killed
<1>3. t[p] = task[p]
  BY <1>1, KilledPhase
<1>4. \A q \in Pid : PhaseStep(task[q], t[q])
  BY KilledPhase, PhaseStays DEF CallsAgree
<1> HIDE DEF t
<1>5. task' = [t EXCEPT ![p] = new]
  BY <1>1, <1>3
<1>6. new.st = "execing" /\ new.why = task[p].why /\ new.call = task[p].call
  BY <1>2 DEF Task
<1>7. task[p].st = "running" /\ task[p].call = IF UseSecComp THEN "user" ELSE "life"
  BY <1>1, InCallPhase
<1> HIDE DEF new
<1>8. PhaseStep(task[p], new)
  BY <1>2, <1>6, <1>7 DEF PhaseStep, CallAgrees, InsideCall, OutsideCall, NewTaskEvent
<1> QED  BY <1>1, <1>4, <1>5, <1>8

LEMMA EndExecPhase ==
  ASSUME PhaseAssumption, Sound(task), TasksAgree, CallsAgree, NEW p \in Pid, EndExec(p)
  PROVE  \A q \in Pid : \/ PhaseStep(task[q], task'[q])
                        \/ /\ CallAgrees(task'[q])
                           /\ ~InsideCall(task'[q]) /\ ~OutsideCall(task'[q])
<1> DEFINE g == task[p].grp
           new == [task[p] EXCEPT !.st = "stopped", !.why = "exec", !.msg = p]
<1>1. task[p] \in Task /\ CallAgrees(task[p]) /\ task[p].st = "execing" /\ g \in Pid
      /\ task[p].why = "none"
  BY DEF Sound, CallsAgree, EndExec, TasksAgree, Present, InPtraceStop
<1>2. new.st = "stopped" /\ new.why = "exec" /\ new.call = task[p].call
  BY <1>1 DEF Task
<1>3. task' = [[task EXCEPT ![p] = Gone] EXCEPT ![g] = new]
  BY DEF EndExec
<1>4. PhaseStep(task[p], Gone)
  BY DyingPhase DEF Gone, Unused
<1>5. p # g => CallsStopOnce
  BY <1>1 DEF PhaseAssumption, TasksAgree
<1> HIDE DEF new
<1>6. PhaseStep(task[p], new)
  BY <1>1, <1>2 DEF PhaseStep, CallAgrees, InsideCall, OutsideCall, NewTaskEvent
<1>7. CallsStopOnce => CallAgrees(new) /\ ~InsideCall(new) /\ ~OutsideCall(new)
  BY <1>1, <1>2, <1>6
  DEF PhaseStep, CallAgrees, InsideCall, OutsideCall, NewTaskEvent, CallsStopOnce
<1>8. /\ task'[g] = new /\ (p # g => task'[p] = Gone)
      /\ \A q \in Pid \ {p, g} : task'[q] = task[q]
  BY <1>1, <1>3 DEF Sound
<1> QED  BY <1>4, <1>5, <1>6, <1>7, <1>8, PhaseStays DEF CallsAgree
\* Whatever the tasks do, the loop's states stay right: a task that begins a
\* call or leaves one stops, and its stop is still to be handled.
LEMMA TasksPhase ==
  ASSUME LifeAssumption, PhaseAssumption, TInv, LifeInv, CallsAgree, Kernel
  PROVE  /\ \A q \in Tracked : PhaseStep(task[q], task'[q])
         /\ \A q \in Pid : CallAgrees(task'[q])
<1>1. Underneath /\ Sound(task) /\ TasksAgree /\ Tracked \subseteq Pid
  BY TrackedIsPid DEF Kernel, Underneath, LoopRuns, tracerVars, TInv, LifeInv
<1> PICK p \in Pid :
      \/ EnterIo(p) \/ SecondStop(p) \/ EnterOther(p) \/ Return(p) \/ Signal(p)
      \/ \E c \in Pid \ {p}, how \in Creates : Create(p, c, how)
      \/ \E code \in Codes, atExit \in SUBSET Members(p) : GroupExit(p, code, atExit)
      \/ \E code \in Codes : ThreadExit(p, code)
      \/ \E atExit \in SUBSET Members(task[p].grp) : BeginExec(p, atExit)
      \/ EndExec(p)
  BY DEF Kernel, TasksNext
<1>2. ASSUME \A q \in Pid : PhaseStep(task[q], task'[q])
      PROVE  /\ \A q \in Tracked : PhaseStep(task[q], task'[q])
             /\ \A q \in Pid : CallAgrees(task'[q])
  BY <1>1, <1>2 DEF PhaseStep
<1>3. CASE EnterIo(p) \/ SecondStop(p) \/ EnterOther(p)
  BY <1>1, <1>2, <1>3, EnterPhase
<1>4. CASE Return(p) \/ Signal(p) \/ \E code \in Codes : ThreadExit(p, code)
  BY <1>1, <1>2, <1>4, LeavePhase
<1>5. ASSUME NEW c \in Pid \ {p}, NEW how \in Creates, Create(p, c, how)
      PROVE  /\ \A q \in Tracked : PhaseStep(task[q], task'[q])
             /\ \A q \in Pid : CallAgrees(task'[q])
  <2>1. Bears(p, c, how)
    BY <1>1, <1>5, CreateBears
  <2>2. c \notin Tracked
    BY <1>1, <2>1, AvailableIsFree
  <2>3. /\ \A q \in Pid \ {c} : PhaseStep(task[q], task'[q])
        /\ CallAgrees(task'[c])
    BY <1>1, <1>5, CreatePhase
  <2> QED  BY <1>1, <2>2, <2>3 DEF PhaseStep
<1>6. ASSUME NEW code \in Codes, NEW atExit, GroupExit(p, code, atExit)
      PROVE  \A q \in Pid : PhaseStep(task[q], task'[q])
  BY <1>1, <1>6, GroupExitPhase
<1>7. ASSUME NEW atExit, BeginExec(p, atExit)
      PROVE  \A q \in Pid : PhaseStep(task[q], task'[q])
  BY <1>1, <1>7, BeginExecPhase
<1>8. CASE EndExec(p)
  <2>1. \A q \in Pid : PhaseStep(task[q], task'[q])
    BY <1>1, <1>8, EndExecPhase DEF PhaseStep
  <2> QED  BY <1>2, <2>1
<1> QED  BY <1>2, <1>3, <1>4, <1>5, <1>6, <1>7, <1>8

\* The parts of PhaseInv that are about the tasks.
Phases == CallsAgree /\ StatesAgree /\ StopAgrees

LEMMA KernelPhase ==
  ASSUME LifeAssumption, PhaseAssumption, TInv, LifeInv, Phases, Kernel
  PROVE  Phases'
<1>1. /\ \A q \in Tracked : PhaseStep(task[q], task'[q])
      /\ \A q \in Pid : CallAgrees(task'[q])
  BY TasksPhase DEF Phases
<1>2. /\ Tracked' = Tracked /\ loop' = loop /\ cur' = cur
      /\ syscallStateMap' = syscallStateMap
  BY DEF Kernel, tracerVars, Tracked
<1>3. CallsAgree'
  BY <1>1 DEF CallsAgree
<1>4. StatesAgree'
  BY <1>1, <1>2 DEF Phases, StatesAgree, PhaseStep
<1>5. StopAgrees'
  BY <1>2 DEF Phases, StopAgrees
<1> QED  BY <1>3, <1>4, <1>5 DEF Phases

LEMMA WaitPhase ==
  ASSUME TInv, Phases, NEW p \in Pid, Wait(p)
  PROVE  Phases'
<1>1. /\ Tracked' = Tracked /\ loop' = "handle" /\ syscallStateMap' = syscallStateMap
      /\ Tracked \subseteq Pid /\ task \in [Pid -> Task] /\ task[p] \in Task
      /\ CallsAgree /\ CallAgrees(task[p])
  BY TrackedIsPid DEF Wait, Tracked, TInv, Sound, Phases, CallsAgree
<1>2. ASSUME \A q \in Pid : PhaseStep(task[q], task'[q])
      PROVE  CallsAgree' /\ StatesAgree'
  <2>1. CallsAgree'
    BY <1>2 DEF CallsAgree, PhaseStep
  <2>2. StatesAgree'
    BY <1>1, <1>2 DEF Phases, StatesAgree, PhaseStep
  <2> QED  BY <2>1, <2>2
<1>3. CASE /\ task[p].st = "stopped"
           /\ task' = [task EXCEPT ![p].st = "reported"]
           /\ cur' = [pid |-> p, why |-> task[p].why, code |-> None]
  <2> DEFINE new == [task[p] EXCEPT !.st = "reported"]
  <2>1. new.st = "reported" /\ new.why = task[p].why /\ new.call = task[p].call
    BY <1>1 DEF Task
  <2>2. task' = [task EXCEPT ![p] = new]
    BY <1>3
  <2> HIDE DEF new
  <2>3. PhaseStep(task[p], new)
    BY <1>1, <1>3, <2>1 DEF PhaseStep, CallAgrees, InsideCall, OutsideCall
  <2>4. CallsAgree' /\ StatesAgree'
    BY <1>1, <1>2, <2>2, <2>3, OnePhase
  <2>5. StopAgrees'
    BY <1>1, <1>3 DEF Phases, StatesAgree, InsideCall, OutsideCall, StopAgrees
  <2> QED  BY <2>4, <2>5 DEF Phases
<1>4. CASE /\ task' = [task EXCEPT ![p] = Gone]
           /\ cur' = [pid |-> p, why |-> "exited", code |-> task[p].code]
  <2>1. PhaseStep(task[p], Gone)
    BY DyingPhase DEF Gone, Unused
  <2>2. CallsAgree' /\ StatesAgree'
    BY <1>1, <1>2, <1>4, <2>1, OnePhase
  <2>3. StopAgrees'
    BY <1>4 DEF StopAgrees
  <2> QED  BY <2>2, <2>3 DEF Phases
<1> QED  BY <1>3, <1>4 DEF Wait
\* What a restart makes of a task, seen from its system calls.
RunOf(old, new, trace) ==
  /\ new.call = old.call
  /\ IF old.st \notin {"stopped", "reported"} THEN new = old
     ELSE \/ old.why = "exitevent" /\ new.st = "dead" /\ new.why = "none"
          \/ old.why = "sigstop" /\ new.st = "stopped" /\ new.why = "groupstop"
          \/ /\ old.why # "exitevent" /\ new.st = "running" /\ new.why = "none"
             /\ new.trace = trace

LEMMA RestartRuns ==
  ASSUME NEW t, Sound(t), NEW p \in Pid, NEW trace, NEW sigstop
  PROVE  LET r == Restarted(t, p, trace, sigstop)
         IN  RunOf(t[p], r[p], trace) /\ \A q \in Pid \ {p} : r[q] = t[q]
<1>1. t \in [Pid -> Task] /\ t[p] \in Task
  BY DEF Sound
<1> DEFINE dead == [t[p] EXCEPT !.st = "dead", !.why = "none"]
           again == [t[p] EXCEPT !.st = "stopped", !.why = "groupstop", !.trace = trace]
           on == [t[p] EXCEPT !.st = "running", !.why = "none", !.msg = None,
                              !.trace = trace]
<1>2. /\ dead.st = "dead" /\ dead.why = "none" /\ dead.call = t[p].call
      /\ again.st = "stopped" /\ again.why = "groupstop" /\ again.call = t[p].call
      /\ on.st = "running" /\ on.why = "none" /\ on.call = t[p].call /\ on.trace = trace
  BY <1>1 DEF Task
<1>3. CASE t[p].st \notin {"stopped", "reported"}
  BY <1>3 DEF Restarted, RunOf
<1>4. CASE t[p].st \in {"stopped", "reported"} /\ t[p].why = "exitevent"
  <2>1. Restarted(t, p, trace, sigstop) = [t EXCEPT ![p] = dead]
    BY <1>4 DEF Restarted
  <2> HIDE DEF dead, again, on
  <2> QED  BY <1>1, <1>2, <1>4, <2>1 DEF RunOf
<1>5. CASE t[p].st \in {"stopped", "reported"} /\ t[p].why = "sigstop" /\ sigstop
  <2>1. Restarted(t, p, trace, sigstop) = [t EXCEPT ![p] = again]
    BY <1>5 DEF Restarted
  <2> HIDE DEF dead, again, on
  <2> QED  BY <1>1, <1>2, <1>5, <2>1 DEF RunOf
<1>6. CASE /\ t[p].st \in {"stopped", "reported"} /\ t[p].why # "exitevent"
           /\ ~(t[p].why = "sigstop" /\ sigstop)
  <2>1. Restarted(t, p, trace, sigstop) = [t EXCEPT ![p] = on]
    BY <1>6 DEF Restarted
  <2> HIDE DEF dead, again, on
  <2> QED  BY <1>1, <1>2, <1>6, <2>1 DEF RunOf
<1> QED  BY <1>3, <1>4, <1>5, <1>6

\* In which state a task at a stop has to be restarted, and how.
Restartable(t, trace, state) ==
  t.st \in {"stopped", "reported"} /\ t.why # "exitevent" =>
    /\ trace <=> ~UseSecComp \/ t.call # "user"
    /\ t.call \in {"io", "life"} => state = "in"
    /\ ~CallsStopOnce /\ t.call \in {"user", "filter"} => state # "in"

LEMMA RunPhase ==
  ASSUME NEW old, NEW new, NEW trace, NEW state, CallAgrees(old), RunOf(old, new, trace),
         Restartable(old, trace, state),
         old.st \in {"stopped", "reported"} \/ (old.st = "dead" /\ old.why = "none")
  PROVE  /\ CallAgrees(new)
         /\ InsideCall(new) => state = "in"
         /\ OutsideCall(new) => state # "in"
<1> USE DEF CallAgrees, InsideCall, OutsideCall, NewTaskEvent
<1>1. CASE old.st \notin {"stopped", "reported"}
  BY <1>1 DEF RunOf
<1>2. CASE old.st \in {"stopped", "reported"} /\ new.st = "dead" /\ new.why = "none"
  BY <1>2 DEF RunOf
<1>3. CASE /\ old.st \in {"stopped", "reported"} /\ old.why = "sigstop"
           /\ new.st = "stopped" /\ new.why = "groupstop"
  BY <1>3 DEF RunOf, Restartable
<1>4. CASE /\ old.st \in {"stopped", "reported"} /\ old.why # "exitevent"
           /\ new.st = "running" /\ new.why = "none" /\ new.trace = trace
  BY <1>4 DEF RunOf, Restartable
<1> QED  BY <1>1, <1>2, <1>3, <1>4 DEF RunOf

\* A handler that restarts p and keeps a state of it.
LEMMA HandlerPhase ==
  ASSUME TInv, LifeInv, Phases, NEW p \in Pid, HandlingStop(p), Continue,
         NEW trace \in BOOLEAN, NEW sigstop, task' = Restarted(task, p, trace, sigstop),
         NEW state \in {"undefined", "in"}, Restartable(task[p], trace, state),
         syscallStateMap' = [syscallStateMap EXCEPT ![p] = state]
  PROVE  Phases'
<1>1. /\ Tracked' = Tracked /\ loop' = "wait" /\ p \in Tracked /\ Tracked \subseteq Pid
      /\ syscallStateMap'[p] = state
      /\ \A q \in Pid \ {p} : syscallStateMap'[q] = syscallStateMap[q]
  BY TrackedIsPid DEF HandlingStop, Continue, Tracked, TInv, LoopTyped
<1>2. RunOf(task[p], task'[p], trace) /\ \A q \in Pid \ {p} : task'[q] = task[q]
  BY RestartRuns DEF TInv
<1>3. \A q \in Pid : CallAgrees(task[q])
  BY DEF Phases, CallsAgree
<1>4. \/ task[p].st \in {"stopped", "reported"}
      \/ task[p].st = "dead" /\ task[p].why = "none"
  BY RunsInv DEF Running, EventIsCurrent, TasksAgree, InPtraceStop, HandlingStop, Handling,
     LoopRuns
<1>5. /\ CallAgrees(task'[p])
      /\ InsideCall(task'[p]) => state = "in"
      /\ OutsideCall(task'[p]) => state # "in"
  BY <1>2, <1>3, <1>4, RunPhase
<1>6. CallsAgree'
  BY <1>2, <1>3, <1>5 DEF CallsAgree
<1>7. StatesAgree'
  BY <1>1, <1>2, <1>5 DEF Phases, StatesAgree
<1>8. StopAgrees'
  BY <1>1 DEF StopAgrees
<1> QED  BY <1>6, <1>7, <1>8 DEF Phases
\* The same where the restart is the one at the end of the loop.
TracesLast(s) ==
  ~UseSecComp \/ (cur.why \in {"entry", "exit", "seccomp"} /\ s # "undefined")

LEMMA RestartLastPhase ==
  ASSUME TInv, LifeInv, Phases, NEW p \in Pid, HandlingStop(p), Continue,
         NEW s, task' = RestartLast(task, p, s), NEW state \in {"undefined", "in"},
         Restartable(task[p], TracesLast(s), state),
         syscallStateMap' = [syscallStateMap EXCEPT ![p] = state]
  PROVE  Phases'
<1> DEFINE trace == TracesLast(s)
           sigstop == cur.why \in {"sigstop", "groupstop"}
<1>1. trace \in BOOLEAN /\ task' = Restarted(task, p, trace, sigstop)
      /\ Restartable(task[p], trace, state)
  BY DEF RestartLast, TracesLast
<1> HIDE DEF trace, sigstop
<1> QED  BY <1>1, HandlerPhase

\* The state of a task that is followed, written back as it is.
LEMMA SameState ==
  ASSUME TInv, NEW p \in Tracked
  PROVE  /\ syscallStateMap = [syscallStateMap EXCEPT ![p] = syscallStateMap[p]]
         /\ syscallStateMap[p] \in {"undefined", "in"}
BY DEF TInv, LoopTyped, Tracked

\* What is known of the task whose stop is at hand.
LEMMA PhaseAtHand ==
  ASSUME TInv, LifeInv, Phases, NEW p \in Pid, HandlingStop(p), InPtraceStop(p),
         task[p].why # "exitevent"
  PROVE  /\ task[p].why = cur.why
         /\ CallAgrees(task[p])
         /\ InsideCall(task[p]) => syscallStateMap[p] = "in"
         /\ OutsideCall(task[p]) => syscallStateMap[p] # "in"
         /\ cur.why = "entry" => syscallStateMap[p] # "in"
<1>1. task[p].why = cur.why
  BY StopAtHand DEF Reachable
<1> QED
  BY <1>1 DEF Phases, CallsAgree, StatesAgree, StopAgrees, HandlingStop, Handling

LEMMA HandleEntryPhase ==
  ASSUME TInv, LifeInv, Phases, NEW p \in Pid, HandleEntry(p)
  PROVE  Phases'
<1>1. /\ HandlingStop(p) /\ Continue /\ task' = RestartLast(task, p, "in")
      /\ syscallStateMap' = [syscallStateMap EXCEPT ![p] = "in"]
      /\ cur.why = "entry" \/ (cur.why = "seccomp" /\ ~SecCompV1)
  BY DEF HandleEntry, HandlingSyscall, SyscallStop
<1>2. Restartable(task[p], TracesLast("in"), "in")
  BY <1>1, PhaseAtHand DEF Restartable, TracesLast, InPtraceStop, CallAgrees
<1> QED  BY <1>1, <1>2, RestartLastPhase

LEMMA HandleSyscallExitPhase ==
  ASSUME TInv, LifeInv, Phases, NEW p \in Pid, HandleSyscallExit(p)
  PROVE  Phases'
<1>1. /\ HandlingStop(p) /\ Continue /\ task' = RestartLast(task, p, "undefined")
      /\ syscallStateMap' = [syscallStateMap EXCEPT ![p] = "undefined"]
      /\ cur.why \in {"entry", "exit"} /\ syscallStateMap[p] = "in"
  BY DEF HandleSyscallExit, HandlingSyscall, SyscallStop, StateBefore
<1>2. Restartable(task[p], TracesLast("undefined"), "undefined")
  BY <1>1, PhaseAtHand DEF Restartable, TracesLast, InPtraceStop, CallAgrees
<1> QED  BY <1>1, <1>2, RestartLastPhase

LEMMA HandleSeccompV1Phase ==
  ASSUME TInv, LifeInv, Phases, NEW p \in Pid, HandleSeccompV1(p)
  PROVE  Phases'
<1> DEFINE trace == TRUE
           sigstop == FALSE
<1>1. /\ HandlingStop(p) /\ Continue /\ task' = Restarted(task, p, trace, sigstop)
      /\ cur.why = "seccomp" /\ SecCompV1 /\ p \in Tracked
      /\ syscallStateMap' = [syscallStateMap EXCEPT ![p] = syscallStateMap[p]]
      /\ syscallStateMap[p] \in {"undefined", "in"}
  BY SameState DEF HandleSeccompV1, HandlingStop
<1>2. Restartable(task[p], trace, syscallStateMap[p]) /\ trace \in BOOLEAN
  BY <1>1, PhaseAtHand
  DEF Restartable, TracesLast, InPtraceStop, CallAgrees, OutsideCall, CallsStopOnce
<1> HIDE DEF trace, sigstop
<1> QED  BY <1>1, <1>2, HandlerPhase

LEMMA HandleOtherStopPhase ==
  ASSUME TInv, LifeInv, Phases, NEW p \in Pid, HandleOtherStop(p)
  PROVE  Phases'
<1>1. /\ HandlingStop(p) /\ Continue /\ p \in Tracked
      /\ task' = RestartLast(task, p, syscallStateMap[p])
      /\ cur.why \in {"sigstop", "groupstop", "signal", "exitevent"}
      /\ syscallStateMap' = [syscallStateMap EXCEPT ![p] = syscallStateMap[p]]
      /\ syscallStateMap[p] \in {"undefined", "in"}
  BY SameState DEF HandleOtherStop, HandlingStop
<1>2. Restartable(task[p], TracesLast(syscallStateMap[p]), syscallStateMap[p])
  BY <1>1, PhaseAtHand
  DEF Restartable, TracesLast, InPtraceStop, CallAgrees, OutsideCall
<1> QED  BY <1>1, <1>2, RestartLastPhase

\* After the event of a new task, or of an execve, its creator goes on with
\* the call it is in.
LEMMA EventRestartable ==
  ASSUME TInv, LifeInv, Phases, NEW p \in Pid, HandlingStop(p),
         cur.why \in NewTaskEvent \cup {"exec"}
  PROVE  Restartable(task[p], TracesLast("undefined"), syscallStateMap[p])
BY PhaseAtHand
DEF Restartable, TracesLast, InPtraceStop, CallAgrees, InsideCall, OutsideCall, NewTaskEvent

LEMMA HandleDeadTaskPhase ==
  ASSUME TInv, LifeInv, Phases, NEW p \in Pid, HandleDeadTask(p)
  PROVE  Phases'
<1> DEFINE trace == TRUE
           sigstop == FALSE
<1>1. /\ HandlingStop(p) /\ Continue /\ task' = Restarted(task, p, trace, sigstop)
      /\ ~InPtraceStop(p) /\ p \in Tracked
  BY DEF HandleDeadTask, HandlingStop, Reachable
<1>2. PICK state \in {"undefined", "in"} :
        syscallStateMap' = [syscallStateMap EXCEPT ![p] = state]
  BY <1>1, SameState DEF HandleDeadTask
<1>3. Restartable(task[p], trace, state) /\ trace \in BOOLEAN
  BY <1>1 DEF Restartable, TracesLast, InPtraceStop
<1> HIDE DEF trace, sigstop
<1> QED  BY <1>1, <1>2, <1>3, HandlerPhase

LEMMA HandleNewTaskPhase ==
  ASSUME TInv, LifeInv, Phases, NEW p \in Pid, HandleNewTask(p),
         task[p].why # "exitevent"
  PROVE  Phases'
<1> DEFINE child == ReportedPid(p)
           begins == ~UseSecComp
           goes == TracesLast("undefined")
           sigstop == cur.why \in {"sigstop", "groupstop"}
           resumed == IF child \in suspendedThreads
                      THEN Restarted(task, child, begins, FALSE) ELSE task
<1>1. /\ HandlingStop(p) /\ Continue /\ p \in Tracked /\ cur.why \in NewTaskEvent
      /\ syscallStateMap' = [syscallStateMap EXCEPT ![child] = "undefined"]
      /\ task' = Restarted(resumed, p, goes, sigstop)
  BY DEF HandleNewTask, HandlingStop, RestartLast, TracesLast
<1>2. /\ child \in Pid /\ child \notin Tracked /\ Present(child) /\ child # p
      /\ Announces(p) /\ task[p].why # "exitevent"
  BY NewTaskAtHand DEF HandleNewTask, Announces, NewTaskEvent
<1>3. /\ Sound(resumed)
      /\ resumed[child] = task[child] \/ RunOf(task[child], resumed[child], begins)
      /\ \A q \in Pid \ {child} : resumed[q] = task[q]
  <2>1. begins \in BOOLEAN
    OBVIOUS
  <2> HIDE DEF begins
  <2>2. \A sg : LET r == Restarted(task, child, begins, sg)
                IN  RunOf(task[child], r[child], begins) /\ \A q \in Pid \ {child} : r[q] = task[q]
    BY <1>2, RestartRuns DEF TInv
  <2>3. LET r == Restarted(task, child, begins, FALSE)
        IN  RunOf(task[child], r[child], begins) /\ \A q \in Pid \ {child} : r[q] = task[q]
    BY <2>2, Zenon
  <2>4. Sound(Restarted(task, child, begins, FALSE))
    BY <1>2, <2>1, RestartedSound DEF TInv
  <2> QED  BY <2>3, <2>4 DEF TInv
<1> HIDE DEF resumed, goes, sigstop
<1>4. RunOf(resumed[p], task'[p], goes) /\ \A q \in Pid \ {p} : task'[q] = resumed[q]
  BY <1>1, <1>3, RestartRuns
<1>5. \A q \in Pid : CallAgrees(task[q])
  BY DEF Phases, CallsAgree
<1>6. \/ InPtraceStop(child) /\ task[child].why \in {"sigstop", "exitevent"}
      \/ task[child].st = "dead" /\ task[child].why = "none"
  BY <1>1, <1>2, RunsInv
  DEF Running, UntrackedAreNew, TasksAgree, HandlingStop, Handling, LoopRuns, InPtraceStop
<1>7. Restartable(task[child], begins, "undefined")
  BY <1>5, <1>2, <1>6 DEF Restartable, InPtraceStop, CallAgrees
<1>8. /\ CallAgrees(task'[child])
      /\ InsideCall(task'[child]) => FALSE
  <2>1. task'[child] = resumed[child]
    BY <1>2, <1>4
  <2>2. CASE resumed[child] = task[child]
    BY <1>2, <1>5, <1>6, <2>1, <2>2 DEF InsideCall, NewTaskEvent, InPtraceStop
  <2>3. CASE RunOf(task[child], resumed[child], begins)
    <3> HIDE DEF begins
    <3>1. task[child].st \in {"stopped", "reported"}
          \/ (task[child].st = "dead" /\ task[child].why = "none")
      BY <1>6 DEF InPtraceStop
    <3>2. CallAgrees(task[child])
      BY <1>2, <1>5
    <3>3. /\ CallAgrees(resumed[child])
          /\ InsideCall(resumed[child]) => "undefined" = "in"
      BY <1>7, <2>3, <3>1, <3>2, RunPhase
    <3> QED  BY <2>1, <3>3
  <2> QED  BY <1>3, <2>2, <2>3
<1>9. /\ CallAgrees(task'[p])
      /\ InsideCall(task'[p]) => syscallStateMap[p] = "in"
      /\ OutsideCall(task'[p]) => syscallStateMap[p] # "in"
  <2>1. Restartable(task[p], goes, syscallStateMap[p])
    BY <1>1, EventRestartable DEF goes
  <2>2. resumed[p] = task[p] /\ task[p].st \in {"stopped", "reported"}
    BY <1>2, <1>3 DEF Announces, InPtraceStop
  <2> QED  BY <1>4, <1>5, <2>1, <2>2, RunPhase
<1>10. /\ Tracked' = Tracked \cup {child} /\ Tracked \subseteq Pid /\ loop' = "wait"
       /\ syscallStateMap'[child] = "undefined"
       /\ \A q \in Pid \ {child} : syscallStateMap'[q] = syscallStateMap[q]
       /\ \A q \in Pid \ {p, child} : task'[q] = task[q]
  BY <1>1, <1>2, <1>3, <1>4, TrackedIsPid DEF Tracked, Continue, TInv, LoopTyped
<1> HIDE DEF child
<1>11. CallsAgree'
  BY <1>5, <1>8, <1>9, <1>10 DEF CallsAgree
<1>12. StatesAgree'
  BY <1>2, <1>8, <1>9, <1>10 DEF Phases, StatesAgree
<1>13. StopAgrees'
  BY <1>10 DEF StopAgrees
<1> QED  BY <1>11, <1>12, <1>13 DEF Phases

LEMMA HandleExecPhase ==
  ASSUME TInv, LifeInv, Phases, NEW p \in Pid, HandleExec(p),
         task[p].why # "exitevent"
  PROVE  Phases'
<1> DEFINE old == ReportedPid(p)
           goes == TracesLast("undefined")
           sigstop == cur.why \in {"sigstop", "groupstop"}
<1>1. old \in Pid /\ (old = p \/ task[old].st = "gone") /\ InPtraceStop(p)
  BY ExecAtHand, TrackedIsPid DEF HandleExec, Reachable
<1>2. /\ HandlingStop(p) /\ Continue /\ p \in Tracked /\ cur.why = "exec"
      /\ task' = Restarted(task, p, goes, sigstop)
      /\ \/ syscallStateMap' = syscallStateMap
         \/ old # p /\ syscallStateMap' = [syscallStateMap EXCEPT ![old] = "absent"]
  <2>1. Restarted(task, old, TRUE, FALSE) = task \/ old = p
    BY <1>1 DEF Restarted
  <2> QED  BY <2>1 DEF HandleExec, HandlingStop, RestartLast, TracesLast
<1> HIDE DEF goes, sigstop
<1>3. RunOf(task[p], task'[p], goes) /\ \A q \in Pid \ {p} : task'[q] = task[q]
  BY <1>2, RestartRuns DEF TInv
<1>4. \A q \in Pid : CallAgrees(task[q])
  BY DEF Phases, CallsAgree
<1>5. /\ CallAgrees(task'[p])
      /\ InsideCall(task'[p]) => syscallStateMap[p] = "in"
      /\ OutsideCall(task'[p]) => syscallStateMap[p] # "in"
  <2>1. Restartable(task[p], goes, syscallStateMap[p])
    BY <1>2, EventRestartable DEF goes
  <2> QED  BY <1>1, <1>3, <1>4, <2>1, RunPhase DEF InPtraceStop
<1>6. /\ Tracked' \subseteq Tracked /\ Tracked \subseteq Pid /\ loop' = "wait"
      /\ \A q \in Tracked' : syscallStateMap'[q] = syscallStateMap[q]
  BY <1>1, <1>2 DEF Tracked, Continue, TInv, LoopTyped
<1> HIDE DEF old
<1>7. CallsAgree'
  BY <1>3, <1>4, <1>5 DEF CallsAgree
<1>8. StatesAgree'
  BY <1>3, <1>5, <1>6 DEF Phases, StatesAgree
<1>9. StopAgrees'
  BY <1>6 DEF StopAgrees
<1> QED  BY <1>7, <1>8, <1>9 DEF Phases

\* The handler of an event that has become an exit status: what it writes is for
\* the id of no task.
LEMMA StraysPhase ==
  ASSUME LifeAssumption, TInv, LifeInv, Phases, NEW p \in Pid,
         HandleNewTask(p) \/ HandleExec(p), task[p].why = "exitevent"
  PROVE  Phases'
<1> PICK s \in Pid : s = ReportedPid(p)
  BY TrackedIsPid DEF HandleNewTask, HandleExec
<1>1. /\ HandlingStop(p) /\ Reachable(p) /\ p \in Tracked /\ loop' = "wait"
      /\ cur.why \in NewTaskEvent \cup {"exec"}
  BY DEF HandleNewTask, HandleExec, HandlingStop, Continue
<1>2. s # p /\ task[s].st = "unused" /\ task[s].why = "none"
  BY <1>1, StatusAtHand DEF LifeInv, TasksAgree, InPtraceStop
<1> DEFINE goes == TracesLast("undefined")
           sigstop == cur.why \in {"sigstop", "groupstop"}
<1>3. task' = Restarted(task, p, goes, sigstop)
  <2>1. \A trace, again : Restarted(task, s, trace, again) = task
    BY <1>2 DEF Restarted
  <2> QED  BY <1>2, <2>1 DEF HandleNewTask, HandleExec, RestartLast, TracesLast
<1> HIDE DEF goes, sigstop
<1>4. RunOf(task[p], task'[p], goes) /\ \A q \in Pid \ {p} : task'[q] = task[q]
  BY <1>3, RestartRuns DEF TInv
<1>5. task'[p].st = "dead" /\ task'[p].why = "none" /\ task'[p].call = task[p].call
  BY <1>1, <1>4 DEF RunOf, Reachable, InPtraceStop
<1>6. \A q \in Pid : CallAgrees(task[q])
  BY DEF Phases, CallsAgree
<1>7. CallAgrees(task'[p]) /\ ~InsideCall(task'[p]) /\ ~OutsideCall(task'[p])
  BY <1>5, <1>6 DEF CallAgrees, InsideCall, OutsideCall, NewTaskEvent
<1>8. ~InsideCall(task[s]) /\ ~OutsideCall(task[s])
  BY <1>2 DEF InsideCall, OutsideCall, NewTaskEvent
<1>9. /\ Tracked \subseteq Pid /\ Tracked' \subseteq Tracked \cup {s}
      /\ \A q \in Pid \ {s} : syscallStateMap'[q] = syscallStateMap[q]
  BY TrackedIsPid DEF HandleNewTask, HandleExec, Tracked, TInv, LoopTyped
<1>10. CallsAgree'
  BY <1>4, <1>6, <1>7 DEF CallsAgree
<1>11. StatesAgree'
  BY <1>2, <1>4, <1>7, <1>8, <1>9 DEF Phases, StatesAgree
<1>12. StopAgrees'
  BY <1>1 DEF StopAgrees
<1> QED  BY <1>10, <1>11, <1>12 DEF Phases

\* Steps that restart nobody.
LEMMA QuietPhase ==
  ASSUME TInv, LifeInv, Phases, NEW p \in Pid,
         \/ HandleExit(p) \/ HandleNewThread(p) \/ AssertFails(p)
         \/ LastChildGone \/ Post(p) \/ Report \/ UNCHANGED vars
  PROVE  Phases'
<1>1. /\ task' = task
      /\ \A q \in Tracked' : q \in Tracked /\ syscallStateMap'[q] = syscallStateMap[q]
      /\ loop' = "handle" => loop = "handle" /\ cur' = cur
  <2>1. CASE HandleExit(p)
    <3>1. task[p].st = "gone"
      BY <2>1, RunsInv DEF Running, EventIsCurrent, HandleExit, Handling, LoopRuns
    <3> QED
      BY <2>1, <3>1
      DEF HandleExit, Restarted, ReturnFromLoop, Continue, Tracked, TInv, LoopTyped
  <2>2. CASE LastChildGone
    BY <2>2 DEF LastChildGone, ReturnFromLoop, Tracked
  <2>3. CASE \/ HandleNewThread(p) \/ AssertFails(p) \/ Post(p) \/ Report \/ UNCHANGED vars
    BY <2>3
    DEF HandleNewThread, AssertFails, Post, Report, vars, tracerVars, Continue, Tracked
  <2> QED  BY <2>1, <2>2, <2>3
<1> QED  BY <1>1 DEF Phases, CallsAgree, StatesAgree, StopAgrees

\* An exit stop is never read as an entry.
LEMMA NeverInsaneEntry ==
  ASSUME Phases, NEW p \in Pid
  PROVE  ~HandleInsaneEntry(p)
BY DEF Phases, StopAgrees, HandleInsaneEntry, HandlingSyscall, HandlingStop, Handling,
       StateBefore

LEMMA NextPhases ==
  ASSUME LifeAssumption, PhaseAssumption, TInv, LifeInv, Phases, [Next]_vars
  PROVE  Phases'
<1>1. ASSUME NEW p \in Pid, Handle(p)
      PROVE  Phases'
  BY <1>1, QuietPhase, HandleDeadTaskPhase, HandleNewTaskPhase, StraysPhase,
     HandleExecPhase, HandleSeccompV1Phase, HandleEntryPhase, NeverInsaneEntry,
     HandleSyscallExitPhase, HandleOtherStopPhase DEF Handle, HandleSyscallEntry
<1> QED
  BY <1>1, KernelPhase, WaitPhase, QuietPhase, TraceeIsTask DEF Next, Terminated

\* What the loop returns is no failure of the sanity check but at that check.
LEMMA NextSane ==
  ASSUME TInv, SInv, Phases, NeverInsane, [Next]_vars
  PROVE  NeverInsane'
<1>1. "sanity" \notin Codes \cup {None} /\ "sigkill" # "sanity"
  BY TracerAssumption
<1>2. ASSUME NEW p \in Pid, HandleExit(p)
      PROVE  rc' # "sanity"
  <2>1. cur.code \in Codes \cup {None}
    BY DEF TInv, LoopTyped
  <2> QED  BY <1>1, <1>2, <2>1 DEF HandleExit, ReturnFromLoop, Continue, NeverInsane
<1>3. CASE LastChildGone
  <2>1. traceeExitCode \in Codes \cup {None}
    BY DEF TInv, LoopTyped
  <2> QED  BY <1>1, <1>3, <2>1 DEF LastChildGone, ReturnFromLoop, NeverInsane
<1>4. ASSUME NEW p \in Pid, Handle(p), ~HandleExit(p)
      PROVE  UNCHANGED rc
  BY <1>4, NeverInsaneEntry
  DEF Handle, HandleSyscallEntry, HandleNewThread, HandleDeadTask, HandleNewTask, HandleExec,
      HandleSeccompV1, HandleEntry, HandleSyscallExit, HandleOtherStop, AssertFails, Continue
<1> QED
  BY <1>2, <1>3, <1>4
  DEF NeverInsane, Next, Kernel, Wait, Post, Report, Terminated, vars, tracerVars

LEMMA InitPhase == ASSUME Init PROVE Phases /\ NeverInsane
<1>1. /\ loop = "wait" /\ rc = None /\ TraceePid \in Pid /\ Tracked = {TraceePid}
      /\ syscallStateMap[TraceePid] = "undefined"
  BY TraceeIsTask DEF Init, Tracked
<1>2. /\ task[TraceePid].st = "running" /\ task[TraceePid].why = "none"
      /\ task[TraceePid].call = "user" /\ (task[TraceePid].trace <=> ~UseSecComp)
      /\ \A p \in Pid \ {TraceePid} : /\ task[p].st = "unused" /\ task[p].why = "none"
                                      /\ task[p].call = "user"
  BY <1>1 DEF Init, TasksInit, Unused
<1>3. \A p \in Pid : CallAgrees(task[p]) /\ ~InsideCall(task[p])
  BY <1>2 DEF CallAgrees, InsideCall, NewTaskEvent
<1>4. rc # "sanity"
  BY <1>1, TracerAssumption
<1> QED
  BY <1>1, <1>3, <1>4 DEF Phases, CallsAgree, StatesAgree, StopAgrees, NeverInsane

LEMMA PhaseInvariant == LifeAssumption /\ PhaseAssumption => (Spec => []PhaseInv)
<1> SUFFICES ASSUME LifeAssumption, PhaseAssumption PROVE Spec => []PhaseInv
  OBVIOUS
<1>1. /\ TInv /\ SInv /\ LifeInv /\ Phases /\ NeverInsane /\ [Next]_vars
      => Phases' /\ NeverInsane'
  BY NextPhases, NextSane
<1>2. Phases /\ NeverInsane => PhaseInv
  BY DEF Phases, PhaseInv
<1> QED
  BY <1>1, <1>2, InitPhase, StatusKnown, StatusInvariant, LifeInvariant, PTL DEF Spec

\* Every syscall stop is read as the kernel means it, entry or exit, with and
\* without the filter and on both sides of Linux 4.8, whatever is killed or
\* reused meanwhile and whichever events are lost, as long as no exit status
\* that is taken for a pid is that of a task; execve from any thread needs the
\* two assumptions.
THEOREM PhasesAreRead == LifeAssumption /\ PhaseAssumption => (Spec => []PhaseAgrees)
<1> SUFFICES ASSUME LifeAssumption, PhaseAssumption PROVE Spec => []PhaseAgrees
  OBVIOUS
<1>1. PhaseInv => PhaseAgrees
  BY DEF PhaseInv, StopAgrees, PhaseAgrees, SyscallStop
<1> QED  BY <1>1, PhaseInvariant, PTL

\* So the sanity check of GetSyscallNumber never ends the loop.
THEOREM SanityHolds == LifeAssumption /\ PhaseAssumption => (Spec => []NeverInsane)
<1> SUFFICES ASSUME LifeAssumption, PhaseAssumption PROVE Spec => []NeverInsane
  OBVIOUS
<1>1. PhaseInv => NeverInsane
  BY DEF PhaseInv
<1> QED  BY <1>1, PhaseInvariant, PTL

\* All of what relates the maps of the loop to the tasks, in the words the runs
\* check it in.
THEOREM LoopInvariant == LifeAssumption /\ PhaseAssumption => (Spec => []LoopInv)
<1> SUFFICES ASSUME LifeAssumption, PhaseAssumption PROVE Spec => []LoopInv
  OBVIOUS
<1>1. LifeInv /\ OrderInv /\ GroupInv /\ PhaseInv => LoopInv
  BY DEF LoopInv
<1> QED  BY <1>1, LifeInvariant, OrderInvariant, GroupInvariant, PhaseInvariant, PTL
==============================================================================
