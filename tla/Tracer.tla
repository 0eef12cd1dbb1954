------------------------------- MODULE Tracer --------------------------------
(***************************************************************************)
(* RunTracer (optrace.cpp): the loop that collects one event of one traced *)
(* task with wait3, handles it, and restarts the task; and what            *)
(* TraceProgram does before and after it.                                  *)
(*                                                                         *)
(* Collecting an event (Wait) and handling it are two steps, because the   *)
(* tasks run on in between: a task whose stop has been collected may be    *)
(* killed before the handler makes its ptrace calls.  A handler is one     *)
(* step: a kill that comes between two of its calls leaves the same state  *)
(* as one that comes before its last or after it.                          *)
(***************************************************************************)
EXTENDS Context, Tasks

CONSTANTS
  TraceePid,    \* the process optrace was asked to run
  WaitDaemons,  \* --wait-daemons
  Registers,    \* what the registers may hold at a syscall-exit-stop
  CoreSizes,    \* sizes of the core file a dump may leave (0: none is found)
  DumpCodes,    \* the statuses that say a core was dumped
  Clone3        \* clone is called as clone3, whose first argument is a pointer

ASSUME TracerAssumption ==
  /\ TraceePid \in TaskPid /\ {WaitDaemons, Clone3} \subseteq BOOLEAN
  /\ CoreSizes \subseteq Nat /\ DumpCodes \subseteq Codes
  /\ {"sanity", "sigkill"} \cap (Codes \cup {None}) = {}

ASSUME RegistersAssumption == \A r \in Registers : WellTyped(r)

VARIABLES
  loop,             \* wait: in wait3; handle: an event is collected; post: the
                    \* loop has returned; done: PostProcess has; aborted: an
                    \* assert has failed
  cur,              \* the pid and the status wait3 has returned
  syscallStateMap,  \* pid -> absent, undefined (SYSCALL_UNDEFINED) or in (a call)
  suspendedThreads, \* tasks that stopped before the event that announces them
  traceeExitCode,   \* the first exit status of TraceePid, or None
  rc,               \* what the loop has returned
  reaped            \* history: the status wait3 first gave for TraceePid

tracerVars == <<loop, cur, syscallStateMap, suspendedThreads, traceeExitCode, rc>>
vars == <<contextVars, length, task, tracerVars, reaped>>

Tracked == {p \in Pid : syscallStateMap[p] # "absent"}

Nothing == [pid |-> None, why |-> "none", code |-> None]

Init ==
  /\ TasksInit(TraceePid)
  /\ length \in [Name -> Size]
  /\ \E fds \in SUBSET Fd : \E inherited \in [fds -> Name] :
       RegisterTracee(TraceePid, inherited)
  /\ loop = "wait" /\ cur = Nothing
  /\ syscallStateMap = [p \in Pid |-> IF p = TraceePid THEN "undefined" ELSE "absent"]
  /\ suspendedThreads = {}
  /\ traceeExitCode = None /\ rc = None /\ reaped = None

------------------------------------------------------------------------------
(***************************************************************************)
(* The tasks run while the tracer does.  The id wait3 has just returned is *)
(* not given to a new task before the handler is done with it, nor, unless *)
(* SuddenDeath, does execve of another thread get so far meanwhile that it *)
(* takes the id over from a leader it has killed.                          *)
(***************************************************************************)
Bygone(t, p) == t[p].st = "gone" \/ (t[p].st = "dead" /\ ~SuddenDeath)

Kernel ==
  /\ loop \in {"wait", "handle"}
  /\ TasksNext
  /\ cur.pid \in Pid /\ Bygone(task, cur.pid) => Bygone(task', cur.pid)
  /\ UNCHANGED <<contextVars, length, tracerVars, reaped>>

\* wait3(&status, __WALL, 0) returns the stop or the exit of p.
Wait(p) ==
  /\ loop = "wait"
  /\ loop' = "handle"
  /\ \/ /\ task[p].st = "stopped"
        /\ task' = [task EXCEPT ![p].st = "reported"]
        /\ cur' = [pid |-> p, why |-> task[p].why, code |-> None]
        /\ UNCHANGED reaped
     \/ /\ Reapable(p)
        /\ task' = [task EXCEPT ![p] = Gone]
        /\ cur' = [pid |-> p, why |-> "exited", code |-> task[p].code]
        /\ reaped' = IF p = TraceePid /\ reaped = None THEN task[p].code ELSE reaped
  /\ UNCHANGED <<contextVars, length, syscallStateMap, suspendedThreads, traceeExitCode, rc>>

\* The loop goes back to wait3.
Continue == loop' = "wait" /\ cur' = Nothing /\ UNCHANGED rc

\* Fault: the wait status is returned instead of a code.
ReturnStatus(code) ==
  /\ loop' = "post" /\ cur' = Nothing /\ rc' = cur.why
  /\ syscallStateMap' = [p \in Pid |-> "absent"]
  /\ suspendedThreads' = {}

\* The loop returns; its maps are destroyed.
ReturnFromLoop(code) ==
  /\ loop' = "post" /\ cur' = Nothing /\ rc' = code
  /\ syscallStateMap' = [p \in Pid |-> "absent"]
  /\ suspendedThreads' = {}

Handling(p) == loop = "handle" /\ cur.pid = p

\* The handler of an event of p that is tracked.
HandlingStop(p) == Handling(p) /\ cur.why # "exited" /\ p \in Tracked

\* A ptrace call on p succeeds.
Reachable(p) == InPtraceStop(p)

\* The end of the handler: the restart of p.
RestartLast(t, p, state) ==
  Restarted(t, p,
            ~UseSecComp \/ (cur.why \in {"entry", "exit", "seccomp"} /\ state # "undefined"),
            cur.why \in {"sigstop", "groupstop"})

------------------------------------------------------------------------------
\* The loop goes on until nobody is left.
Daemons == FollowForks /\ WaitDaemons

\* Fault: daemons are never waited for.
ReturnsAtTracee(p) == p = TraceePid

\* Whether the exit of p ends the loop.
ReturnsAt(p) == p = TraceePid /\ ~Daemons

\* Fault: a later exit of the same pid replaces the code.
LastCode(p) == IF p = TraceePid THEN cur.code ELSE traceeExitCode

\* traceeExitCode after the exit of p: only the first code of the tracee counts.
FirstCode(p) == IF p = TraceePid /\ traceeExitCode = None THEN cur.code ELSE traceeExitCode

(* vanishThread(pid, true) and what follows it. *)
HandleExit(p) ==
  /\ Handling(p) /\ cur.why = "exited"
  /\ p \in Tracked /\ p \in Registered
  /\ \E core \in IF cur.code \in DumpCodes THEN CoreSizes ELSE {0} :
       VanishProcess(p, RegisterCoreDump(core))
  /\ task' = Restarted(task, p, TRUE, FALSE)
  /\ IF ReturnsAt(p)
     THEN /\ ReturnFromLoop(cur.code)
          /\ UNCHANGED traceeExitCode
     ELSE /\ Continue
          /\ syscallStateMap' = [syscallStateMap EXCEPT ![p] = "absent"]
          /\ traceeExitCode' = FirstCode(p)
          /\ UNCHANGED suspendedThreads
  /\ UNCHANGED <<length, reaped>>

\* A stop of a task nobody has announced: it is kept stopped.
HandleNewThread(p) ==
  /\ Handling(p) /\ cur.why # "exited" /\ p \notin Tracked
  /\ suspendedThreads' = suspendedThreads \cup {p}
  /\ Continue
  /\ UNCHANGED <<contextVars, length, task, syscallStateMap, traceeExitCode, reaped>>

NewTaskEvent == {"fork", "clone", "thread"}
Event == NewTaskEvent \cup {"exec", "seccomp", "exitevent"}
SyscallStop == {"entry", "exit"}

\* GETEVENTMSG or GETREGS fails: p has died since its stop was collected, at a
\* seccomp stop perhaps after its state has been reset.
HandleDeadTask(p) ==
  /\ HandlingStop(p)
  /\ cur.why \in Event \cup SyscallStop
  /\ ~Reachable(p)
  /\ task' = Restarted(task, p, TRUE, FALSE)
  /\ \/ UNCHANGED syscallStateMap
     \/ /\ cur.why = "seccomp" /\ ~SecCompV1
        /\ syscallStateMap' = [syscallStateMap EXCEPT ![p] = "undefined"]
  /\ Continue
  /\ UNCHANGED <<contextVars, length, suspendedThreads, traceeExitCode, reaped>>

\* What GETEVENTMSG answers.  A task killed since its stop was collected may
\* have reached its exit stop, where the message is its exit status.  The loop
\* takes that for a pid like any other: nothing looks whether a task has it.
ReportedPid(p) ==
  IF task[p].why = "exitevent" THEN StatusPid[task[p].code] ELSE task[p].msg

\* Fault: the flags of the call are not looked at.
CloneIsProcess == {FALSE}

\* What the CLONE_THREAD bit of GetCloneFlags may say.
CloneThreadBit ==
  CASE cur.why = "fork" -> {FALSE}
    [] Clone3 -> BOOLEAN
    [] OTHER -> {cur.why = "thread"}

\* Fault: a child that has stopped already is left where it is.
HandleNewTaskOnly(p) ==
  LET child == ReportedPid(p)
  IN  /\ HandlingStop(p) /\ cur.why \in NewTaskEvent /\ Reachable(p)
      /\ child \in Pid /\ p \in Registered
      /\ \E isThread \in CloneThreadBit :
           IF isThread THEN RegisterThread(p, child)
           ELSE child \notin Registered /\ RegisterProcess(p, child)
      /\ syscallStateMap' = [syscallStateMap EXCEPT ![child] = "undefined"]
      /\ task' = RestartLast(task, p, "undefined")
      /\ Continue
      /\ UNCHANGED <<length, suspendedThreads, traceeExitCode, reaped>>

\* PTRACE_EVENT_CLONE, _FORK and _VFORK.
HandleNewTask(p) ==
  LET child == ReportedPid(p)
      resumed == IF child \in suspendedThreads
                 THEN Restarted(task, child, ~UseSecComp, FALSE) ELSE task
  IN  /\ HandlingStop(p) /\ cur.why \in NewTaskEvent /\ Reachable(p)
      /\ child \in Pid /\ p \in Registered
      /\ \E isThread \in CloneThreadBit :
           IF isThread THEN RegisterThread(p, child)
           ELSE child \notin Registered /\ RegisterProcess(p, child)
      /\ syscallStateMap' = [syscallStateMap EXCEPT ![child] = "undefined"]
      /\ suspendedThreads' = suspendedThreads \ {child}
      /\ task' = RestartLast(resumed, p, "undefined")
      /\ Continue
      /\ UNCHANGED <<length, traceeExitCode, reaped>>

\* Fault: the id is forgotten even when it is that of the caller itself.
HandleExecForgets(p) ==
  LET old == ReportedPid(p)
  IN  /\ HandlingStop(p) /\ cur.why = "exec" /\ Reachable(p)
      /\ p \in Registered /\ old \in Tracked
      /\ RegisterExec(p)
      /\ task' = RestartLast(Restarted(task, old, TRUE, FALSE), p, "undefined")
      /\ syscallStateMap' = [syscallStateMap EXCEPT ![old] = "absent"]
      /\ Continue
      /\ UNCHANGED <<length, suspendedThreads, traceeExitCode, reaped>>

\* PTRACE_EVENT_EXEC.  If a thread that is not the leader has called execve,
\* its id is gone: vanishThread(old, false), which leaves ProcMap as it is.
HandleExec(p) ==
  LET old == ReportedPid(p)
  IN  /\ HandlingStop(p) /\ cur.why = "exec" /\ Reachable(p)
      /\ p \in Registered /\ old \in Tracked
      /\ RegisterExec(p)
      /\ IF old = p
         THEN /\ task' = RestartLast(task, p, "undefined")
              /\ UNCHANGED syscallStateMap
         ELSE /\ task' = RestartLast(Restarted(task, old, TRUE, FALSE), p, "undefined")
              /\ syscallStateMap' = [syscallStateMap EXCEPT ![old] = "absent"]
      /\ Continue
      /\ UNCHANGED <<length, suspendedThreads, traceeExitCode, reaped>>

\* PTRACE_EVENT_SECCOMP before Linux 4.8: the entry stop is still to come.
HandleSeccompV1(p) ==
  /\ HandlingStop(p) /\ cur.why = "seccomp" /\ SecCompV1 /\ Reachable(p)
  /\ task' = Restarted(task, p, TRUE, FALSE)
  /\ Continue
  /\ UNCHANGED <<contextVars, length, syscallStateMap, suspendedThreads,
                 traceeExitCode, reaped>>

\* A syscall stop: of SIGTRAP | 0x80, or the seccomp stop since Linux 4.8.
HandlingSyscall(p) ==
  /\ HandlingStop(p) /\ Reachable(p)
  /\ cur.why \in SyscallStop \/ (cur.why = "seccomp" /\ ~SecCompV1)

\* Fault: the stop before is not remembered.
StateNotKept(p) == "undefined"

\* The state the stop is read in: the seccomp stop resets it.
StateBefore(p) == IF cur.why = "seccomp" THEN "undefined" ELSE syscallStateMap[p]

\* Read as an entry: rax must hold -ENOSYS, which a call that returns has
\* replaced.
HandleEntry(p) ==
  /\ HandlingSyscall(p) /\ StateBefore(p) = "undefined" /\ cur.why # "exit"
  /\ syscallStateMap' = [syscallStateMap EXCEPT ![p] = "in"]
  /\ task' = RestartLast(task, p, "in")
  /\ Continue
  /\ UNCHANGED <<contextVars, length, suspendedThreads, traceeExitCode, reaped>>

HandleInsaneEntry(p) ==
  /\ HandlingSyscall(p) /\ StateBefore(p) = "undefined" /\ cur.why = "exit"
  /\ ReturnFromLoop("sanity")
  /\ UNCHANGED <<contextVars, length, task, traceeExitCode, reaped>>

\* The entry branch, with the return of -2 in the middle of it.
HandleSyscallEntry(p) ==
  IF cur.why = "exit" THEN HandleInsaneEntry(p) ELSE HandleEntry(p)

\* Fault: the state is not reset after the exit.
HandleExitStopOnly(p) ==
  /\ HandlingSyscall(p) /\ StateBefore(p) = "in" /\ p \in Registered
  /\ \E r \in Registers : SyscallExit(p, r)
  /\ task' = RestartLast(task, p, "in")
  /\ Continue
  /\ UNCHANGED <<length, syscallStateMap, suspendedThreads, traceeExitCode, reaped>>

\* Read as an exit.
HandleSyscallExit(p) ==
  /\ HandlingSyscall(p) /\ StateBefore(p) = "in" /\ p \in Registered
  /\ \E r \in Registers : SyscallExit(p, r)
  /\ syscallStateMap' = [syscallStateMap EXCEPT ![p] = "undefined"]
  /\ task' = RestartLast(task, p, "undefined")
  /\ Continue
  /\ UNCHANGED <<length, suspendedThreads, traceeExitCode, reaped>>

\* A signal, a group stop, or an exit stop: the task is just restarted.
HandleOtherStop(p) ==
  /\ HandlingStop(p)
  /\ \/ cur.why \in {"sigstop", "groupstop", "signal"}
     \/ cur.why = "exitevent" /\ Reachable(p)
  /\ task' = RestartLast(task, p, syscallStateMap[p])
  /\ Continue
  /\ UNCHANGED <<contextVars, length, syscallStateMap, suspendedThreads,
                 traceeExitCode, reaped>>

\* Where the assertions on the handlers' way do not hold.
AssertFails(p) ==
  /\ Handling(p)
  /\ \/ cur.why = "exited" /\ ~(p \in Tracked /\ p \in Registered)
     \/ /\ HandlingStop(p) /\ Reachable(p)
        /\ \/ /\ cur.why \in NewTaskEvent
              /\ \/ p \notin Registered
                 \/ FALSE \in CloneThreadBit /\ ReportedPid(p) \in Registered
           \/ cur.why = "exec" /\ ~(p \in Registered /\ ReportedPid(p) \in Tracked)
           \/ HandlingSyscall(p) /\ StateBefore(p) = "in" /\ p \notin Registered
  /\ loop' = "aborted"
  /\ UNCHANGED <<contextVars, length, task, cur, syscallStateMap, suspendedThreads,
                 traceeExitCode, rc, reaped>>

------------------------------------------------------------------------------
\* Fault: the failure of wait3 is taken for an interruption.
WaitAgain == loop = "wait" /\ NoChild /\ UNCHANGED vars

(* wait3 fails with ECHILD. *)
LastChildGone ==
  /\ loop = "wait" /\ NoChild
  /\ ReturnFromLoop(IF traceeExitCode = None THEN "sigkill" ELSE traceeExitCode)
  /\ UNCHANGED <<contextVars, length, task, traceeExitCode, reaped>>

Post(p) ==
  /\ loop = "post"
  /\ PostProcess(p)
  /\ UNCHANGED <<length, task, tracerVars, reaped>>

Report ==
  /\ loop = "post" /\ Registered = {}
  /\ loop' = "done"
  /\ UNCHANGED <<contextVars, length, task, cur, syscallStateMap, suspendedThreads,
                 traceeExitCode, rc, reaped>>

\* optrace has exited; nothing more is modelled.
Terminated == loop \in {"done", "aborted"} /\ UNCHANGED vars

Handle(p) ==
  \/ HandleExit(p) \/ HandleNewThread(p) \/ HandleDeadTask(p) \/ HandleNewTask(p)
  \/ HandleExec(p) \/ HandleSeccompV1(p) \/ HandleSyscallEntry(p)
  \/ HandleSyscallExit(p) \/ HandleOtherStop(p)
  \/ AssertFails(p)

Next ==
  \/ Kernel
  \/ \E p \in Pid : Wait(p) \/ Handle(p) \/ Post(p)
  \/ LastChildGone \/ Report \/ Terminated

Spec == Init /\ [][Next]_vars

(***************************************************************************)
(* The tracer runs whenever it can.  wait3 is not assumed to prefer any    *)
(* task, only to return each one that keeps having something to report.    *)
(* Nothing is assumed of the tasks.                                        *)
(***************************************************************************)
Fairness ==
  /\ \A p \in Pid : SF_vars(Wait(p)) /\ WF_vars(Handle(p)) /\ WF_vars(Post(p))
  /\ WF_vars(LastChildGone) /\ WF_vars(Report)

FairSpec == Spec /\ Fairness

------------------------------------------------------------------------------
(* Properties *)

TypeOK ==
  /\ ProcMap \in [Pid -> ProcState \cup {None}]
  /\ GroupLeaders \subseteq Pid
  /\ Fds \in [ProcState -> SUBSET Entry]
  /\ task \in [Pid -> Task]
  /\ loop \in {"wait", "handle", "post", "done", "aborted"}
  /\ cur.pid \in Pid \cup {None} /\ (loop = "handle" => cur.pid \in Pid)
  /\ cur.code \in Codes \cup {None}
  /\ syscallStateMap \in [Pid -> {"absent", "undefined", "in"}]
  /\ suspendedThreads \subseteq Pid
  /\ {traceeExitCode, reaped} \subseteq Codes \cup {None}
  /\ rc \in Codes \cup {None, "sanity", "sigkill"}

\* The context knows every thread whose system calls the loop follows, and
\* every group leader: the assertion of GetProcState cannot fail where
\* SyscallExit, RegisterProcess, RegisterThread or RegisterExec look a thread
\* up, nor the one in VanishProcess.
KnownProcesses == Tracked \subseteq Registered /\ GroupLeaders \subseteq Registered

\* Two tracked threads share a TProcState, and so a table of open files, if
\* and only if the kernel has them in one thread group (RegisterThread against
\* RegisterProcess and RegisterExec, whatever the order of events).
TablesFollowGroups ==
  \A p, q \in Tracked :
    {task[p].st, task[q].st} \cap {"unused", "gone"} = {} =>
      (ProcMap[p] = ProcMap[q] <=> task[p].grp = task[q].grp)

\* The table of every tracked thread belongs to exactly one group leader, so
\* that VanishProcess records its files, and records them once.
OneLeaderPerTable ==
  \A p \in Tracked : Cardinality({l \in GroupLeaders : ProcMap[l] = ProcMap[p]}) = 1

\* A stop is read as an entry to a system call or as an exit from it as the
\* kernel means it (syscallStateMap against the stops the task makes).
PhaseAgrees ==
  loop = "handle" /\ cur.pid \in Tracked /\ cur.why \in SyscallStop =>
    (syscallStateMap[cur.pid] = "in" <=> cur.why = "exit")

\* Every thread in suspendedThreads is untracked, still in its first stop, and
\* its creator is at the event whose handler will resume it: none is forgotten.
SuspendedAwaitCreator ==
  loop \in {"wait", "handle"} =>
    \A p \in suspendedThreads :
      /\ p \notin Tracked
      /\ task[p].st = "reported"
      /\ \E q \in Tracked : InPtraceStop(q) /\ task[q].why \in NewTaskEvent /\ task[q].msg = p

\* No assertion of the loop or of the context fails.
NoAssertFails == loop # "aborted"

\* The sanity check of GetSyscallNumber never ends the loop.
NeverInsane == rc # "sanity"

\* optrace exits as the tracee did: with the first status collected for it,
\* whatever other tasks exit with, before or after, even under the same pid.
ExitsLikeTracee ==
  loop \in {"post", "done"} /\ rc # "sanity" =>
    rc = IF reaped = None THEN "sigkill" ELSE reaped

\* The loop ends and the report is made only when nobody is left to trace, or
\* the tracee itself is gone and daemons are not waited for.
EndsWhenDone ==
  loop \in {"post", "done"} /\ rc # "sanity" =>
    NoChild \/ (reaped # None /\ ~Daemons)

\* What makes KnownProcesses and ExitsLikeTracee inductive.  The maps of the
\* loop are gone once it has returned.
NothingFollowed == loop \in {"post", "done"} => Tracked = {}

\* The kernel has a status for every task that is on its way out.
DeadHaveCode ==
  \A p \in Pid : task[p].st = "dead" \/ task[p].why = "exitevent" => task[p].code # None

\* traceeExitCode is the first status collected, except between wait3 and the
\* handler of that exit; without --wait-daemons that handler ends the loop.
FirstStatusKept ==
  /\ loop = "wait" \/ (loop = "handle" /\ ~(cur.why = "exited" /\ cur.pid = TraceePid)) =>
       traceeExitCode = reaped /\ (~Daemons => reaped = None)
  /\ loop = "handle" /\ cur.why = "exited" /\ cur.pid = TraceePid =>
       /\ cur.code # None
       /\ \/ traceeExitCode = None /\ reaped = cur.code
          \/ traceeExitCode # None /\ reaped = traceeExitCode /\ Daemons

IInv ==
  /\ TypeOK /\ length \in [Name -> Size]
  /\ KnownProcesses /\ NothingFollowed
  /\ DeadHaveCode /\ FirstStatusKept

LoopIsOver == loop \in {"post", "done", "aborted"}

\* Every task that stops is restarted: one that stopped before its creator's
\* event, too.
Resumed == \A p \in Pid : InPtraceStop(p) ~> (~InPtraceStop(p) \/ LoopIsOver)

\* Once all tasks are dead optrace makes its report, although the exit of a
\* leader can only be collected after those of its threads.
Finishes ==
  (\A p \in Pid : task[p].st \in {"unused", "dead", "gone"}) ~> loop \in {"done", "aborted"}
==============================================================================
