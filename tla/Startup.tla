------------------------------- MODULE Startup -------------------------------
(***************************************************************************)
(* TraceProgram (optrace.cpp): from the command line to the traced program *)
(* and to the end of optrace.  optrace forks; the child installs the       *)
(* seccomp filter, asks to be traced, stops itself and executes the        *)
(* program; optrace waits for that stop, sets the ptrace options, takes    *)
(* over the signals it forwards, and enters the loop.  Signals come at any *)
(* time to either or both (a terminal's interrupt).                        *)
(*                                                                         *)
(* The loop is Tracer's, reduced to what it does with the stops of one     *)
(* task: a signal is injected again, other stops are restarted, the exit   *)
(* ends the loop.                                                          *)
(***************************************************************************)
EXTENDS CommandLine, SeccompFilter, FiniteSets

CONSTANTS
  None,
  Scenarios,    \* [args, program, arch, filters]: how and where optrace is started
  OldMasks,     \* the signal masks it may be started with
  SentSignals,  \* the signals that are sent to it or to the program
  MaxSignals,   \* how many are sent
  ProgramCalls  \* the system calls the program makes

SIGKILL == 9
SIGTERM == 15
SIGTRAP == 5

Event == 0            \* a stop that is not for a signal
Returned == 0         \* how optrace ends other than by a signal
Failed == 0 - 1

ASSUME StartupAssumption ==
  /\ None \notin Int /\ MaxSignals \in Nat
  /\ SentSignals \subseteq {SIGINT, SIGTERM, SIGKILL}
  /\ \A mask \in OldMasks : mask \subseteq SentSignals \ {SIGKILL}
  /\ \A from \in Scenarios : from.args \in Seq(Option) /\ from.arch \in Arch
  /\ \A c \in ProgramCalls : c.arg \in Nat

VARIABLES
  scenario, oldmask,
  opts,       \* TOptions, once main has parsed the command line
  at,         \* where optrace is
  ended,      \* why it has ended: Returned, Failed, a signal, or None
  blocked, handled, pending,   \* the signals of optrace
  child,      \* the traced process
  budget,     \* how many signals may still be sent
  arrived,    \* history: the signals that have come to optrace since it blocks them
  dropped,    \* history: what the first stop was for, if not for the SIGTRAP
  unseen,     \* history: calls that took effect without a stop for the loop
  refused     \* history: the first call that has failed with ENOSYS, or None

tracer == <<at, ended, blocked, handled, pending>>
histories == <<arrived, dropped, unseen, refused>>
vars == <<scenario, oldmask, opts, tracer, child, budget, histories>>

Blockable == SentSignals \ {SIGKILL}

(***************************************************************************)
(* The child: where it is in its code; whether it runs, is stopped (stop:  *)
(* the signal, or Event) or dead (code: its status, or 128 + the signal);  *)
(* whose tracee it is, with which ptrace options; whether the filter is    *)
(* installed.  got: the signals it has taken.                              *)
(***************************************************************************)
NoChild == [at |-> "none", st |-> "none", stop |-> None, code |-> None, blocked |-> {},
            pending |-> {}, got |-> {}, filter |-> FALSE, tracer |-> "none", options |-> {}]

Dead(c, code) == [c EXCEPT !.st = "dead", !.stop = None, !.code = code, !.pending = {}]
Stopped(c, stop) == [c EXCEPT !.st = "stopped", !.stop = stop]

Going(c) == [c EXCEPT !.st = "running", !.stop = None]

\* A signal takes effect: it ends the process, unless the process ignores it
\* or, once it is the program, catches it.
Struck(c, s) ==
  LET taken == [c EXCEPT !.got = @ \cup {s}]
  IN  {Dead(taken, 128 + s)} \cup
      (IF s # SIGTRAP \/ c.at = "program" THEN {Going(taken)} ELSE {})

\* kill(pid, s)
Sent(c, s) ==
  IF c.st \in {"none", "dead"} THEN c
  ELSE IF s = SIGKILL THEN Dead(c, 128 + SIGKILL) ELSE [c EXCEPT !.pending = @ \cup {s}]

\* What becomes of the child when its tracer is gone: killed with
\* PTRACE_O_EXITKILL; otherwise it runs on, and takes the signal it was at.
Abandoned(c) ==
  IF c.tracer # "optrace" \/ c.st = "dead" THEN {c}
  ELSE LET free == [c EXCEPT !.tracer = "none"]
       IN  IF "EXITKILL" \in c.options THEN {Dead(c, 128 + SIGKILL)}
           ELSE {Going(free)} \cup
                (IF c.st = "stopped" /\ c.stop # Event THEN Struck(free, c.stop) ELSE {})

\* optrace ends.
End(why, c) ==
  /\ at' = "ended" /\ ended' = why
  /\ child' \in Abandoned(c)
  /\ UNCHANGED <<blocked, handled, pending>>

Goto(place) == at' = place /\ UNCHANGED ended
Quiet == UNCHANGED <<scenario, oldmask, budget, histories>>

useSecComp == opts.UseSecComp /\ scenario.filters

------------------------------------------------------------------------------
(* main and TraceProgram *)

Main ==
  LET first == EndsAt(scenario.args)
      o == Parsed(scenario.args)
  IN  /\ at = "main"
      /\ opts' = o
      /\ IF first # 0 \/ scenario.program = "none" \/ o.Output = "unwritable"
         THEN End(Returned, child)
         ELSE Goto("block") /\ UNCHANGED <<child, blocked, handled, pending>>
      /\ Quiet

\* Fault: the signals are not blocked.
NotBlocked ==
  /\ at = "block" /\ Goto("fork")
  /\ UNCHANGED <<opts, child, blocked, handled, pending>> /\ Quiet

BlockSignals ==
  /\ at = "block" /\ Goto("fork")
  /\ blocked' = Blockable
  /\ UNCHANGED <<opts, child, handled, pending>> /\ Quiet

Fork ==
  /\ at = "fork"
  /\ \/ End(Failed, child)
     \/ /\ Goto("waitpid")
        /\ child' = [NoChild EXCEPT !.at = "unblock", !.st = "running", !.blocked = blocked]
        /\ UNCHANGED <<blocked, handled, pending>>
  /\ UNCHANGED opts /\ Quiet

\* Any stop will do.
WaitForChild ==
  /\ at = "waitpid"
  /\ \/ /\ child.st = "stopped" /\ Goto("setoptions")
        /\ UNCHANGED <<child, blocked, handled, pending>>
     \/ child.st = "dead" /\ End(Failed, child)
  /\ UNCHANGED opts /\ Quiet

\* Fault: the last option replaces those before.
OnlySecComp ==
  {"TRACESYSGOOD", "TRACEEXEC", "TRACEEXIT"} \cup
  (IF useSecComp THEN {"TRACESECCOMP"} ELSE IF opts.JailForks THEN {"EXITKILL"} ELSE {})

\* Fault: the filter's events are not asked for.
NoSecCompEvents ==
  {"TRACESYSGOOD", "TRACEEXEC", "TRACEEXIT"} \cup
  (IF opts.JailForks THEN {"EXITKILL"} ELSE {})

ptraceOpts ==
  {"TRACESYSGOOD", "TRACEEXEC", "TRACEEXIT"} \cup
  (IF opts.FollowForks THEN {"TRACECLONE", "TRACEFORK", "TRACEVFORK"} ELSE {}) \cup
  (IF opts.JailForks THEN {"EXITKILL"} ELSE {}) \cup
  (IF useSecComp THEN {"TRACESECCOMP"} ELSE {})

SetOptions ==
  /\ at = "setoptions"
  /\ IF child.st = "dead" THEN End(Failed, child)
     ELSE /\ Goto("sigaction")
          /\ child' = [child EXCEPT !.options = ptraceOpts]
          /\ UNCHANGED <<blocked, handled, pending>>
  /\ UNCHANGED opts /\ Quiet

AllForwarded == {1, 2, 3, 4, 6, 8, 10, 11, 12, 13, 14, 15}

\* Fault: the signals of -s are lost.
OnlyInterrupts == IF opts.ForwardAllSignals THEN AllForwarded ELSE {SIGINT}

Forwarded == IF opts.ForwardAllSignals THEN AllForwarded ELSE opts.ForwardingSignals

\* sigaction takes any signal but SIGKILL, SIGSTOP and those of the C library.
Catchable == (1 .. 64) \ {9, 19, 32, 33}

SetupSignalForwarding ==
  /\ at = "sigaction"
  /\ IF Forwarded \subseteq Catchable
     THEN /\ Goto("unblock")
          /\ handled' = Forwarded
          /\ UNCHANGED <<child, blocked, pending>>
     ELSE End(Failed, child)
  /\ UNCHANGED opts /\ Quiet

UnblockSignals ==
  /\ at = "unblock" /\ Goto("register")
  /\ blocked' = oldmask
  /\ UNCHANGED <<opts, child, handled, pending>> /\ Quiet

\* Fault: the first stop's signal is injected like any other.
FirstRestartInjects ==
  /\ at = "register" /\ child.st # "dead" /\ Goto("loop")
  /\ child' \in Struck(child, child.stop)
  /\ UNCHANGED <<scenario, oldmask, opts, budget, blocked, handled, pending, histories>>

\* RegisterTracee reads the links in /proc/pid/fd, which a dead child does not
\* have any more; then the first restart, with no signal.
FirstRestart ==
  /\ at = "register"
  /\ IF child.st = "dead" THEN End(Failed, child) /\ UNCHANGED dropped
     ELSE /\ Goto("loop")
          /\ child' = Going(child)
          /\ dropped' = IF child.stop = SIGTRAP THEN {} ELSE {child.stop}
          /\ UNCHANGED <<blocked, handled, pending>>
  /\ UNCHANGED <<scenario, oldmask, opts, budget, arrived, unseen, refused>>

\* Fault: a stop for a signal is left alone.
LoopRestartsEvents ==
  /\ at = "loop" /\ child.st = "stopped"
  /\ child' = IF child.stop = Event THEN Going(child) ELSE child
  /\ UNCHANGED <<opts, tracer>> /\ Quiet

\* The loop restarts a stop and injects its signal.
LoopRestart ==
  /\ at = "loop" /\ child.st = "stopped"
  /\ child' \in IF child.stop = Event THEN {Going(child)} ELSE Struck(child, child.stop)
  /\ UNCHANGED <<opts, tracer>> /\ Quiet

\* Fault: optrace is done with the loop, without a report or a status.
LoopEndsAll ==
  /\ at = "loop" /\ child.st = "dead" /\ Goto("ended")
  /\ UNCHANGED <<opts, child, blocked, handled, pending>> /\ Quiet

LoopReturns ==
  /\ at = "loop" /\ child.st = "dead" /\ Goto("report")
  /\ UNCHANGED <<opts, child, blocked, handled, pending>> /\ Quiet

Report ==
  /\ at = "report" /\ End(Returned, child)
  /\ UNCHANGED opts /\ Quiet

\* A signal optrace does not block: forwarded, or it ends optrace unless it has
\* been told to ignore it.
TakeSignal(s) ==
  /\ at # "ended" /\ s \in pending \ blocked
  /\ \/ /\ s \in handled
        /\ child' = Sent(child, s)
        /\ pending' = pending \ {s}
        /\ UNCHANGED <<at, ended, blocked, handled>>
     \/ s \notin handled /\ End(s, child)
     \/ /\ s \notin handled /\ pending' = pending \ {s}
        /\ UNCHANGED <<at, ended, blocked, handled, child>>
  /\ UNCHANGED opts /\ Quiet

Optrace ==
  \/ Main \/ BlockSignals \/ Fork \/ WaitForChild \/ SetOptions \/ SetupSignalForwarding
  \/ UnblockSignals \/ FirstRestart \/ LoopRestart \/ LoopReturns \/ Report
  \/ \E s \in Blockable : TakeSignal(s)

------------------------------------------------------------------------------
(* The child, up to the program (RunTracee) *)

Runs(place) == child.at = place /\ child.st = "running"
ChildOnly == UNCHANGED <<opts, tracer>> /\ Quiet
ChildGoto(place) == child' = [child EXCEPT !.at = place]
ChildFails == child' = Dead(child, 2)

ChildUnblock ==
  /\ Runs("unblock")
  /\ child' = [child EXCEPT !.blocked = oldmask, !.at = IF useSecComp THEN "filter" ELSE "traceme"]
  /\ ChildOnly

InstallBpfProgram ==
  /\ Runs("filter")
  /\ ChildFails \/ child' = [child EXCEPT !.at = "traceme", !.filter = TRUE]
  /\ ChildOnly

\* The tracer is the parent: another process if optrace has been killed.
PtraceTraceMe ==
  /\ Runs("traceme")
  /\ ChildFails \/
     child' = [child EXCEPT !.at = "trap", !.tracer = IF at = "ended" THEN "other" ELSE "optrace"]
  /\ ChildOnly

\* Fault: the child does not stop itself.
GoesOn == Runs("trap") /\ ChildGoto("exec") /\ ChildOnly

\* kill(getpid(), SIGTRAP)
StopItself ==
  /\ Runs("trap")
  /\ LET next == [child EXCEPT !.at = "exec"]
     IN  child' \in IF child.tracer = "none" THEN Struck(next, SIGTRAP) ELSE {Stopped(next, SIGTRAP)}
  /\ ChildOnly

\* execvp; or, without argv (TraceMe), the caller goes on as the program.
Execute ==
  /\ Runs("exec")
  /\ IF scenario.program = "missing" THEN ChildFails
     ELSE LET next == [child EXCEPT !.at = "program"]
          IN  child' = IF scenario.program = "present" /\ child.tracer # "none"
                            /\ "TRACEEXEC" \in child.options
                       THEN Stopped(next, Event) ELSE next
  /\ ChildOnly

\* A signal the child does not block: it stops for its tracer.
ChildTakesSignal(s) ==
  /\ child.st = "running" /\ s \in child.pending \ child.blocked
  /\ LET next == [child EXCEPT !.pending = @ \ {s}]
     IN  child' \in IF child.tracer # "none" THEN {Stopped(next, s)} ELSE Struck(next, s)
  /\ ChildOnly

Child ==
  \/ ChildUnblock \/ InstallBpfProgram \/ PtraceTraceMe \/ StopItself \/ Execute
  \/ \E s \in Blockable : ChildTakesSignal(s)

(***************************************************************************)
(* The program makes a call.  With the filter the call is stopped if the   *)
(* filter says so and the tracer asks for it; if nobody asks for it, it    *)
(* fails with ENOSYS.  Without the filter every call is stopped.           *)
(***************************************************************************)
ProgramCall(c) ==
  LET selected == child.filter => Verdict(scenario.arch, c) = "TRACE"
      stops == child.tracer = "optrace" /\ (child.filter => "TRACESECCOMP" \in child.options)
  IN  /\ Runs("program") /\ c.nr \in DOMAIN Nr[scenario.arch]
      /\ child' = IF selected /\ stops THEN Stopped(child, Event) ELSE child
      /\ refused' = IF selected /\ ~stops /\ child.filter /\ refused = None THEN c ELSE refused
      /\ unseen' = unseen \cup (IF ~selected /\ stops /\ Followed(c) THEN {c} ELSE {})
      /\ UNCHANGED <<scenario, oldmask, opts, tracer, budget, arrived, dropped>>

ProgramEnds == Runs("program") /\ child' = Dead(child, 0) /\ ChildOnly

------------------------------------------------------------------------------
(* A signal is sent to optrace, to its child, or from a terminal to both. *)

Send(s, targets) ==
  /\ budget > 0 /\ budget' = budget - 1
  /\ at # "ended"
  /\ LET c == IF "child" \in targets THEN Sent(child, s) ELSE child
     IN  IF "optrace" \notin targets THEN child' = c /\ UNCHANGED <<tracer, arrived>>
         ELSE /\ arrived' = IF at \in {"main", "block"} THEN {} ELSE arrived \cup {s}
              /\ IF s = SIGKILL THEN End(s, c)
                 ELSE /\ pending' = pending \cup {s} /\ child' = c
                      /\ UNCHANGED <<at, ended, blocked, handled>>
  /\ UNCHANGED <<scenario, oldmask, opts, dropped, unseen, refused>>

Init ==
  /\ scenario \in Scenarios
  /\ oldmask \in OldMasks
  /\ opts = GetDefaults
  /\ at = "main" /\ ended = None
  /\ blocked = oldmask /\ handled = {} /\ pending = {}
  /\ child = NoChild
  /\ budget = MaxSignals
  /\ arrived = {} /\ dropped = {} /\ unseen = {} /\ refused = None

\* optrace has ended, and the child too or for ever stopped.
AllOver == at = "ended" /\ child.st # "running" /\ UNCHANGED vars

Next ==
  \/ Optrace \/ Child \/ ProgramEnds \/ AllOver
  \/ \E c \in ProgramCalls : ProgramCall(c)
  \/ \E s \in SentSignals, targets \in (SUBSET {"optrace", "child"}) \ {{}} : Send(s, targets)

Spec == Init /\ [][Next]_vars

\* Both processes are scheduled; the program need not do anything.
FairSpec == Spec /\ WF_vars(Optrace) /\ WF_vars(Child)

------------------------------------------------------------------------------
(* Properties *)

TypeOK ==
  /\ at \in {"main", "block", "fork", "waitpid", "setoptions", "sigaction", "unblock",
             "register", "loop", "report", "ended"}
  /\ at = "ended" <=> ended # None
  /\ blocked \subseteq Blockable /\ pending \subseteq Blockable
  /\ handled \subseteq 1 .. 64
  /\ child.st \in {"none", "running", "stopped", "dead"}
  /\ child.tracer \in {"none", "optrace", "other"}
  /\ child.st = "stopped" <=> child.stop # None
  /\ child.st = "dead" <=> child.code # None

Given(letter) == {i \in DOMAIN scenario.args : scenario.args[i].opt = letter}
LastOf(letter, default) ==
  IF Given(letter) = {} THEN default ELSE scenario.args[Max(Given(letter))].val
TextOf(letter) == IF Given(letter) = {} THEN "" ELSE scenario.args[Max(Given(letter))].text

\* The limits of -c and -r: a number from 0 on is taken as it is, and any
\* negative one is for unlimited.
IsLimit(field, val) == IF val < 0 THEN field < 0 ELSE field = val

\* The options mean what the help says: each field is set by its own option,
\* the last of several counting, and -i takes its default signal only where -I
\* has not given one.
AsGiven(o) ==
  /\ \A letter \in DOMAIN Switches :
       LET field == Switches[letter][1]
       IN  o[field] = IF Given(letter) # {} THEN Switches[letter][2] ELSE GetDefaults[field]
  /\ o.Output = TextOf("o")
  /\ IsLimit(o.CommandLengthLimit, LastOf("c", 120))
  /\ IsLimit(o.FilesInReport, LastOf("r", 0 - 1))
  /\ o.ForwardingSignals = {SIGINT} \cup {scenario.args[i].val : i \in Given("s")}
  /\ o.InterruptionTarget = TextOf("i")
  /\ Given("I") # {} /\ LastOf("I", 0) # 0 => o.InterruptionSignal = LastOf("I", 0)
  /\ Given("i") # {} /\ Given("I") = {} => o.InterruptionSignal = SIGABRT

\* In whatever order the options are given, one never undoes another, and the
\* limits are the numbers given.  Except -w: see WaitsIfAsked.
OptionsTakeEffect == [][at = "main" /\ at' = "block" => AsGiven(opts')]_vars

\* -w has optrace wait for daemons, as the help says (main.cpp:57).
WaitsIfAsked == at \notin {"main", "ended"} /\ Given("w") # {} => opts.WaitDaemons

\* The program is executed only once optrace is in its loop, with the options
\* set, and with the signal mask optrace was started with.
StartsTraced ==
  child.at = "program" =>
    /\ child.blocked = oldmask
    /\ at # "ended" => at \in {"loop", "report"} /\ child.options = ptraceOpts

\* The SIGTRAP by which the child stops itself for optrace (optrace.cpp:40)
\* never ends it while optrace is there, unless another signal has stopped it
\* before: SetupTracer takes that stop for the one it waits for.
TrapIsConsumed ==
  child.code = 128 + SIGTRAP /\ child.at = "exec" => ended # None \/ dropped # {}

\* The signals the user has asked optrace to forward.  Of those that are sent,
\* SIGINT and SIGTERM are among the ones of -S: that -S replaces the list of -s
\* (optrace.cpp:328) is not seen here.
Requested ==
  {SIGINT} \cup {scenario.args[i].val : i \in Given("s")} \cup
  (IF Given("S") = {} THEN {} ELSE {SIGTERM})

\* A signal that has come to optrace, at any time since it has blocked them all
\* before the fork, and that it is to forward, is on its way to the program, or
\* has been taken by it; unless it has been dropped by the first restart.
SignalsKept ==
  \A s \in arrived \cap Requested :
    at \in {"loop", "report"} =>
      \/ s \in pending \cup child.pending \cup child.got \cup dropped
      \/ child.stop = s \/ child.st = "dead" \/ s \in oldmask

\* A signal that is to be forwarded never ends optrace once there is a child.
ForwardedNotFatal ==
  child.st # "none" => ended \notin Requested \cap Blockable

\* With JailForks nothing outlives optrace, unless optrace is killed before it
\* has set PTRACE_O_EXITKILL.
JailHolds ==
  at = "ended" /\ opts.JailForks /\ child.st \in {"running", "stopped"} =>
    ended = SIGKILL /\ child.options = {}

\* A call the context has to know of never takes effect without a stop; except
\* F_DUPFD, which the filter cannot select (bpf_program.cpp:64): it is 0.
FollowedAreSeen == \A c \in unseen : c.nr = "fcntl" /\ c.arg = F_DUPFD

\* No call of the program fails because of the filter while optrace is there
\* to see it.  When optrace has ended without killing its child, they do.
CallsAnswered == at # "ended" => refused = None

\* The startup ends, and while optrace is there every stop of its child does.
NobodyWaits ==
  /\ <>(at \in {"loop", "report", "ended"})
  /\ child.st = "stopped" ~> child.st # "stopped" \/ at = "ended"
==============================================================================
