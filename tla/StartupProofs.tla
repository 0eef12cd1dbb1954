---------------------------- MODULE StartupProofs ----------------------------
(***************************************************************************)
(* The theorems of Startup, for every command line, program, architecture, *)
(* signal mask, and number of signals at any time.  Two invariants carry   *)
(* them.  StartInv says where the child can be while optrace is where it   *)
(* is: how far each lets the other come.  KeptInv follows the signals that *)
(* are forwarded, from the fork to the program.                            *)
(*                                                                         *)
(* What the parser makes of a command line of any length goes by           *)
(* induction, in the form of a least number of options for which the claim *)
(* fails; so does what the filter makes of a call with any argument.       *)
(***************************************************************************)
EXTENDS Startup, SequenceTheorems, WellFoundedInduction, TLAPS

------------------------------------------------------------------------------
(* The inductive invariant *)

TraceOptions == {"TRACESYSGOOD", "TRACEEXEC", "TRACEEXIT", "TRACECLONE", "TRACEFORK",
                 "TRACEVFORK", "EXITKILL", "TRACESECCOMP"}

ChildState ==
  [at : {"none", "unblock", "filter", "traceme", "trap", "exec", "program"},
   st : {"none", "running", "stopped", "dead"},
   stop : Int \cup {None}, code : Int \cup {None},
   blocked : SUBSET Blockable, pending : SUBSET Blockable, got : SUBSET Int,
   filter : BOOLEAN, tracer : {"none", "optrace", "other"}, options : SUBSET TraceOptions]

Typed ==
  /\ scenario \in Scenarios /\ oldmask \in OldMasks
  /\ child \in ChildState /\ TypeOK

\* There is a child from the fork on.
Forked ==
  /\ at \in {"main", "block", "fork"} => child = NoChild
  /\ child.st = "none" => child = NoChild /\ at \in {"main", "block", "fork", "ended"}
  /\ child.st # "none" => child.at # "none"

\* optrace blocks every signal until it handles those it forwards; the child
\* unblocks them first.
Masked ==
  /\ at \in {"fork", "waitpid", "setoptions", "sigaction", "unblock"} => blocked = Blockable
  /\ child.at \notin {"none", "unblock"} => child.blocked = oldmask

OptionsSet ==
  /\ at \in {"waitpid", "setoptions"} => child.options = {}
  /\ at \in {"sigaction", "unblock", "register", "loop", "report"} => child.options = ptraceOpts

\* The child cannot have come further than optrace lets it.
Met ==
  /\ child.at \in {"unblock", "filter", "traceme"} =>
       child.tracer = "none" /\ child.st # "stopped" /\ at \in {"waitpid", "ended"}
  /\ child.at \in {"trap", "exec", "program"} /\ at # "ended" => child.tracer = "optrace"
  /\ at \in {"setoptions", "sigaction", "unblock", "register"} => child.st \in {"stopped", "dead"}
  /\ at = "waitpid" /\ child.at = "exec" => child.st \in {"stopped", "dead"}
  /\ child.at = "program" => at \in {"loop", "report", "ended"}
  /\ at = "report" => child.st = "dead"

\* A filter is there only if optrace asks for its events.
Filtered == child.filter \/ child.at = "filter" => useSecComp

\* The SIGTRAP stops the child where it is to be restarted without it, unless
\* another signal has stopped it before.
Trapped ==
  /\ child.at = "trap" => child.stop # SIGTRAP
  /\ at \in {"loop", "report"} /\ child.at = "trap" => dropped # {}
  /\ at = "loop" /\ child.at = "exec" /\ child.stop = SIGTRAP => dropped # {}

StartInv == Typed /\ Forked /\ Masked /\ OptionsSet /\ Met /\ Filtered /\ Trapped
------------------------------------------------------------------------------
(* What the operators of the child do *)

\* d is where c is, with the same mask, filter and options.
Keeps(c, d) ==
  /\ d \in ChildState
  /\ d.at = c.at /\ d.blocked = c.blocked /\ d.filter = c.filter /\ d.options = c.options

LEMMA Signals ==
  /\ Blockable \subseteq {SIGINT, SIGTERM} /\ None \notin Int
  /\ SIGINT \in Int /\ SIGTERM \in Int /\ SIGTRAP \in Int /\ SIGKILL \in Int /\ Event \in Int
  /\ Event # SIGTRAP /\ SIGTRAP \notin Blockable /\ Event \notin Blockable
  /\ Returned \in Int /\ Failed \in Int
  /\ \A mask \in OldMasks : mask \subseteq Blockable
BY StartupAssumption
DEF Blockable, SIGINT, SIGTERM, SIGKILL, SIGTRAP, Event, Returned, Failed

LEMMA DeadEffect ==
  ASSUME NEW c \in ChildState, NEW code \in Int
  PROVE  LET d == Dead(c, code)
         IN  /\ Keeps(c, d) /\ d.tracer = c.tracer /\ d.got = c.got
             /\ d.st = "dead" /\ d.stop = None /\ d.code = code /\ d.pending = {}
BY DEF Dead, Keeps, ChildState

LEMMA StoppedEffect ==
  ASSUME NEW c \in ChildState, NEW stop \in Int
  PROVE  LET d == Stopped(c, stop)
         IN  /\ Keeps(c, d) /\ d.tracer = c.tracer /\ d.got = c.got
             /\ d.st = "stopped" /\ d.stop = stop /\ d.code = c.code /\ d.pending = c.pending
BY DEF Stopped, Keeps, ChildState

LEMMA GoingEffect ==
  ASSUME NEW c \in ChildState
  PROVE  LET d == Going(c)
         IN  /\ Keeps(c, d) /\ d.tracer = c.tracer /\ d.got = c.got
             /\ d.st = "running" /\ d.stop = None /\ d.code = c.code /\ d.pending = c.pending
BY DEF Going, Keeps, ChildState

\* A signal ends the child or lets it run on; the SIGTRAP does so only once
\* the child is the program.
LEMMA StruckEffect ==
  ASSUME NEW c \in ChildState, NEW s \in Int, NEW d \in Struck(c, s)
  PROVE  /\ Keeps(c, d) /\ d.tracer = c.tracer /\ d.got = c.got \cup {s} /\ d.stop = None
         /\ \/ d.st = "dead" /\ d.code = 128 + s
            \/ /\ d.st = "running" /\ d.code = c.code /\ d.pending = c.pending
               /\ s # SIGTRAP \/ c.at = "program"
<1> DEFINE taken == [c EXCEPT !.got = @ \cup {s}]
<1>1. /\ taken \in ChildState /\ Keeps(c, taken) /\ taken.tracer = c.tracer
      /\ taken.got = c.got \cup {s} /\ taken.code = c.code /\ taken.pending = c.pending
  BY DEF ChildState, Keeps
<1>2. \/ d = Dead(taken, 128 + s)
      \/ d = Going(taken) /\ (s # SIGTRAP \/ c.at = "program")
  BY DEF Struck
<1>3. 128 + s \in Int
  OBVIOUS
<1> HIDE DEF taken
<1> QED  BY <1>1, <1>2, <1>3, DeadEffect, GoingEffect DEF Keeps

\* A signal that is sent is pending, or kills.
LEMMA SentEffect ==
  ASSUME NEW c \in ChildState, NEW s \in SentSignals
  PROVE  LET d == Sent(c, s)
         IN  /\ Keeps(c, d) /\ d.tracer = c.tracer /\ d.got = c.got
             /\ \/ d = c /\ c.st \in {"none", "dead"}
                \/ /\ s = SIGKILL /\ c.st \notin {"none", "dead"}
                   /\ d.st = "dead" /\ d.stop = None /\ d.code = 128 + SIGKILL
                \/ /\ s \in Blockable /\ d.st = c.st /\ d.stop = c.stop /\ d.code = c.code
                   /\ d.pending = c.pending \cup {s}
<1>1. CASE c.st \in {"none", "dead"}
  BY <1>1 DEF Sent, Keeps
<1>2. CASE c.st \notin {"none", "dead"} /\ s = SIGKILL
  <2>1. Sent(c, s) = Dead(c, 128 + SIGKILL)
    BY <1>2 DEF Sent
  <2>2. 128 + SIGKILL \in Int
    BY Signals
  <2> QED  BY <1>2, <2>1, <2>2, DeadEffect
<1>3. CASE c.st \notin {"none", "dead"} /\ s # SIGKILL
  <2> DEFINE d == [c EXCEPT !.pending = @ \cup {s}]
  <2>1. Sent(c, s) = d /\ s \in Blockable
    BY <1>3 DEF Sent, Blockable
  <2>2. /\ Keeps(c, d) /\ d.tracer = c.tracer /\ d.got = c.got
        /\ d.st = c.st /\ d.stop = c.stop /\ d.code = c.code /\ d.pending = c.pending \cup {s}
    BY <2>1 DEF ChildState, Keeps
  <2> HIDE DEF d
  <2> QED  BY <2>1, <2>2
<1> QED  BY <1>1, <1>2, <1>3

\* When its tracer goes the child runs on or dies, in any case the latter if
\* the option says so.
LEMMA AbandonedEffect ==
  ASSUME NEW c \in ChildState, c.st = "stopped" <=> c.stop # None,
         NEW d \in Abandoned(c)
  PROVE  /\ Keeps(c, d)
         /\ \/ d = c /\ (c.tracer # "optrace" \/ c.st = "dead")
            \/ /\ c.tracer = "optrace" /\ c.st # "dead" /\ d.stop = None
               /\ \/ d.st = "dead" /\ d.code \in Int
                  \/ /\ d.st = "running" /\ d.code = c.code /\ d.tracer = "none"
                     /\ "EXITKILL" \notin c.options
<1>1. CASE c.tracer # "optrace" \/ c.st = "dead"
  BY <1>1 DEF Abandoned, Keeps
<1>2. CASE c.tracer = "optrace" /\ c.st # "dead"
  <2> DEFINE free == [c EXCEPT !.tracer = "none"]
  <2>1. /\ Keeps(c, free) /\ free.tracer = "none" /\ free.code = c.code /\ free \in ChildState
    BY DEF ChildState, Keeps
  <2>2. 128 + SIGKILL \in Int /\ (c.st = "stopped" => c.stop \in Int /\ 128 + c.stop \in Int)
    BY Signals DEF ChildState
  <2>3. \/ "EXITKILL" \in c.options /\ d = Dead(c, 128 + SIGKILL)
        \/ "EXITKILL" \notin c.options /\ d = Going(free)
        \/ /\ "EXITKILL" \notin c.options /\ c.st = "stopped"
           /\ d \in Struck(free, c.stop)
    BY <1>2, <2>1 DEF Abandoned, Keeps
  <2> HIDE DEF free
  <2>4. CASE d = Dead(c, 128 + SIGKILL)
    BY <1>2, <2>2, <2>4, DeadEffect
  <2>5. CASE "EXITKILL" \notin c.options /\ d = Going(free)
    BY <1>2, <2>1, <2>5, GoingEffect DEF Keeps
  <2>6. CASE /\ "EXITKILL" \notin c.options /\ c.st = "stopped" /\ d \in Struck(free, c.stop)
    BY <1>2, <2>1, <2>2, <2>6, StruckEffect DEF Keeps
  <2> QED  BY <2>3, <2>4, <2>5, <2>6
<1> QED  BY <1>1, <1>2
------------------------------------------------------------------------------
(* The steps *)

LEMMA SameOptions ==
  ASSUME UNCHANGED <<opts, scenario>>
  PROVE  ptraceOpts' = ptraceOpts /\ (useSecComp' <=> useSecComp)
BY DEF ptraceOpts, useSecComp

\* What does not change while only the child moves.
OptraceStays == UNCHANGED <<scenario, oldmask, opts, at, ended, blocked, handled, pending, dropped>>

\* A move of the child after which it is as typed, and where it may be.
LEMMA ChildMoves ==
  ASSUME StartInv, OptraceStays, child' \in ChildState,
         child.st # "none", child'.st # "none", child'.at # "none",
         child'.st = "stopped" <=> child'.stop # None,
         child'.st = "dead" <=> child'.code # None,
         child'.options = child.options,
         child'.at \notin {"none", "unblock"} => child'.blocked = oldmask,
         Met', Filtered', Trapped'
  PROVE  StartInv'
<1>1. Typed'
  <2>1. scenario' \in Scenarios /\ oldmask' \in OldMasks /\ child' \in ChildState'
    BY DEF StartInv, Typed, OptraceStays, ChildState
  <2>2. TypeOK'
    <3>1. child'.st \in {"none", "running", "stopped", "dead"}
          /\ child'.tracer \in {"none", "optrace", "other"}
      BY DEF ChildState
    <3> QED  BY <3>1 DEF StartInv, Typed, TypeOK, OptraceStays
  <2> QED  BY <2>1, <2>2 DEF Typed
<1>2. Forked'
  BY DEF StartInv, Forked, OptraceStays, NoChild
<1>3. Masked'
  BY DEF StartInv, Masked, OptraceStays
<1>4. OptionsSet'
  BY SameOptions DEF StartInv, OptionsSet, OptraceStays
<1> QED  BY <1>1, <1>2, <1>3, <1>4 DEF StartInv

LEMMA ChildUnblockInv == ASSUME StartInv, ChildUnblock PROVE StartInv'
<1> DEFINE next == IF useSecComp THEN "filter" ELSE "traceme"
<1>1. /\ child' = [child EXCEPT !.blocked = oldmask, !.at = next]
      /\ child \in ChildState /\ child.st = "running" /\ child.at = "unblock"
      /\ next \in {"filter", "traceme"} /\ oldmask \subseteq Blockable
  BY Signals DEF ChildUnblock, Runs, StartInv, Typed
<1>2. /\ child' \in ChildState /\ child'.at = next /\ child'.st = "running"
      /\ child'.stop = child.stop /\ child'.code = child.code /\ child'.blocked = oldmask
      /\ child'.filter = child.filter /\ child'.tracer = child.tracer
      /\ child'.options = child.options
  <2> HIDE DEF next
  <2> QED  BY <1>1 DEF ChildState
<1>3. OptraceStays
  BY DEF ChildUnblock, ChildOnly, tracer, Quiet, histories, OptraceStays
<1>4. Met' /\ Filtered' /\ Trapped'
  BY <1>1, <1>2, <1>3, SameOptions
  DEF StartInv, Met, Filtered, Trapped, Typed, TypeOK, OptraceStays
<1> QED  BY <1>1, <1>2, <1>3, <1>4, ChildMoves DEF StartInv, Typed, TypeOK

\* The child fails or is ended by a signal where it is.
LEMMA ChildDies ==
  ASSUME StartInv, OptraceStays, Keeps(child, child'), child.st # "none",
         child'.tracer = child.tracer, child'.st = "dead", child'.stop = None,
         child'.code \in Int
  PROVE  StartInv'
<1>1. None \notin Int
  BY Signals
<1>2. Met' /\ Filtered' /\ Trapped'
  BY <1>1, SameOptions, Signals
  DEF StartInv, Met, Filtered, Trapped, OptraceStays, Keeps
<1> QED  BY <1>1, <1>2, ChildMoves
  DEF StartInv, Masked, Forked, Keeps, OptraceStays

LEMMA RunsIsChild ==
  ASSUME StartInv, NEW place, Runs(place)
  PROVE  /\ child \in ChildState /\ child.at = place /\ child.st = "running"
         /\ child.stop = None /\ child.code = None
BY DEF StartInv, Typed, TypeOK, Runs

LEMMA InstallBpfProgramInv == ASSUME StartInv, InstallBpfProgram PROVE StartInv'
<1>1. /\ child \in ChildState /\ child.at = "filter" /\ child.st = "running"
      /\ child.stop = None /\ child.code = None
  BY RunsIsChild DEF InstallBpfProgram
<1>2. OptraceStays
  BY DEF InstallBpfProgram, ChildOnly, tracer, Quiet, histories, OptraceStays
<1>3. CASE ChildFails
  BY <1>1, <1>2, <1>3, DeadEffect, ChildDies DEF ChildFails
<1>4. CASE child' = [child EXCEPT !.at = "traceme", !.filter = TRUE]
  <2>1. /\ child' \in ChildState /\ child'.at = "traceme" /\ child'.st = "running"
        /\ child'.stop = None /\ child'.code = None /\ child'.blocked = child.blocked
        /\ child'.filter /\ child'.tracer = child.tracer /\ child'.options = child.options
    BY <1>1, <1>4 DEF ChildState
  <2>2. Met' /\ Filtered' /\ Trapped'
    BY <1>1, <1>2, <2>1, SameOptions DEF StartInv, Met, Filtered, Trapped, OptraceStays
  <2> QED  BY <1>1, <1>2, <2>1, <2>2, ChildMoves DEF StartInv, Masked
<1> QED  BY <1>3, <1>4 DEF InstallBpfProgram

LEMMA PtraceTraceMeInv == ASSUME StartInv, PtraceTraceMe PROVE StartInv'
<1> DEFINE who == IF at = "ended" THEN "other" ELSE "optrace"
<1>1. /\ child \in ChildState /\ child.at = "traceme" /\ child.st = "running"
      /\ child.stop = None /\ child.code = None /\ who \in {"optrace", "other"}
  BY RunsIsChild DEF PtraceTraceMe
<1>2. OptraceStays
  BY DEF PtraceTraceMe, ChildOnly, tracer, Quiet, histories, OptraceStays
<1>3. CASE ChildFails
  BY <1>1, <1>2, <1>3, DeadEffect, ChildDies DEF ChildFails
<1>4. CASE child' = [child EXCEPT !.at = "trap", !.tracer = who]
  <2>1. /\ child' \in ChildState /\ child'.at = "trap" /\ child'.st = "running"
        /\ child'.stop = None /\ child'.code = None /\ child'.blocked = child.blocked
        /\ child'.filter = child.filter /\ child'.tracer = who
        /\ child'.options = child.options
    <3> HIDE DEF who
    <3> QED  BY <1>1, <1>4 DEF ChildState
  <2>2. Met' /\ Filtered' /\ Trapped'
    BY <1>1, <1>2, <2>1, SameOptions, Signals
    DEF StartInv, Met, Filtered, Trapped, OptraceStays
  <2> QED  BY <1>1, <1>2, <2>1, <2>2, ChildMoves DEF StartInv, Masked
<1> QED  BY <1>3, <1>4 DEF PtraceTraceMe

LEMMA StopItselfInv == ASSUME StartInv, StopItself PROVE StartInv'
<1> DEFINE next == [child EXCEPT !.at = "exec"]
<1>1. /\ child \in ChildState /\ child.at = "trap" /\ child.st = "running"
      /\ child.stop = None /\ child.code = None
  BY RunsIsChild DEF StopItself
<1>2. OptraceStays
  BY DEF StopItself, ChildOnly, tracer, Quiet, histories, OptraceStays
<1>3. /\ next \in ChildState /\ next.at = "exec" /\ next.st = "running"
      /\ next.stop = None /\ next.code = None /\ next.blocked = child.blocked
      /\ next.filter = child.filter /\ next.tracer = child.tracer
      /\ next.options = child.options
  BY <1>1 DEF ChildState
<1>4. \/ child.tracer = "none" /\ child' \in Struck(next, SIGTRAP)
      \/ child.tracer # "none" /\ child' = Stopped(next, SIGTRAP)
  BY <1>3 DEF StopItself
<1> HIDE DEF next
<1>5. /\ child' \in ChildState /\ child'.at = "exec" /\ child'.st \in {"stopped", "dead"}
      /\ child'.st = "stopped" <=> child'.stop # None
      /\ child'.st = "dead" <=> child'.code # None
      /\ child'.blocked = child.blocked /\ child'.filter = child.filter
      /\ child'.tracer = child.tracer /\ child'.options = child.options
  <2>1. CASE child' = Stopped(next, SIGTRAP)
    BY <1>3, <2>1, StoppedEffect, Signals DEF Keeps
  <2>2. CASE child' \in Struck(next, SIGTRAP)
    <3>1. 128 + SIGTRAP \in Int
      BY Signals
    <3> QED  BY <1>3, <2>2, <3>1, StruckEffect, Signals DEF Keeps
  <2> QED  BY <1>4, <2>1, <2>2
<1>6. Met' /\ Filtered' /\ Trapped'
  BY <1>1, <1>2, <1>5, SameOptions DEF StartInv, Met, Filtered, Trapped, OptraceStays
<1> QED  BY <1>1, <1>2, <1>5, <1>6, ChildMoves DEF StartInv, Masked

LEMMA ExecuteInv == ASSUME StartInv, Execute PROVE StartInv'
<1> DEFINE next == [child EXCEPT !.at = "program"]
<1>1. /\ child \in ChildState /\ child.at = "exec" /\ child.st = "running"
      /\ child.stop = None /\ child.code = None
  BY RunsIsChild DEF Execute
<1>2. OptraceStays
  BY DEF Execute, ChildOnly, tracer, Quiet, histories, OptraceStays
<1>3. CASE ChildFails
  BY <1>1, <1>2, <1>3, DeadEffect, ChildDies DEF ChildFails
<1>4. CASE child' = next \/ child' = Stopped(next, Event)
  <2>1. /\ next \in ChildState /\ next.at = "program" /\ next.st = "running"
        /\ next.stop = None /\ next.code = None /\ next.blocked = child.blocked
        /\ next.filter = child.filter /\ next.tracer = child.tracer
        /\ next.options = child.options
    BY <1>1 DEF ChildState
  <2> HIDE DEF next
  <2>2. /\ child' \in ChildState /\ child'.at = "program" /\ child'.st \in {"running", "stopped"}
        /\ child'.st = "stopped" <=> child'.stop # None
        /\ child'.code = None
        /\ child'.blocked = child.blocked /\ child'.filter = child.filter
        /\ child'.tracer = child.tracer /\ child'.options = child.options
    BY <1>4, <2>1, StoppedEffect, Signals DEF Keeps
  <2>3. at \in {"loop", "ended"}
    BY <1>1 DEF StartInv, Met, Typed, TypeOK, Forked, NoChild
  <2>4. Met' /\ Filtered' /\ Trapped'
    BY <1>1, <1>2, <2>2, <2>3, SameOptions DEF StartInv, Met, Filtered, Trapped, OptraceStays
  <2> QED  BY <1>1, <1>2, <2>2, <2>4, ChildMoves DEF StartInv, Masked
<1> QED  BY <1>3, <1>4 DEF Execute

LEMMA ChildTakesSignalInv ==
  ASSUME StartInv, NEW s \in Blockable, ChildTakesSignal(s)
  PROVE  StartInv'
<1> DEFINE next == [child EXCEPT !.pending = @ \ {s}]
<1>1. /\ child \in ChildState /\ child.st = "running"
      /\ child.stop = None /\ child.code = None /\ s \in Int /\ s # SIGTRAP /\ None \notin Int
  BY Signals DEF ChildTakesSignal, StartInv, Typed, TypeOK
<1>2. OptraceStays
  BY DEF ChildTakesSignal, ChildOnly, tracer, Quiet, histories, OptraceStays
<1>3. /\ next \in ChildState /\ next.at = child.at /\ next.st = "running"
      /\ next.stop = None /\ next.code = None /\ next.blocked = child.blocked
      /\ next.filter = child.filter /\ next.tracer = child.tracer
      /\ next.options = child.options
  BY <1>1 DEF ChildState
<1>4. \/ child.tracer # "none" /\ child' = Stopped(next, s)
      \/ child.tracer = "none" /\ child' \in Struck(next, s)
  BY DEF ChildTakesSignal
<1> HIDE DEF next
<1>5. /\ child' \in ChildState /\ child'.at = child.at
      /\ child'.blocked = child.blocked /\ child'.filter = child.filter
      /\ child'.tracer = child.tracer /\ child'.options = child.options
      /\ \/ child'.st = "stopped" /\ child'.stop = s /\ child'.code = None /\ child.tracer # "none"
         \/ child'.st = "running" /\ child'.stop = None /\ child'.code = None
         \/ child'.st = "dead" /\ child'.stop = None /\ child'.code # None
  <2>1. CASE child.tracer # "none" /\ child' = Stopped(next, s)
    BY <1>1, <1>3, <2>1, StoppedEffect DEF Keeps
  <2>2. CASE child' \in Struck(next, s)
    <3>1. 128 + s \in Int
      BY <1>1
    <3> QED  BY <1>1, <1>3, <2>2, <3>1, StruckEffect DEF Keeps
  <2> QED  BY <1>4, <2>1, <2>2
<1>6. Met' /\ Filtered' /\ Trapped'
  BY <1>1, <1>2, <1>5, SameOptions
  DEF StartInv, Met, Filtered, Trapped, OptraceStays, Forked, NoChild
<1>7. child'.at \notin {"none", "unblock"} => child'.blocked = oldmask
  BY <1>5 DEF StartInv, Masked
<1>8. /\ child.st # "none" /\ child'.st # "none" /\ child'.at # "none"
      /\ child'.st = "stopped" <=> child'.stop # None
      /\ child'.st = "dead" <=> child'.code # None
  BY <1>1, <1>5 DEF StartInv, Forked
<1> QED  BY <1>2, <1>5, <1>6, <1>7, <1>8, ChildMoves

LEMMA ProgramInv ==
  ASSUME StartInv, ProgramEnds \/ \E c \in ProgramCalls : ProgramCall(c)
  PROVE  StartInv'
<1>1. /\ child \in ChildState /\ child.at = "program" /\ child.st = "running"
      /\ child.stop = None /\ child.code = None
  BY RunsIsChild DEF ProgramEnds, ProgramCall
<1>2. OptraceStays
  BY DEF ProgramEnds, ProgramCall, ChildOnly, tracer, Quiet, histories, OptraceStays
<1>3. CASE child' = Dead(child, 0)
  BY <1>1, <1>2, <1>3, DeadEffect, ChildDies
<1>4. CASE child' = Stopped(child, Event) \/ child' = child
  <2>1. /\ child' \in ChildState /\ child'.at = "program" /\ child'.st \in {"running", "stopped"}
        /\ child'.st = "stopped" <=> child'.stop # None
        /\ child'.code = None
        /\ child'.blocked = child.blocked /\ child'.filter = child.filter
        /\ child'.tracer = child.tracer /\ child'.options = child.options
    BY <1>1, <1>4, StoppedEffect, Signals DEF Keeps
  <2>2. at \in {"loop", "ended"}
    BY <1>1 DEF StartInv, Met
  <2>3. Met' /\ Filtered' /\ Trapped'
    BY <1>1, <1>2, <2>1, <2>2, SameOptions DEF StartInv, Met, Filtered, Trapped, OptraceStays
  <2> QED  BY <1>1, <1>2, <2>1, <2>3, ChildMoves DEF StartInv, Masked
<1> QED  BY <1>3, <1>4 DEF ProgramEnds, ProgramCall

LEMMA LoopRestartInv == ASSUME StartInv, LoopRestart PROVE StartInv'
<1>1. /\ child \in ChildState /\ child.st = "stopped" /\ child.stop \in Int
      /\ child.code = None /\ at = "loop" /\ None \notin Int
  BY Signals DEF LoopRestart, StartInv, Typed, TypeOK, ChildState
<1>2. OptraceStays
  BY DEF LoopRestart, tracer, Quiet, histories, OptraceStays
<1>3. /\ Keeps(child, child') /\ child'.tracer = child.tracer /\ child'.stop = None
      /\ \/ child'.st = "dead" /\ child'.code \in Int
         \/ child'.st = "running" /\ child'.code = None
  <2>1. CASE child' = Going(child)
    BY <1>1, <2>1, GoingEffect
  <2>2. CASE child' \in Struck(child, child.stop)
    <3>1. 128 + child.stop \in Int
      BY <1>1
    <3> QED  BY <1>1, <2>2, <3>1, StruckEffect
  <2> QED  BY <2>1, <2>2 DEF LoopRestart
<1>4. Met' /\ Filtered' /\ Trapped'
  BY <1>1, <1>2, <1>3, SameOptions, Signals
  DEF StartInv, Met, Filtered, Trapped, OptraceStays, Keeps
<1>5. child'.at \notin {"none", "unblock"} => child'.blocked = oldmask
  BY <1>3 DEF StartInv, Masked, Keeps
<1>6. /\ child.st # "none" /\ child'.st # "none" /\ child'.at # "none"
      /\ child'.st = "stopped" <=> child'.stop # None
      /\ child'.st = "dead" <=> child'.code # None
  BY <1>1, <1>3 DEF StartInv, Forked, Keeps
<1> QED  BY <1>2, <1>3, <1>4, <1>5, <1>6, ChildMoves DEF Keeps
\* optrace ends: its child, or what a SIGKILL has left of it, goes on alone.
LEMMA EndInv ==
  ASSUME StartInv, at # "ended", NEW why \in Int, NEW c, End(why, c),
         UNCHANGED <<scenario, oldmask>>, (useSecComp' <=> useSecComp) \/ child = NoChild,
         Keeps(child, c), c.tracer = child.tracer,
         c = child \/ (c.st = "dead" /\ c.stop = None /\ c.code \in Int /\ child.st # "none")
  PROVE  StartInv'
<1>1. /\ c \in ChildState /\ None \notin Int
      /\ c.st = "stopped" <=> c.stop # None
      /\ c.st = "dead" <=> c.code # None
  BY Signals DEF Keeps, StartInv, Typed, TypeOK
<1>2. /\ Keeps(c, child') /\ child' \in ChildState
      /\ \/ child' = c
         \/ /\ c.tracer = "optrace" /\ c.st # "dead" /\ child'.stop = None
            /\ \/ child'.st = "dead" /\ child'.code \in Int
               \/ /\ child'.st = "running" /\ child'.code = c.code /\ child'.tracer = "none"
  BY <1>1, AbandonedEffect DEF End, Keeps
<1>3. at' = "ended" /\ ended' = why /\ UNCHANGED <<blocked, handled, pending, scenario, oldmask>>
  BY DEF End
<1>4. Typed'
  <2>1. /\ child'.st = "stopped" <=> child'.stop # None
        /\ child'.st = "dead" <=> child'.code # None
    BY <1>1, <1>2
  <2>2. child' \in ChildState' /\ child'.st \in {"none", "running", "stopped", "dead"}
        /\ child'.tracer \in {"none", "optrace", "other"}
    BY <1>2 DEF ChildState
  <2> QED  BY <1>1, <1>3, <2>1, <2>2 DEF StartInv, Typed, TypeOK, Blockable
<1>5. Forked'
  <2>1. child.st = "none" => child = NoChild
    BY DEF StartInv, Forked
  <2>2. child'.st = "none" => child' = NoChild
    BY <1>1, <1>2, <2>1 DEF NoChild
  <2>3. child'.st # "none" => child'.at # "none"
    <3>1. child'.at = child.at
      BY <1>2 DEF Keeps
    <3>2. child.st # "none" => child.at # "none"
      BY DEF StartInv, Forked
    <3> QED  BY <1>2, <2>1, <3>1, <3>2 DEF NoChild
  <2> QED  BY <1>3, <2>2, <2>3 DEF Forked
<1>6. Masked' /\ OptionsSet'
  BY <1>2, <1>3 DEF StartInv, Masked, OptionsSet, Keeps
<1>7. Met'
  BY <1>1, <1>2, <1>3 DEF StartInv, Met, Keeps
<1>8. Filtered' /\ Trapped'
  <2>1. child'.at = child.at /\ child'.filter = child.filter
    BY <1>2 DEF Keeps
  <2>2. child = NoChild => ~child.filter /\ child.at = "none"
    BY DEF NoChild
  <2>3. Filtered'
    BY <2>1, <2>2 DEF StartInv, Filtered
  <2>4. Trapped'
    BY <1>1, <1>2, <1>3, <2>1, Signals DEF StartInv, Trapped
  <2> QED  BY <2>3, <2>4
<1> QED  BY <1>4, <1>5, <1>6, <1>7, <1>8 DEF StartInv

LEMMA SameChildEnds ==
  ASSUME StartInv, at # "ended", NEW why \in Int, End(why, child), UNCHANGED opts,
         UNCHANGED <<scenario, oldmask>>
  PROVE  StartInv'
<1>1. Keeps(child, child)
  BY DEF StartInv, Typed, Keeps
<1> QED  BY <1>1, SameOptions, EndInv

\* optrace goes on, and leaves the child alone.
LEMMA OptraceMoves ==
  ASSUME StartInv, UNCHANGED <<scenario, oldmask, opts, child, ended>>,
         at # "ended", at' # "ended", TypeOK', Forked', Masked', OptionsSet', Met', Trapped'
  PROVE  StartInv'
<1>1. Typed'
  BY DEF StartInv, Typed, ChildState, Blockable
<1>2. Filtered'
  BY SameOptions DEF StartInv, Filtered
<1> QED  BY <1>1, <1>2 DEF StartInv

LEMMA MainInv == ASSUME StartInv, Main PROVE StartInv'
<1>1. child = NoChild /\ at = "main" /\ child \in ChildState
  BY DEF Main, StartInv, Forked, Typed
<1>2. UNCHANGED <<scenario, oldmask>>
  BY DEF Main, Quiet
<1>3. CASE End(Returned, child)
  <2>1. Keeps(child, child)
    BY <1>1 DEF Keeps
  <2> QED  BY <1>1, <1>2, <1>3, <2>1, EndInv, Signals
<1>4. CASE Goto("block") /\ UNCHANGED <<child, blocked, handled, pending>>
  <2>1. at' = "block" /\ ended' = ended /\ child' = child /\ child' = NoChild
    BY <1>1, <1>4 DEF Goto
  <2>2. Typed'
    BY <1>1, <1>2, <1>4, <2>1 DEF StartInv, Typed, TypeOK, ChildState, Blockable
  <2>3. Forked' /\ Masked' /\ OptionsSet' /\ Met' /\ Filtered' /\ Trapped'
    BY <2>1, Signals DEF Forked, Masked, OptionsSet, Met, Filtered, Trapped, NoChild
  <2> QED  BY <2>2, <2>3 DEF StartInv
<1> QED  BY <1>3, <1>4 DEF Main

LEMMA BlockSignalsInv == ASSUME StartInv, BlockSignals PROVE StartInv'
<1>1. /\ at = "block" /\ at' = "fork" /\ blocked' = Blockable
      /\ UNCHANGED <<scenario, oldmask, opts, child, ended, handled, pending>>
  BY DEF BlockSignals, Goto, Quiet
<1>2. TypeOK'
  BY <1>1 DEF StartInv, Typed, TypeOK, Blockable
<1>3. Forked' /\ Masked' /\ OptionsSet' /\ Met' /\ Trapped'
  BY <1>1 DEF StartInv, Forked, Masked, OptionsSet, Met, Trapped, Blockable, NoChild
<1> QED  BY <1>1, <1>2, <1>3, OptraceMoves

LEMMA ForkInv == ASSUME StartInv, Fork PROVE StartInv'
<1>1. at = "fork" /\ UNCHANGED <<scenario, oldmask, opts>> /\ None \notin Int
  BY Signals DEF Fork, Quiet
<1>2. CASE End(Failed, child)
  BY <1>1, <1>2, SameChildEnds, Signals
<1>3. CASE /\ Goto("waitpid")
           /\ child' = [NoChild EXCEPT !.at = "unblock", !.st = "running", !.blocked = blocked]
           /\ UNCHANGED <<blocked, handled, pending>>
  <2>1. /\ at' = "waitpid" /\ ended' = ended /\ blocked \subseteq Blockable /\ child = NoChild
        /\ UNCHANGED <<blocked, handled, pending>>
    BY <1>1, <1>3 DEF Goto, StartInv, Typed, TypeOK, Forked
  <2>2. /\ child' \in ChildState /\ child'.at = "unblock" /\ child'.st = "running"
        /\ child'.stop = None /\ child'.code = None /\ ~child'.filter
        /\ child'.tracer = "none" /\ child'.options = {}
    BY <1>3, <2>1 DEF NoChild, ChildState
  <2>3. Typed'
    <3>1. TypeOK'
      BY <1>1, <2>1, <2>2 DEF StartInv, Typed, TypeOK, Blockable
    <3> QED  BY <1>1, <2>2, <3>1 DEF StartInv, Typed, ChildState, Blockable
  <2>4. Forked' /\ OptionsSet' /\ Met' /\ Filtered' /\ Trapped'
    BY <2>1, <2>2, Signals DEF Forked, OptionsSet, Met, Filtered, Trapped
  <2>5. Masked'
    BY <1>1, <2>1, <2>2 DEF StartInv, Masked, Blockable
  <2> QED  BY <2>3, <2>4, <2>5 DEF StartInv
<1> QED  BY <1>2, <1>3 DEF Fork
LEMMA WaitForChildInv == ASSUME StartInv, WaitForChild PROVE StartInv'
<1>1. at = "waitpid" /\ UNCHANGED <<scenario, oldmask, opts>>
  BY DEF WaitForChild, Quiet
<1>2. CASE End(Failed, child)
  BY <1>1, <1>2, SameChildEnds, Signals
<1>3. CASE /\ child.st = "stopped" /\ Goto("setoptions")
           /\ UNCHANGED <<child, blocked, handled, pending>>
  <2>1. at' = "setoptions" /\ ended' = ended
    BY <1>3 DEF Goto
  <2>2. TypeOK'
    BY <1>1, <1>3, <2>1 DEF StartInv, Typed, TypeOK, Blockable
  <2>3. Forked' /\ Masked' /\ OptionsSet' /\ Met' /\ Trapped'
    BY <1>1, <1>3, <2>1
    DEF StartInv, Forked, Masked, OptionsSet, Met, Trapped, Blockable, NoChild
  <2> QED  BY <1>1, <1>3, <2>1, <2>2, <2>3, OptraceMoves
<1> QED  BY <1>2, <1>3 DEF WaitForChild

LEMMA SetOptionsInv == ASSUME StartInv, SetOptions PROVE StartInv'
<1>1. at = "setoptions" /\ UNCHANGED <<scenario, oldmask, opts>>
  BY DEF SetOptions, Quiet
<1>2. CASE End(Failed, child)
  BY <1>1, <1>2, SameChildEnds, Signals
<1>3. CASE /\ child.st # "dead" /\ Goto("sigaction")
           /\ child' = [child EXCEPT !.options = ptraceOpts]
           /\ UNCHANGED <<blocked, handled, pending>>
  <2>1. at' = "sigaction" /\ ended' = ended /\ child.st = "stopped" /\ child \in ChildState
    BY <1>1, <1>3 DEF Goto, StartInv, Met, Typed
  <2>2. ptraceOpts \in SUBSET TraceOptions
    BY DEF ptraceOpts, TraceOptions
  <2> DEFINE asked == ptraceOpts
  <2>3. asked \in SUBSET TraceOptions /\ child' = [child EXCEPT !.options = asked]
    BY <1>3, <2>2
  <2>4. /\ child' \in ChildState /\ child'.at = child.at /\ child'.st = "stopped"
        /\ child'.stop = child.stop /\ child'.code = child.code /\ child'.filter = child.filter
        /\ child'.tracer = child.tracer /\ child'.options = asked
        /\ child'.blocked = child.blocked
    <3> HIDE DEF asked
    <3> QED  BY <2>1, <2>3 DEF ChildState
  <2>5. child'.options = ptraceOpts'
    BY <1>1, <2>4, SameOptions
  <2>6. Typed'
    <3>1. TypeOK'
      BY <1>1, <1>3, <2>1, <2>4 DEF StartInv, Typed, TypeOK, Blockable
    <3> QED  BY <1>1, <2>4, <3>1 DEF StartInv, Typed, ChildState, Blockable
  <2>7. Forked' /\ Masked' /\ Met' /\ Trapped'
    BY <1>1, <1>3, <2>1, <2>4
    DEF StartInv, Forked, Masked, Met, Trapped, Blockable
  <2>8. OptionsSet' /\ Filtered'
    BY <1>1, <2>1, <2>4, <2>5, SameOptions DEF StartInv, OptionsSet, Filtered
  <2> QED  BY <2>6, <2>7, <2>8 DEF StartInv
<1> QED  BY <1>2, <1>3 DEF SetOptions

LEMMA SetupSignalForwardingInv == ASSUME StartInv, SetupSignalForwarding PROVE StartInv'
<1>1. at = "sigaction" /\ UNCHANGED <<scenario, oldmask, opts>>
  BY DEF SetupSignalForwarding, Quiet
<1>2. CASE End(Failed, child)
  BY <1>1, <1>2, SameChildEnds, Signals
<1>3. CASE /\ Forwarded \subseteq Catchable /\ Goto("unblock")
           /\ handled' = Forwarded /\ UNCHANGED <<child, blocked, pending>>
  <2>1. at' = "unblock" /\ ended' = ended /\ handled' \subseteq 1 .. 64
    BY <1>3 DEF Goto, Catchable
  <2>2. TypeOK'
    BY <1>1, <1>3, <2>1 DEF StartInv, Typed, TypeOK, Blockable
  <2>3. Forked' /\ Masked' /\ Met' /\ Trapped'
    BY <1>1, <1>3, <2>1 DEF StartInv, Forked, Masked, Met, Trapped, Blockable, NoChild
  <2>4. OptionsSet'
    BY <1>1, <1>3, <2>1, SameOptions DEF StartInv, OptionsSet
  <2> QED  BY <1>1, <1>3, <2>1, <2>2, <2>3, <2>4, OptraceMoves
<1> QED  BY <1>2, <1>3 DEF SetupSignalForwarding

LEMMA UnblockSignalsInv == ASSUME StartInv, UnblockSignals PROVE StartInv'
<1>1. /\ at = "unblock" /\ at' = "register" /\ blocked' = oldmask /\ oldmask \subseteq Blockable
      /\ UNCHANGED <<scenario, oldmask, opts, child, ended, handled, pending>>
  BY Signals DEF UnblockSignals, Goto, Quiet, StartInv, Typed
<1>2. TypeOK'
  BY <1>1 DEF StartInv, Typed, TypeOK, Blockable
<1>3. Forked' /\ Masked' /\ OptionsSet' /\ Met' /\ Trapped'
  BY <1>1, SameOptions DEF StartInv, Forked, Masked, OptionsSet, Met, Trapped, NoChild
<1> QED  BY <1>1, <1>2, <1>3, OptraceMoves

LEMMA FirstRestartInv == ASSUME StartInv, FirstRestart PROVE StartInv'
<1>1. at = "register" /\ UNCHANGED <<scenario, oldmask, opts>>
  BY DEF FirstRestart
<1>2. CASE End(Failed, child)
  BY <1>1, <1>2, SameChildEnds, Signals
<1>3. CASE /\ child.st # "dead" /\ Goto("loop") /\ child' = Going(child)
           /\ dropped' = IF child.stop = SIGTRAP THEN {} ELSE {child.stop}
           /\ UNCHANGED <<blocked, handled, pending>>
  <2>1. /\ at' = "loop" /\ ended' = ended /\ child.st = "stopped" /\ child \in ChildState
        /\ child.code = None
    BY <1>1, <1>3 DEF Goto, StartInv, Met, Typed, TypeOK
  <2>2. /\ Keeps(child, child') /\ child'.st = "running" /\ child'.stop = None
        /\ child'.code = None /\ child'.tracer = child.tracer
    BY <1>3, <2>1, GoingEffect
  <2>3. Typed'
    <3>1. TypeOK'
      BY <1>1, <1>3, <2>1, <2>2 DEF StartInv, Typed, TypeOK, Blockable
    <3> QED  BY <1>1, <2>2, <3>1 DEF StartInv, Typed, ChildState, Blockable, Keeps
  <2>4. Forked' /\ Masked' /\ Met'
    BY <1>1, <2>1, <2>2 DEF StartInv, Forked, Masked, Met, Keeps
  <2>5. OptionsSet' /\ Filtered'
    BY <1>1, <2>1, <2>2, SameOptions DEF StartInv, OptionsSet, Filtered, Keeps
  <2>6. Trapped'
    BY <1>1, <1>3, <2>1, <2>2, Signals DEF StartInv, Trapped, Keeps
  <2> QED  BY <2>3, <2>4, <2>5, <2>6 DEF StartInv
<1> QED  BY <1>2, <1>3 DEF FirstRestart

LEMMA LoopReturnsInv == ASSUME StartInv, LoopReturns PROVE StartInv'
<1>1. /\ at = "loop" /\ at' = "report" /\ child.st = "dead"
      /\ UNCHANGED <<scenario, oldmask, opts, child, ended, blocked, handled, pending, dropped>>
  BY DEF LoopReturns, Goto, Quiet, histories
<1>2. TypeOK'
  BY <1>1 DEF StartInv, Typed, TypeOK, Blockable
<1>3. Forked' /\ Masked' /\ OptionsSet' /\ Met' /\ Trapped'
  BY <1>1, SameOptions DEF StartInv, Forked, Masked, OptionsSet, Met, Trapped, NoChild
<1> QED  BY <1>1, <1>2, <1>3, OptraceMoves

LEMMA ReportInv == ASSUME StartInv, Report PROVE StartInv'
BY SameChildEnds, Signals DEF Report, Quiet

\* A signal comes to the child, or kills it, whatever optrace does at the time.
LEMMA SentInv ==
  ASSUME StartInv, NEW s \in SentSignals, child' = Sent(child, s),
         UNCHANGED <<scenario, oldmask, opts, at, ended, blocked, handled, dropped>>,
         pending' \subseteq Blockable
  PROVE  StartInv'
<1>1. /\ child \in ChildState /\ None \notin Int /\ 128 + SIGKILL \in Int
      /\ Keeps(child, child') /\ child'.tracer = child.tracer
      /\ \/ child' = child
         \/ /\ child.st # "none" /\ child'.st = "dead" /\ child'.stop = None
            /\ child'.code = 128 + SIGKILL
         \/ /\ child'.st = child.st /\ child'.stop = child.stop /\ child'.code = child.code
            /\ child.st # "none"
  <2>1. child \in ChildState /\ None \notin Int /\ 128 + SIGKILL \in Int
    BY Signals DEF StartInv, Typed
  <2>2. child.st \in {"none", "dead"} \/ child.st \notin {"none", "dead"}
    OBVIOUS
  <2>3. child.st \notin {"none", "dead"} \/ child' = child
    BY DEF Sent
  <2> QED  BY <2>1, <2>3, SentEffect
<1>2. /\ child'.st = "stopped" <=> child'.stop # None
      /\ child'.st = "dead" <=> child'.code # None
  BY <1>1 DEF StartInv, Typed, TypeOK
<1>3. Typed'
  <2>1. TypeOK'
    <3>1. child'.st \in {"none", "running", "stopped", "dead"}
          /\ child'.tracer \in {"none", "optrace", "other"}
      BY <1>1 DEF Keeps, ChildState
    <3> QED  BY <1>2, <3>1 DEF StartInv, Typed, TypeOK, Blockable
  <2> QED  BY <1>1, <2>1 DEF StartInv, Typed, ChildState, Blockable, Keeps
<1>4. Forked'
  BY <1>1 DEF StartInv, Forked, NoChild, Keeps
<1>5. Masked' /\ Met' /\ Trapped'
  BY <1>1, Signals DEF StartInv, Masked, Met, Trapped, Keeps, Blockable
<1>6. OptionsSet' /\ Filtered'
  BY <1>1, SameOptions DEF StartInv, OptionsSet, Filtered, Keeps
<1> QED  BY <1>3, <1>4, <1>5, <1>6 DEF StartInv

LEMMA TakeSignalInv ==
  ASSUME StartInv, NEW s \in Blockable, TakeSignal(s)
  PROVE  StartInv'
<1>1. /\ at # "ended" /\ pending \subseteq Blockable /\ s \in SentSignals /\ s \in Int
      /\ UNCHANGED <<scenario, oldmask, opts, dropped>>
  BY Signals DEF TakeSignal, StartInv, Typed, TypeOK, Quiet, histories, Blockable
<1>2. CASE child' = Sent(child, s) /\ pending' = pending \ {s}
           /\ UNCHANGED <<at, ended, blocked, handled>>
  BY <1>1, <1>2, SentInv
<1>3. CASE End(s, child)
  BY <1>1, <1>3, SameChildEnds
<1>4. CASE pending' = pending \ {s} /\ UNCHANGED <<at, ended, blocked, handled, child>>
  <2>1. TypeOK'
    BY <1>1, <1>4 DEF StartInv, Typed, TypeOK, Blockable
  <2>2. Forked' /\ Masked' /\ OptionsSet' /\ Met' /\ Trapped'
    BY <1>1, <1>4, SameOptions
    DEF StartInv, Forked, Masked, OptionsSet, Met, Trapped, NoChild, Blockable
  <2> QED  BY <1>1, <1>4, <2>1, <2>2, OptraceMoves
<1> QED  BY <1>2, <1>3, <1>4 DEF TakeSignal

LEMMA SendInv ==
  ASSUME StartInv, NEW s \in SentSignals, NEW targets, Send(s, targets)
  PROVE  StartInv'
<1> DEFINE c == IF "child" \in targets THEN Sent(child, s) ELSE child
<1>1. at # "ended" /\ UNCHANGED <<scenario, oldmask, opts, dropped>> /\ child \in ChildState
      /\ pending \subseteq Blockable
  BY DEF Send, StartInv, Typed, TypeOK
<1>2. /\ Keeps(child, c) /\ c.tracer = child.tracer /\ (c = child \/ c = Sent(child, s))
  BY <1>1, SentEffect DEF Keeps
<1>3. CASE s = SIGKILL /\ End(s, c)
  <2>1. c = child \/ (c.st = "dead" /\ c.stop = None /\ c.code \in Int /\ child.st # "none")
    <3>1. 128 + SIGKILL \in Int /\ SIGKILL \notin Blockable
      BY Signals DEF Blockable
    <3> QED  BY <1>1, <1>2, <1>3, <3>1, SentEffect
  <2> HIDE DEF c
  <2> QED  BY <1>1, <1>2, <1>3, <2>1, SameOptions, EndInv, Signals
<1>4. CASE child' = c /\ pending' \subseteq Blockable /\ UNCHANGED <<at, ended, blocked, handled>>
  <2>1. CASE child' = Sent(child, s)
    BY <1>1, <1>4, <2>1, SentInv
  <2>2. CASE child' = child
    <3>1. TypeOK'
      BY <1>1, <1>4, <2>2 DEF StartInv, Typed, TypeOK, Blockable
    <3>2. Forked' /\ Masked' /\ OptionsSet' /\ Met' /\ Trapped'
      BY <1>1, <1>4, <2>2, SameOptions
      DEF StartInv, Forked, Masked, OptionsSet, Met, Trapped, NoChild, Blockable
    <3> QED  BY <1>1, <1>4, <2>2, <3>1, <3>2, OptraceMoves
  <2> QED  BY <1>2, <1>4, <2>1, <2>2
<1>5. \/ s = SIGKILL /\ End(s, c)
      \/ child' = c /\ pending' \subseteq Blockable /\ UNCHANGED <<at, ended, blocked, handled>>
  <2>1. s # SIGKILL => s \in Blockable
    BY DEF Blockable
  <2> HIDE DEF c
  <2> QED  BY <1>1, <2>1 DEF Send, tracer, c
<1> QED  BY <1>3, <1>4, <1>5

LEMMA StartInvStutters == ASSUME StartInv, UNCHANGED vars PROVE StartInv'
<1>1. UNCHANGED <<scenario, oldmask, opts, at, ended, blocked, handled, pending, child, dropped>>
  BY DEF vars, tracer, histories
<1> QED
  BY <1>1, SameOptions
  DEF StartInv, Typed, TypeOK, ChildState, Blockable, Forked, NoChild, Masked, OptionsSet, Met,
      Filtered, Trapped

LEMMA StartInvInit == ASSUME Init PROVE StartInv
<1>1. child = NoChild /\ at = "main" /\ ended = None /\ oldmask \subseteq Blockable
  BY Signals DEF Init
<1>2. Typed
  BY <1>1 DEF Init, Typed, TypeOK, ChildState, NoChild
<1> QED
  BY <1>1, <1>2, Signals
  DEF StartInv, Forked, Masked, OptionsSet, Met, Filtered, Trapped, NoChild

LEMMA StartInvNext == ASSUME StartInv, [Next]_vars PROVE StartInv'
<1>1. CASE Optrace
  BY <1>1, MainInv, BlockSignalsInv, ForkInv, WaitForChildInv, SetOptionsInv,
     SetupSignalForwardingInv, UnblockSignalsInv, FirstRestartInv, LoopRestartInv,
     LoopReturnsInv, ReportInv, TakeSignalInv DEF Optrace
<1>2. CASE Child
  BY <1>2, ChildUnblockInv, InstallBpfProgramInv, PtraceTraceMeInv, StopItselfInv, ExecuteInv,
     ChildTakesSignalInv DEF Child
<1>3. CASE ProgramEnds \/ \E c \in ProgramCalls : ProgramCall(c)
  BY <1>3, ProgramInv
<1>4. CASE \E s \in SentSignals, targets \in (SUBSET {"optrace", "child"}) \ {{}} :
             Send(s, targets)
  BY <1>4, SendInv
<1>5. CASE UNCHANGED vars
  BY <1>5, StartInvStutters
<1> QED  BY <1>1, <1>2, <1>3, <1>4, <1>5 DEF Next, AllOver
------------------------------------------------------------------------------
(* What the properties need besides: the steps of the child, and of optrace *)

\* A signal has come to the child.
Has(c, s) == s \in c.pending \cup c.got \/ c.stop = s

\* A step of the child alone: it keeps its options and the signals that have
\* come to it, and the SIGTRAP by which it stops itself does not end it while
\* optrace is there.
ChildStep ==
  /\ UNCHANGED <<scenario, oldmask, opts, tracer, arrived, dropped>>
  /\ child'.options = child.options
  /\ child.st \in {"running", "stopped"} /\ child.at # "none" /\ child'.at # "none"
  /\ child'.st # "none"
  /\ child'.code = 128 + SIGTRAP /\ child'.at = "exec" => dropped # {} \/ at = "ended"
  /\ \A s \in Blockable : Has(child, s) => Has(child', s) \/ child'.st = "dead"

ChildMovesAlone ==
  \/ Child \/ LoopRestart \/ ProgramEnds \/ \E c \in ProgramCalls : ProgramCall(c)

\* The child dies, of another signal, or goes on with the same signals.
LEMMA ChildStepKeeps ==
  ASSUME UNCHANGED <<scenario, oldmask, opts, tracer, arrived, dropped>>, StartInv,
         child'.options = child.options, child.st \in {"running", "stopped"},
         child.at # "none", child'.at # "none",
         child'.st # "none",
         \/ child'.st = "dead" /\ child'.code # 128 + SIGTRAP
         \/ /\ child'.code = None
            /\ \A s \in Blockable : Has(child, s) => Has(child', s)
  PROVE  ChildStep
<1>1. 128 + SIGTRAP \in Int /\ None \notin Int
  BY Signals
<1> QED  BY <1>1 DEF ChildStep

\* The fields a step of the child up to the program does not touch.
LEMMA ChildGoesOn ==
  ASSUME StartInv, child.st = "running", child' \in ChildState, ChildOnly,
         child'.st = "running", child'.code = None, child'.stop = None, child'.at # "none",
         child'.options = child.options, child'.pending = child.pending, child'.got = child.got
  PROVE  ChildStep
<1>1. child.stop = None /\ child.at # "none" /\ None \notin Int /\ Blockable \subseteq Int
  BY Signals DEF StartInv, Typed, TypeOK, Forked
<1>2. UNCHANGED <<scenario, oldmask, opts, tracer, arrived, dropped>>
  BY DEF ChildOnly, Quiet, histories
<1> QED  BY <1>1, <1>2, ChildStepKeeps DEF Has

LEMMA ChildStops ==
  ASSUME StartInv, child.st = "running", ChildOnly, NEW c \in ChildState, NEW stop \in Int,
         child' = Stopped(c, stop), c.code = None, c.at # "none",
         c.options = child.options, c.got = child.got,
         child.pending \subseteq c.pending \cup {stop}
  PROVE  ChildStep
<1>1. child.stop = None /\ child.at # "none" /\ None \notin Int /\ Blockable \subseteq Int
  BY Signals DEF StartInv, Typed, TypeOK, Forked
<1>2. UNCHANGED <<scenario, oldmask, opts, tracer, arrived, dropped>>
  BY DEF ChildOnly, Quiet, histories
<1>3. /\ child'.st = "stopped" /\ child'.stop = stop /\ child'.code = None
      /\ child'.at # "none" /\ child'.options = child.options
      /\ child'.got = child.got /\ child'.pending = c.pending
  BY StoppedEffect DEF Keeps
<1> QED  BY <1>1, <1>2, <1>3, ChildStepKeeps DEF Has

LEMMA ChildFailsStep ==
  ASSUME StartInv, child.st = "running", ChildOnly, NEW code \in {0, 2}, child' = Dead(child, code)
  PROVE  ChildStep
<1>1. child.at # "none" /\ child \in ChildState /\ code \in Int /\ code # 128 + SIGTRAP
  BY Signals DEF StartInv, Typed, Forked, SIGTRAP
<1>2. UNCHANGED <<scenario, oldmask, opts, tracer, arrived, dropped>>
  BY DEF ChildOnly, Quiet, histories
<1>3. /\ child'.st = "dead" /\ child'.code = code
      /\ child'.at # "none" /\ child'.options = child.options
  BY <1>1, DeadEffect DEF Keeps
<1> QED  BY <1>1, <1>2, <1>3, ChildStepKeeps

LEMMA ChildUnblockStep == ASSUME StartInv, ChildUnblock PROVE ChildStep
<1> DEFINE next == IF useSecComp THEN "filter" ELSE "traceme"
<1>1. /\ child' = [child EXCEPT !.blocked = oldmask, !.at = next]
      /\ child \in ChildState /\ child.st = "running" /\ child.stop = None /\ child.code = None
      /\ next \in {"filter", "traceme"} /\ oldmask \subseteq Blockable /\ ChildOnly
  BY RunsIsChild, Signals DEF ChildUnblock, StartInv, Typed
<1> HIDE DEF next
<1>2. /\ child' \in ChildState /\ child'.at = next /\ child'.st = "running"
      /\ child'.stop = None /\ child'.code = None /\ child'.pending = child.pending
      /\ child'.got = child.got /\ child'.options = child.options
  BY <1>1 DEF ChildState
<1> QED  BY <1>1, <1>2, ChildGoesOn

LEMMA InstallBpfProgramStep == ASSUME StartInv, InstallBpfProgram PROVE ChildStep
<1>1. /\ child \in ChildState /\ child.st = "running" /\ child.stop = None /\ child.code = None
      /\ ChildOnly
  BY RunsIsChild DEF InstallBpfProgram
<1>2. CASE child' = [child EXCEPT !.at = "traceme", !.filter = TRUE]
  <2>1. /\ child' \in ChildState /\ child'.at = "traceme" /\ child'.st = "running"
        /\ child'.stop = None /\ child'.code = None /\ child'.pending = child.pending
        /\ child'.got = child.got /\ child'.options = child.options
    BY <1>1, <1>2 DEF ChildState
  <2> QED  BY <1>1, <2>1, ChildGoesOn
<1> QED  BY <1>1, <1>2, ChildFailsStep DEF InstallBpfProgram, ChildFails

LEMMA PtraceTraceMeStep == ASSUME StartInv, PtraceTraceMe PROVE ChildStep
<1> DEFINE who == IF at = "ended" THEN "other" ELSE "optrace"
<1>1. /\ child \in ChildState /\ child.st = "running" /\ child.stop = None /\ child.code = None
      /\ ChildOnly /\ who \in {"optrace", "other"}
  BY RunsIsChild DEF PtraceTraceMe
<1>2. CASE child' = [child EXCEPT !.at = "trap", !.tracer = who]
  <2> HIDE DEF who
  <2>1. /\ child' \in ChildState /\ child'.at = "trap" /\ child'.st = "running"
        /\ child'.stop = None /\ child'.code = None /\ child'.pending = child.pending
        /\ child'.got = child.got /\ child'.options = child.options
    BY <1>1, <1>2 DEF ChildState
  <2> QED  BY <1>1, <2>1, ChildGoesOn
<1> QED  BY <1>1, <1>2, ChildFailsStep DEF PtraceTraceMe, ChildFails

\* Without a tracer the child dies of its own SIGTRAP: only when optrace has
\* ended.
LEMMA StopItselfStep == ASSUME StartInv, StopItself PROVE ChildStep
<1> DEFINE next == [child EXCEPT !.at = "exec"]
<1>1. /\ child \in ChildState /\ child.at = "trap" /\ child.st = "running"
      /\ child.stop = None /\ child.code = None /\ ChildOnly
  BY RunsIsChild DEF StopItself
<1>2. /\ next \in ChildState /\ next.at = "exec" /\ next.code = None
      /\ next.options = child.options /\ next.got = child.got /\ next.pending = child.pending
  BY <1>1 DEF ChildState
<1>3. \/ child.tracer = "none" /\ child' \in Struck(next, SIGTRAP)
      \/ child' = Stopped(next, SIGTRAP)
  BY <1>1 DEF StopItself, ChildState
<1> HIDE DEF next
<1>4. CASE child' = Stopped(next, SIGTRAP)
  BY <1>1, <1>2, <1>4, ChildStops, Signals
<1>5. CASE child.tracer = "none" /\ child' \in Struck(next, SIGTRAP)
  <2>1. at = "ended"
    BY <1>1, <1>5 DEF StartInv, Met
  <2>2. child'.st = "dead" /\ child'.at = "exec" /\ child'.options = child.options
    BY <1>2, <1>5, StruckEffect, Signals DEF Keeps
  <2>3. UNCHANGED <<scenario, oldmask, opts, tracer, arrived, dropped>>
    BY <1>1 DEF ChildOnly, Quiet, histories
  <2> QED  BY <1>1, <2>1, <2>2, <2>3 DEF ChildStep
<1> QED  BY <1>3, <1>4, <1>5

LEMMA ExecuteStep == ASSUME StartInv, Execute PROVE ChildStep
<1> DEFINE next == [child EXCEPT !.at = "program"]
<1>1. /\ child \in ChildState /\ child.st = "running" /\ child.stop = None /\ child.code = None
      /\ ChildOnly
  BY RunsIsChild DEF Execute
<1>2. /\ next \in ChildState /\ next.at = "program" /\ next.st = "running"
      /\ next.stop = None /\ next.code = None
      /\ next.options = child.options /\ next.got = child.got /\ next.pending = child.pending
  BY <1>1 DEF ChildState
<1>3. ChildFails \/ child' = next \/ child' = Stopped(next, Event)
  BY DEF Execute
<1> HIDE DEF next
<1>4. CASE child' = next
  BY <1>1, <1>2, <1>4, ChildGoesOn
<1>5. CASE child' = Stopped(next, Event)
  BY <1>1, <1>2, <1>5, ChildStops, Signals
<1> QED  BY <1>1, <1>3, <1>4, <1>5, ChildFailsStep DEF ChildFails

LEMMA ChildTakesSignalStep ==
  ASSUME StartInv, NEW s \in Blockable, ChildTakesSignal(s)
  PROVE  ChildStep
<1> DEFINE next == [child EXCEPT !.pending = @ \ {s}]
<1>1. /\ child \in ChildState /\ child.st = "running" /\ child.stop = None /\ child.code = None
      /\ child.at # "none" /\ ChildOnly /\ s \in Int /\ s # SIGTRAP /\ None \notin Int
      /\ SIGTRAP \in Int /\ Blockable \subseteq Int
  BY Signals DEF ChildTakesSignal, StartInv, Typed, TypeOK, Forked
<1>2. /\ next \in ChildState /\ next.at = child.at /\ next.code = None
      /\ next.options = child.options /\ next.got = child.got
      /\ next.pending = child.pending \ {s}
  BY <1>1 DEF ChildState
<1>3. child' = Stopped(next, s) \/ child' \in Struck(next, s)
  BY DEF ChildTakesSignal
<1> HIDE DEF next
<1>4. CASE child' = Stopped(next, s)
  BY <1>1, <1>2, <1>4, ChildStops
<1>5. CASE child' \in Struck(next, s)
  <2>1. /\ child'.options = child.options /\ child'.at = child.at
        /\ child'.got = child.got \cup {s}
        /\ \/ child'.st = "dead" /\ child'.code = 128 + s
           \/ /\ child'.st = "running" /\ child'.code = None
              /\ child'.pending = child.pending \ {s}
    BY <1>1, <1>2, <1>5, StruckEffect DEF Keeps
  <2>2. 128 + s # 128 + SIGTRAP
    BY <1>1
  <2>3. UNCHANGED <<scenario, oldmask, opts, tracer, arrived, dropped>>
    BY <1>1 DEF ChildOnly, Quiet, histories
  <2>4. child'.code = None => \A t \in Blockable : Has(child, t) => Has(child', t)
    <3>1. 128 + s \in Int
      BY <1>1
    <3> QED  BY <1>1, <2>1, <3>1 DEF Has
  <2> QED  BY <1>1, <2>1, <2>2, <2>3, <2>4, ChildStepKeeps
<1> QED  BY <1>3, <1>4, <1>5

LEMMA ProgramStep ==
  ASSUME StartInv, ProgramEnds \/ \E c \in ProgramCalls : ProgramCall(c)
  PROVE  ChildStep
<1>1. /\ child \in ChildState /\ child.st = "running" /\ child.at = "program"
      /\ child.stop = None /\ child.code = None /\ None \notin Int /\ Blockable \subseteq Int
  BY RunsIsChild, Signals DEF ProgramEnds, ProgramCall
<1>2. UNCHANGED <<scenario, oldmask, opts, tracer, arrived, dropped>>
  BY DEF ProgramEnds, ProgramCall, ChildOnly, Quiet, histories
<1>3. CASE ProgramEnds
  BY <1>1, <1>3, ChildFailsStep DEF ProgramEnds
<1>4. CASE child' = Stopped(child, Event) \/ child' = child
  <2>1. /\ child'.st \in {"running", "stopped"} /\ child'.code = None
        /\ child'.at = "program" /\ child'.options = child.options
        /\ child'.got = child.got /\ child'.pending = child.pending
    BY <1>1, <1>4, StoppedEffect, Signals DEF Keeps
  <2> QED  BY <1>1, <1>2, <2>1, ChildStepKeeps DEF Has
<1> QED  BY <1>3, <1>4 DEF ProgramCall

\* The loop injects the SIGTRAP only when another signal has stopped the child
\* before.
LEMMA LoopRestartStep == ASSUME StartInv, LoopRestart PROVE ChildStep
<1>1. /\ child \in ChildState /\ child.st = "stopped" /\ child.stop \in Int /\ at = "loop"
      /\ child.code = None /\ child.at # "none" /\ None \notin Int
      /\ SIGTRAP \in Int /\ Event \notin Blockable
  BY Signals DEF LoopRestart, StartInv, Typed, TypeOK, ChildState, Forked
<1>2. UNCHANGED <<scenario, oldmask, opts, tracer, arrived, dropped>>
  BY DEF LoopRestart, Quiet, histories
<1>3. CASE child.stop = Event /\ child' = Going(child)
  <2>1. /\ child'.st = "running" /\ child'.code = None
        /\ child'.at = child.at /\ child'.options = child.options
        /\ child'.got = child.got /\ child'.pending = child.pending
    BY <1>1, <1>3, GoingEffect DEF Keeps
  <2> QED  BY <1>1, <1>2, <1>3, <2>1, ChildStepKeeps DEF Has
<1>4. CASE child' \in Struck(child, child.stop)
  <2>1. /\ child'.options = child.options /\ child'.at = child.at
        /\ child'.got = child.got \cup {child.stop}
        /\ \/ child'.st = "dead" /\ child'.code = 128 + child.stop
           \/ /\ child'.st = "running" /\ child'.code = None
              /\ child'.pending = child.pending
    BY <1>1, <1>4, StruckEffect DEF Keeps
  <2>2. \A t \in Blockable : Has(child, t) => Has(child', t) \/ child'.st = "dead"
    BY <2>1 DEF Has
  <2>3. child'.code = 128 + SIGTRAP /\ child'.at = "exec" => dropped # {}
    <3>1. ASSUME child'.code = 128 + SIGTRAP, child'.at = "exec" PROVE dropped # {}
      <4>1. 128 + SIGTRAP \in Int
        BY <1>1
      <4>2. 128 + child.stop = 128 + SIGTRAP
        BY <1>1, <2>1, <3>1, <4>1
      <4>3. child.stop = SIGTRAP /\ child.at = "exec"
        BY <1>1, <2>1, <3>1, <4>2
      <4> QED  BY <1>1, <4>3 DEF StartInv, Trapped
    <3> QED  BY <3>1
  <2> QED  BY <1>1, <1>2, <2>1, <2>2, <2>3 DEF ChildStep
<1> QED  BY <1>3, <1>4 DEF LoopRestart

LEMMA ChildSteps == ASSUME StartInv, ChildMovesAlone PROVE ChildStep
BY ChildUnblockStep, InstallBpfProgramStep, PtraceTraceMeStep, StopItselfStep, ExecuteStep,
   ChildTakesSignalStep, ProgramStep, LoopRestartStep DEF ChildMovesAlone, Child
\* What optrace and the signals that are sent do while optrace goes on: they
\* leave the child where it is, or start it, or kill it.
LEMMA OptraceGoesOn ==
  ASSUME StartInv, at' # "ended",
         \/ Optrace /\ ~LoopRestart
         \/ \E s \in SentSignals, targets \in (SUBSET {"optrace", "child"}) \ {{}} : Send(s, targets)
  PROVE  /\ at # "ended"
         /\ \/ child'.code = None \/ child'.code = 128 + SIGKILL
            \/ child'.code = child.code /\ child'.at = child.at /\ dropped' = dropped
<1> DEFINE goal == \/ child'.code = None \/ child'.code = 128 + SIGKILL
                   \/ child'.code = child.code /\ child'.at = child.at /\ dropped' = dropped
<1>1. child \in ChildState
  BY DEF StartInv, Typed
<1>2. ASSUME NEW s \in SentSignals, child' = Sent(child, s), dropped' = dropped
      PROVE  goal
  BY <1>1, <1>2, SentEffect DEF Keeps
<1>3. ASSUME child' = child, dropped' = dropped PROVE goal
  BY <1>3
<1>4. CASE Main \/ BlockSignals \/ WaitForChild \/ SetupSignalForwarding \/ UnblockSignals
           \/ LoopReturns \/ Report
  <2>1. at # "ended" /\ child' = child /\ dropped' = dropped
    BY <1>4 DEF Main, BlockSignals, WaitForChild, SetupSignalForwarding, UnblockSignals,
                LoopReturns, Report, End, Quiet, histories
  <2> QED  BY <1>3, <2>1
<1>5. CASE Fork
  <2>1. at # "ended"
    BY <1>5 DEF Fork
  <2>2. child' = [NoChild EXCEPT !.at = "unblock", !.st = "running", !.blocked = blocked]
    BY <1>5 DEF Fork, End
  <2>3. child'.code = None
    BY <2>2 DEF NoChild
  <2> QED  BY <2>1, <2>3
<1>6. CASE SetOptions
  <2>1. at # "ended" /\ child' = [child EXCEPT !.options = ptraceOpts] /\ dropped' = dropped
    BY <1>6 DEF SetOptions, End, Quiet, histories
  <2> DEFINE asked == ptraceOpts
  <2>2. child' = [child EXCEPT !.options = asked]
    BY <2>1
  <2> HIDE DEF asked
  <2>3. child'.code = child.code /\ child'.at = child.at
    BY <1>1, <2>2 DEF ChildState
  <2> QED  BY <2>1, <2>3
<1>7. CASE FirstRestart
  <2>1. at # "ended"
    BY <1>7 DEF FirstRestart
  <2>2. child.st # "dead" /\ child' = Going(child)
    BY <1>7 DEF FirstRestart, End
  <2>3. child'.code = None
    BY <1>1, <2>2, GoingEffect DEF StartInv, Typed, TypeOK
  <2> QED  BY <2>1, <2>3
<1>8. ASSUME NEW s \in Blockable, TakeSignal(s) PROVE at # "ended" /\ goal
  <2>1. /\ at # "ended" /\ (child' = child \/ child' = Sent(child, s)) /\ dropped' = dropped
        /\ s \in SentSignals
    BY <1>8 DEF TakeSignal, End, Quiet, histories, Blockable
  <2> QED  BY <1>2, <1>3, <2>1
<1>9. ASSUME NEW s \in SentSignals, NEW targets, Send(s, targets) PROVE at # "ended" /\ goal
  <2>1. at # "ended" /\ (child' = child \/ child' = Sent(child, s)) /\ dropped' = dropped
    BY <1>9 DEF Send, End
  <2> QED  BY <1>2, <1>3, <2>1
<1> QED  BY <1>4, <1>5, <1>6, <1>7, <1>8, <1>9 DEF Optrace

\* The child moves, or optrace does, or nothing happens.
LEMMA WhoMoves ==
  ASSUME [Next]_vars
  PROVE  \/ ChildMovesAlone
         \/ Optrace /\ ~LoopRestart
         \/ \E s \in SentSignals, targets \in (SUBSET {"optrace", "child"}) \ {{}} : Send(s, targets)
         \/ UNCHANGED vars
BY DEF Next, ChildMovesAlone, AllOver

LEMMA TrapInv == ASSUME StartInv, [Next]_vars, TrapIsConsumed PROVE TrapIsConsumed'
<1>1. ended # None <=> at = "ended"
  BY DEF StartInv, Typed, TypeOK
<1>2. ended' # None <=> at' = "ended"
  BY StartInvNext DEF StartInv, Typed, TypeOK
<1>3. CASE ChildMovesAlone
  BY <1>1, <1>3, ChildSteps DEF ChildStep, tracer, TrapIsConsumed
<1>4. CASE UNCHANGED vars
  BY <1>4 DEF vars, tracer, histories, TrapIsConsumed
<1>5. CASE \/ Optrace /\ ~LoopRestart
           \/ \E s \in SentSignals, targets \in (SUBSET {"optrace", "child"}) \ {{}} :
                Send(s, targets)
  <2>1. CASE at' = "ended"
    BY <1>2, <2>1 DEF TrapIsConsumed
  <2>2. CASE at' # "ended"
    <3>1. 128 + SIGTRAP # 128 + SIGKILL /\ 128 + SIGTRAP # None
      BY Signals DEF SIGTRAP, SIGKILL
    <3> QED  BY <1>1, <1>5, <2>2, <3>1, OptraceGoesOn DEF TrapIsConsumed
  <2> QED  BY <2>1, <2>2
<1> QED  BY <1>3, <1>4, <1>5, WhoMoves

\* With the filter the loop gets every call the filter stops.
LEMMA AnsweredInv == ASSUME StartInv, [Next]_vars, CallsAnswered PROVE CallsAnswered'
<1>1. CASE \E c \in ProgramCalls : ProgramCall(c)
  <2>1. PICK c \in ProgramCalls : ProgramCall(c)
    BY <1>1
  <2>2. at' = at /\ child.at = "program" /\ child.st = "running"
    BY <2>1 DEF ProgramCall, Runs, tracer
  <2>3. ASSUME at # "ended" PROVE child.tracer = "optrace" /\ child.options = ptraceOpts
    BY <2>2, <2>3 DEF StartInv, Met, OptionsSet
  <2>4. child.filter => "TRACESECCOMP" \in ptraceOpts
    BY DEF StartInv, Filtered, ptraceOpts
  <2>5. ASSUME at # "ended" PROVE refused' = refused
    <3> DEFINE selected == child.filter => Verdict(scenario.arch, c) = "TRACE"
               stops == child.tracer = "optrace" /\ (child.filter => "TRACESECCOMP" \in child.options)
    <3>1. stops
      BY <2>3, <2>4, <2>5
    <3>2. refused' = IF selected /\ ~stops /\ child.filter /\ refused = None THEN c ELSE refused
      BY <2>1 DEF ProgramCall
    <3> HIDE DEF selected, stops
    <3> QED  BY <3>1, <3>2
  <2> QED  BY <2>2, <2>5 DEF CallsAnswered
<1>2. CASE ~ \E c \in ProgramCalls : ProgramCall(c)
  <2>1. UNCHANGED refused /\ (at = "ended" => at' = "ended")
    <3>1. CASE Optrace
      BY <3>1 DEF Optrace, Main, BlockSignals, Fork, WaitForChild, SetOptions,
         SetupSignalForwarding, UnblockSignals, FirstRestart, LoopRestart, LoopReturns, Report,
         TakeSignal, Quiet, histories
    <3>2. CASE Child \/ ProgramEnds
      BY <3>2 DEF Child, ChildUnblock, InstallBpfProgram, PtraceTraceMe, StopItself, Execute,
         ChildTakesSignal, ProgramEnds, ChildOnly, tracer, Quiet, histories
    <3>3. CASE \E s \in SentSignals, targets \in (SUBSET {"optrace", "child"}) \ {{}} :
                 Send(s, targets)
      BY <3>3 DEF Send
    <3>4. CASE UNCHANGED vars
      BY <3>4 DEF vars, tracer, histories
    <3> QED  BY <1>2, <3>1, <3>2, <3>3, <3>4 DEF Next, AllOver
  <2> QED  BY <2>1 DEF CallsAnswered
<1> QED  BY <1>1, <1>2
\* optrace ends: JailForks leaves the child alive only before SetupTracer, and
\* only a SIGKILL ends optrace there.
LEMMA EndJailed ==
  ASSUME StartInv, at # "ended", NEW why \in Int, NEW c, End(why, c),
         UNCHANGED opts \/ child = NoChild,
         Keeps(child, c), c.tracer = child.tracer,
         c = child \/ (c.st = "dead" /\ c.stop = None),
         why = SIGKILL \/ child.st = "dead" \/ at \notin {"waitpid", "setoptions"}
  PROVE  JailHolds'
<1>1. c \in ChildState /\ (c.st = "stopped" <=> c.stop # None) /\ ended' = why
  BY DEF Keeps, StartInv, Typed, TypeOK, End
<1>2. /\ Keeps(c, child')
      /\ \/ child' = c /\ (c.tracer # "optrace" \/ c.st = "dead")
         \/ /\ c.tracer = "optrace" /\ c.st # "dead" /\ child'.stop = None
            /\ \/ child'.st = "dead" /\ child'.code \in Int
               \/ /\ child'.st = "running" /\ child'.code = c.code /\ child'.tracer = "none"
                  /\ "EXITKILL" \notin c.options
  BY <1>1, AbandonedEffect DEF End
<1>3. CASE child = NoChild
  <2>1. c = NoChild \/ c.st = "dead"
    BY <1>3
  <2>2. child'.st \in {"none", "dead"}
    BY <1>2, <1>3, <2>1 DEF NoChild
  <2> QED  BY <2>2 DEF JailHolds
<1>4. CASE child # NoChild
  <2> SUFFICES ASSUME opts.JailForks, child'.st \in {"running", "stopped"}
               PROVE  why = SIGKILL /\ child'.options = {}
    BY <1>1, <1>4 DEF JailHolds
  <2>1. child.st \notin {"none", "dead"} /\ c = child /\ child.at # "none"
    BY <1>2, <1>4 DEF StartInv, Forked
  <2>2. at \notin {"main", "block", "fork"}
    BY <1>4 DEF StartInv, Forked
  <2>3. CASE at \in {"waitpid", "setoptions"}
    BY <1>2, <2>1, <2>3 DEF StartInv, OptionsSet, Keeps
  <2>4. CASE at \notin {"waitpid", "setoptions"}
    <3>1. child.options = ptraceOpts
      BY <2>2, <2>4 DEF StartInv, OptionsSet, Typed, TypeOK
    <3>2. "EXITKILL" \in child.options
      BY <3>1 DEF ptraceOpts
    <3>3. child.tracer = "optrace"
      <4>1. child.at \in {"none", "unblock", "filter", "traceme", "trap", "exec", "program"}
        BY DEF StartInv, Typed, ChildState
      <4> QED  BY <2>1, <2>4, <4>1 DEF StartInv, Met
    <3> QED  BY <1>2, <2>1, <3>2, <3>3
  <2> QED  BY <2>3, <2>4
<1> QED  BY <1>3, <1>4

LEMMA SameChildJailed ==
  ASSUME StartInv, at # "ended", NEW why \in Int, End(why, child), UNCHANGED opts,
         why = SIGKILL \/ child.st = "dead" \/ at \notin {"waitpid", "setoptions"}
  PROVE  JailHolds'
<1>1. Keeps(child, child)
  BY DEF StartInv, Typed, Keeps
<1> QED  BY <1>1, EndJailed

LEMMA NotEndedJailed == ASSUME at' # "ended" PROVE JailHolds'
BY DEF JailHolds

LEMMA JailInv == ASSUME StartInv, [Next]_vars, JailHolds PROVE JailHolds'
<1>1. CASE ChildMovesAlone
  BY <1>1, ChildSteps DEF ChildStep, tracer, JailHolds
<1>2. CASE UNCHANGED vars
  BY <1>2 DEF vars, tracer, JailHolds
<1>3. CASE Main
  <2>1. child = NoChild /\ child \in ChildState
    BY <1>3 DEF Main, StartInv, Typed, Forked
  <2>2. Keeps(child, child) /\ at = "main"
    BY <1>3, <2>1 DEF Keeps, Main
  <2>3. End(Returned, child) \/ at' = "block"
    BY <1>3 DEF Main, Goto
  <2> QED  BY <2>1, <2>2, <2>3, EndJailed, NotEndedJailed, Signals
<1>4. CASE Fork
  <2>1. \/ at = "fork" /\ End(Failed, child) /\ UNCHANGED opts
        \/ at' = "waitpid"
    BY <1>4 DEF Fork, Goto
  <2> QED  BY <2>1, SameChildJailed, NotEndedJailed, Signals
<1>5. CASE WaitForChild
  <2>1. \/ at = "waitpid" /\ child.st = "dead" /\ End(Failed, child) /\ UNCHANGED opts
        \/ at' = "setoptions"
    BY <1>5 DEF WaitForChild, Goto
  <2> QED  BY <2>1, SameChildJailed, NotEndedJailed, Signals
<1>6. CASE SetOptions
  <2>1. \/ at = "setoptions" /\ child.st = "dead" /\ End(Failed, child) /\ UNCHANGED opts
        \/ at' = "sigaction"
    BY <1>6 DEF SetOptions, Goto
  <2> QED  BY <2>1, SameChildJailed, NotEndedJailed, Signals
<1>7. CASE SetupSignalForwarding
  <2>1. \/ at = "sigaction" /\ End(Failed, child) /\ UNCHANGED opts
        \/ at' = "unblock"
    BY <1>7 DEF SetupSignalForwarding, Goto
  <2> QED  BY <2>1, SameChildJailed, NotEndedJailed, Signals
<1>8. CASE FirstRestart
  <2>1. \/ at = "register" /\ End(Failed, child) /\ UNCHANGED opts
        \/ at' = "loop"
    BY <1>8 DEF FirstRestart, Goto
  <2> QED  BY <2>1, SameChildJailed, NotEndedJailed, Signals
<1>9. CASE BlockSignals \/ UnblockSignals \/ LoopReturns
  BY <1>9, NotEndedJailed DEF BlockSignals, UnblockSignals, LoopReturns, Goto
<1>10. CASE Report
  BY <1>10, SameChildJailed, Signals DEF Report
<1>11. ASSUME NEW s \in Blockable, TakeSignal(s) PROVE JailHolds'
  <2>1. at # "ended" /\ s \in pending \ blocked /\ UNCHANGED opts /\ s \in Int
    BY <1>11, Signals DEF TakeSignal
  <2>2. at \notin {"waitpid", "setoptions"}
    BY <2>1 DEF StartInv, Masked
  <2>3. End(s, child) \/ at' = at
    BY <1>11 DEF TakeSignal
  <2> QED  BY <2>1, <2>2, <2>3, SameChildJailed, NotEndedJailed
<1>12. ASSUME NEW s \in SentSignals, NEW targets, Send(s, targets) PROVE JailHolds'
  <2> DEFINE c == IF "child" \in targets THEN Sent(child, s) ELSE child
  <2>1. at # "ended" /\ UNCHANGED opts /\ ((s = SIGKILL /\ End(s, c)) \/ at' = at)
    BY <1>12 DEF Send, tracer
  <2>2. child \in ChildState
    BY DEF StartInv, Typed
  <2>3. ASSUME s = SIGKILL
        PROVE  /\ Keeps(child, c) /\ c.tracer = child.tracer
               /\ c = child \/ (c.st = "dead" /\ c.stop = None)
    <3>1. s \notin Blockable
      BY <2>3 DEF Blockable
    <3> QED  BY <2>2, <3>1, SentEffect DEF Keeps
  <2> HIDE DEF c
  <2> QED  BY <2>1, <2>3, EndJailed, NotEndedJailed, Signals
<1> QED
  BY <1>1, <1>2, <1>3, <1>4, <1>5, <1>6, <1>7, <1>8, <1>9, <1>10, <1>11, <1>12, WhoMoves
  DEF Optrace

------------------------------------------------------------------------------
(* What the command line says is what main makes of it.  Parsed is recursive; *)
(* inductions go by the least number of options for which a claim fails.      *)

\* Every nonempty set of natural numbers has a least element: what inductions
\* over data rest on.
LEMMA LeastNat ==
  ASSUME NEW T \in SUBSET Nat, T # {}
  PROVE  \E least \in T : \A n \in T : least <= n
<1> DEFINE R == OpToRel(<, Nat)
<1>1. \A x, y \in Nat : x < y => <<x, y>> \in R
  BY Zenon DEF OpToRel
<1>2. IsWellFoundedOn(R, Nat)
  BY NatLessThanWellFounded
<1> HIDE DEF R
<1>3. PICK x \in T : \A y \in T : ~ (<<y, x>> \in R)
  BY <1>2, WFMin
<1>4. ASSUME NEW y \in T PROVE x <= y
  <2>1. x \in Nat /\ y \in Nat /\ ~(<<y, x>> \in R)
    BY <1>3
  <2>2. ~(y < x)
    BY <1>1, <2>1, Zenon
  <2> QED  BY <2>1, <2>2
<1> QED  BY <1>4

Reading(args, k, f) ==
  f = [n \in 0 .. k |-> IF n = 0 THEN GetDefaults ELSE SetBy(f[n - 1], args[n])]

LEMMA ReadingExists ==
  ASSUME NEW args, NEW k \in Nat
  PROVE  \E f : Reading(args, k, f)
<1> DEFINE T == {n \in Nat : ~ \E f : Reading(args, n, f)}
<1>1. ASSUME T # {} PROVE FALSE
  <2>1. PICK n \in T : \A m \in T : n <= m
    BY <1>1, LeastNat
  <2>2. n \in Nat /\ ~ \E f : Reading(args, n, f)
    BY <2>1
  <2>3. CASE n = 0
    <3> DEFINE f == [m \in 0 .. 0 |-> GetDefaults]
    <3>1. Reading(args, 0, f)
      BY DEF Reading
    <3> QED  BY <2>2, <2>3, <3>1
  <2>4. CASE n # 0
    <3>1. n - 1 \in Nat /\ ~(n <= n - 1)
      BY <2>2, <2>4
    <3>2. PICK f : Reading(args, n - 1, f)
      BY <2>1, <3>1
    <3> DEFINE g == [m \in 0 .. n |-> IF m = n THEN SetBy(f[n - 1], args[n]) ELSE f[m]]
    <3>3. f = [m \in 0 .. n - 1 |-> IF m = 0 THEN GetDefaults ELSE SetBy(f[m - 1], args[m])]
      BY <3>2 DEF Reading
    <3>4. ASSUME NEW m \in 0 .. n
          PROVE  g[m] = IF m = 0 THEN GetDefaults ELSE SetBy(g[m - 1], args[m])
      <4>1. CASE m = n
        <5>1. n - 1 \in 0 .. n /\ n - 1 # n /\ n \in 0 .. n
          BY <2>2, <2>4
        <5>2. g[n - 1] = f[n - 1] /\ g[n] = SetBy(f[n - 1], args[n])
          BY <5>1
        <5> QED  BY <2>4, <4>1, <5>2
      <4>2. CASE m # n
        <5>1. m \in 0 .. n - 1
          BY <2>2, <4>2
        <5>2. g[m] = f[m]
          BY <4>2
        <5>3. m # 0 => m - 1 \in 0 .. n /\ m - 1 # n
          BY <2>2, <5>1
        <5>4. m # 0 => g[m - 1] = f[m - 1]
          BY <5>3
        <5>5. f[m] = IF m = 0 THEN GetDefaults ELSE SetBy(f[m - 1], args[m])
          BY <3>3, <5>1
        <5> HIDE DEF g
        <5> QED  BY <5>2, <5>4, <5>5
      <4> QED  BY <4>1, <4>2
    <3>5. Reading(args, n, g)
      <4>1. g = [m \in 0 .. n |-> g[m]]
        OBVIOUS
      <4> HIDE DEF g
      <4> QED  BY <3>4, <4>1 DEF Reading
    <3> QED  BY <2>2, <3>5
  <2> QED  BY <2>3, <2>4
<1> QED  BY <1>1

LEMMA ParsedReads ==
  ASSUME NEW args
  PROVE  Parsed(args) = (CHOOSE f : Reading(args, Len(args), f))[Len(args)]
BY Zenon DEF Parsed, Reading

\* The fields of the options.
Fields == DOMAIN GetDefaults
IsOptions(o) == o = [field \in Fields |-> o[field]]

TextFields == {"Output", "InterruptionTarget"}
NumberFields == {"CommandLengthLimit", "FilesInReport", "InterruptionSignal"}

\* Every switch has a field of its own.
LEMMA SwitchesSet ==
  /\ \A letter \in DOMAIN Switches :
       /\ Switches[letter][1] \in Fields
       /\ Switches[letter][1] \notin TextFields \cup NumberFields \cup {"ForwardingSignals"}
       /\ \A other \in DOMAIN Switches :
            Switches[letter][1] = Switches[other][1] => letter = other
  /\ \A letter \in {"o", "c", "r", "s", "i", "I"} : letter \notin DOMAIN Switches
  /\ TextFields \cup NumberFields \cup {"ForwardingSignals"} \subseteq Fields
  /\ "S" \in DOMAIN Switches /\ Switches["S"][1] = "ForwardAllSignals" /\ Switches["S"][2]
<1> DEFINE letters == {"F", "J", "W", "h", "a", "C", "D", "S", "e"}
<1>1. /\ DOMAIN Switches = letters
      /\ Switches["F"][1] = "FollowForks" /\ Switches["J"][1] = "JailForks"
      /\ Switches["W"][1] = "WaitDaemons" /\ Switches["h"][1] = "HumanReadableSizes"
      /\ Switches["a"][1] = "AppendOutput" /\ Switches["C"][1] = "UseSecComp"
      /\ Switches["D"][1] = "SearchForCoreDumps" /\ Switches["S"][1] = "ForwardAllSignals"
      /\ Switches["e"][1] = "StoreEmptyFiles" /\ Switches["S"][2]
  BY DEF Switches
<1>2. Fields = {"Output", "AppendOutput", "FollowForks", "WaitDaemons", "JailForks",
                "HumanReadableSizes", "FilesInReport", "CommandLengthLimit", "UseSecComp",
                "SearchForCoreDumps", "ForwardingSignals", "ForwardAllSignals",
                "StoreEmptyFiles", "InterruptionTarget", "InterruptionSignal"}
  BY DEF Fields, GetDefaults
<1>3. \A letter \in DOMAIN Switches :
       /\ Switches[letter][1] \in Fields
       /\ Switches[letter][1] \notin TextFields \cup NumberFields \cup {"ForwardingSignals"}
  BY <1>1, <1>2 DEF TextFields, NumberFields
<1>4. \A letter, other \in DOMAIN Switches :
        Switches[letter][1] = Switches[other][1] => letter = other
  BY <1>1
<1>5. TextFields \cup NumberFields \cup {"ForwardingSignals"} \subseteq Fields
  BY <1>2 DEF TextFields, NumberFields
<1> QED  BY <1>1, <1>3, <1>4, <1>5

\* The switch of main, field by field: an option sets its own field, and
\* leaves the others as they are.
SetsOwn(o, option, p) ==
  /\ IsOptions(p)
  /\ \A letter \in DOMAIN Switches :
       LET field == Switches[letter][1]
       IN  p[field] = IF option.opt = letter THEN Switches[letter][2] ELSE o[field]
  /\ p.Output = IF option.opt = "o" THEN option.text ELSE o.Output
  /\ p.InterruptionTarget = IF option.opt = "i" THEN option.text ELSE o.InterruptionTarget
  /\ p.CommandLengthLimit =
       IF option.opt = "c" THEN AnyNegative(option.val) ELSE o.CommandLengthLimit
  /\ p.FilesInReport = IF option.opt = "r" THEN AnyNegative(option.val) ELSE o.FilesInReport
  /\ p.ForwardingSignals =
       IF option.opt = "s" THEN o.ForwardingSignals \cup {option.val} ELSE o.ForwardingSignals
  /\ p.InterruptionSignal =
       IF option.opt = "I" THEN option.val
       ELSE IF option.opt = "i" /\ o.InterruptionSignal = 0 THEN SIGABRT
       ELSE o.InterruptionSignal

LEMMA SetByOwn ==
  ASSUME NEW o, IsOptions(o), NEW option \in Option
  PROVE  SetsOwn(o, option, SetBy(o, option))
<1> DEFINE p == SetBy(o, option)
           letter == option.opt
<1>1. DOMAIN o = Fields
  BY DEF IsOptions
<1>2. CASE letter \in DOMAIN Switches
  <2> DEFINE field == Switches[letter][1]
             value == Switches[letter][2]
  <2>1. p = [o EXCEPT ![field] = value]
    BY <1>2, SwitchesSet DEF SetBy
  <2>2. field \in Fields /\ field \notin TextFields \cup NumberFields \cup {"ForwardingSignals"}
    BY <1>2, SwitchesSet
  <2>3. letter \notin {"o", "c", "r", "s", "i", "I"}
    BY <1>2, SwitchesSet
  <2>4. \A other \in DOMAIN Switches : Switches[other][1] \in Fields
          /\ (other # letter => Switches[other][1] # field)
    BY <1>2, SwitchesSet
  <2> HIDE DEF p, field, value, letter
  <2>5. /\ IsOptions(p) /\ p[field] = value
        /\ \A f \in Fields : f # field => p[f] = o[f]
    BY <1>1, <2>1, <2>2 DEF IsOptions
  <2>6. \A f \in TextFields \cup NumberFields \cup {"ForwardingSignals"} : p[f] = o[f]
    BY <2>2, <2>5, SwitchesSet
  <2>7. \A other \in DOMAIN Switches :
          p[Switches[other][1]] = IF letter = other THEN Switches[other][2] ELSE o[Switches[other][1]]
    BY <1>2, <2>4, <2>5 DEF field, value
  <2> QED  BY <2>3, <2>5, <2>6, <2>7 DEF SetsOwn, TextFields, NumberFields, p, letter
<1>3. CASE letter \notin DOMAIN Switches
  <2> DEFINE others == TextFields \cup NumberFields \cup {"ForwardingSignals"}
  <2>1. \A other \in DOMAIN Switches : letter # other /\ Switches[other][1] \in Fields \ others
    BY <1>3, SwitchesSet
  <2>2. ASSUME IsOptions(p), \A f \in Fields \ others : p[f] = o[f]
        PROVE  \A other \in DOMAIN Switches :
          p[Switches[other][1]] = IF letter = other THEN Switches[other][2] ELSE o[Switches[other][1]]
    BY <2>1, <2>2
  <2>3. others \subseteq Fields
    BY SwitchesSet
  <2>4. CASE letter = "o"
    <3>1. p = [o EXCEPT !.Output = option.text]
      BY <1>3, <2>4 DEF SetBy
    <3> HIDE DEF p
    <3>2. /\ IsOptions(p) /\ p.Output = option.text
          /\ \A f \in Fields : f # "Output" => p[f] = o[f]
      BY <1>1, <2>3, <3>1 DEF IsOptions, TextFields
    <3> QED  BY <2>2, <2>3, <2>4, <3>2 DEF SetsOwn, TextFields, NumberFields, p
  <2>5. CASE letter = "c"
    <3>1. p = [o EXCEPT !.CommandLengthLimit = AnyNegative(option.val)]
      BY <1>3, <2>5 DEF SetBy
    <3> HIDE DEF p
    <3>2. /\ IsOptions(p) /\ p.CommandLengthLimit = AnyNegative(option.val)
          /\ \A f \in Fields : f # "CommandLengthLimit" => p[f] = o[f]
      BY <1>1, <2>3, <3>1 DEF IsOptions, NumberFields
    <3> QED  BY <2>2, <2>3, <2>5, <3>2 DEF SetsOwn, TextFields, NumberFields, p
  <2>6. CASE letter = "r"
    <3>1. p = [o EXCEPT !.FilesInReport = AnyNegative(option.val)]
      BY <1>3, <2>6 DEF SetBy
    <3> HIDE DEF p
    <3>2. /\ IsOptions(p) /\ p.FilesInReport = AnyNegative(option.val)
          /\ \A f \in Fields : f # "FilesInReport" => p[f] = o[f]
      BY <1>1, <2>3, <3>1 DEF IsOptions, NumberFields
    <3> QED  BY <2>2, <2>3, <2>6, <3>2 DEF SetsOwn, TextFields, NumberFields, p
  <2>7. CASE letter = "s"
    <3>1. p = [o EXCEPT !.ForwardingSignals = @ \cup {option.val}]
      BY <1>3, <2>7 DEF SetBy
    <3> HIDE DEF p
    <3>2. /\ IsOptions(p) /\ p.ForwardingSignals = o.ForwardingSignals \cup {option.val}
          /\ \A f \in Fields : f # "ForwardingSignals" => p[f] = o[f]
      BY <1>1, <2>3, <3>1 DEF IsOptions
    <3> QED  BY <2>2, <2>3, <2>7, <3>2 DEF SetsOwn, TextFields, NumberFields, p
  <2>8. CASE letter = "i"
    <3> DEFINE signal == IF o.InterruptionSignal = 0 THEN SIGABRT ELSE o.InterruptionSignal
    <3>1. p = [o EXCEPT !.InterruptionTarget = option.text, !.InterruptionSignal = signal]
      BY <1>1, <1>3, <2>3, <2>8 DEF SetBy, NumberFields, TextFields
    <3> HIDE DEF p, signal
    <3>2. /\ IsOptions(p) /\ p.InterruptionTarget = option.text /\ p.InterruptionSignal = signal
          /\ \A f \in Fields :
               f \notin {"InterruptionTarget", "InterruptionSignal"} => p[f] = o[f]
      BY <1>1, <2>3, <3>1 DEF IsOptions, TextFields, NumberFields
    <3> QED  BY <2>2, <2>3, <2>8, <3>2 DEF SetsOwn, TextFields, NumberFields, p, signal
  <2>9. CASE letter = "I"
    <3>1. p = [o EXCEPT !.InterruptionSignal = option.val]
      BY <1>3, <2>9 DEF SetBy
    <3> HIDE DEF p
    <3>2. /\ IsOptions(p) /\ p.InterruptionSignal = option.val
          /\ \A f \in Fields : f # "InterruptionSignal" => p[f] = o[f]
      BY <1>1, <2>3, <3>1 DEF IsOptions, NumberFields
    <3> QED  BY <2>2, <2>3, <2>9, <3>2 DEF SetsOwn, TextFields, NumberFields, p
  <2>10. CASE letter \notin {"o", "c", "r", "s", "i", "I"}
    <3>1. p = o
      BY <1>3, <2>10 DEF SetBy
    <3> QED  BY <2>1, <2>10, <3>1 DEF SetsOwn
  <2> QED  BY <2>4, <2>5, <2>6, <2>7, <2>8, <2>9, <2>10
<1> QED  BY <1>2, <1>3

\* i is the last of the first n options that is a letter; 0 if none is.
IsLast(args, n, letter, i) ==
  \/ i = 0 /\ \A j \in 1 .. n : args[j].opt # letter
  \/ /\ i \in 1 .. n /\ args[i].opt = letter
     /\ \A j \in 1 .. n : j > i => args[j].opt # letter

LEMMA LastOfMore ==
  ASSUME NEW args, NEW n \in Nat \ {0}, NEW letter, NEW i, IsLast(args, n - 1, letter, i)
  PROVE  IsLast(args, n, letter, IF args[n].opt = letter THEN n ELSE i)
<1>1. \A j \in 1 .. n : j = n \/ j \in 1 .. n - 1
  OBVIOUS
<1>2. n \in 1 .. n /\ \A j \in 1 .. n : ~(j > n)
  OBVIOUS
<1>3. 1 .. n - 1 \subseteq 1 .. n
  OBVIOUS
<1>4. CASE args[n].opt = letter
  BY <1>2, <1>4 DEF IsLast
<1>5. CASE args[n].opt # letter
  BY <1>1, <1>3, <1>5 DEF IsLast
<1> QED  BY <1>4, <1>5

\* What the first n options have made of the defaults.
ReadSwitches(args, n, o) ==
  \A letter \in DOMAIN Switches :
    LET field == Switches[letter][1]
    IN  o[field] = IF \E i \in 1 .. n : args[i].opt = letter THEN Switches[letter][2]
                   ELSE GetDefaults[field]

ReadTexts(args, n, o) ==
  /\ \E i : IsLast(args, n, "o", i) /\ o.Output = IF i = 0 THEN "" ELSE args[i].text
  /\ \E i : IsLast(args, n, "i", i) /\ o.InterruptionTarget = IF i = 0 THEN "" ELSE args[i].text

ReadNumbers(args, n, o) ==
  /\ \E i : /\ IsLast(args, n, "c", i)
            /\ o.CommandLengthLimit = IF i = 0 THEN 120 ELSE AnyNegative(args[i].val)
  /\ \E i : /\ IsLast(args, n, "r", i)
            /\ o.FilesInReport = IF i = 0 THEN 0 - 1 ELSE AnyNegative(args[i].val)

ReadSignals(args, n, o) ==
  /\ o.ForwardingSignals = {SIGINT} \cup {args[i].val : i \in {j \in 1 .. n : args[j].opt = "s"}}
  /\ \E i : /\ IsLast(args, n, "I", i)
            /\ i # 0 /\ args[i].val # 0 => o.InterruptionSignal = args[i].val
            /\ i = 0 => o.InterruptionSignal =
                          IF \E j \in 1 .. n : args[j].opt = "i" THEN SIGABRT ELSE 0

Read(args, n, o) ==
  IsOptions(o) /\ ReadSwitches(args, n, o) /\ ReadTexts(args, n, o) /\ ReadNumbers(args, n, o)
  /\ ReadSignals(args, n, o)

LEMMA ReadNone == ASSUME NEW args PROVE Read(args, 0, GetDefaults)
<1>1. 1 .. 0 = {}
  OBVIOUS
<1>2. \A letter : IsLast(args, 0, letter, 0)
  BY <1>1 DEF IsLast
<1>3. /\ GetDefaults.Output = "" /\ GetDefaults.InterruptionTarget = ""
      /\ GetDefaults.CommandLengthLimit = 120 /\ GetDefaults.FilesInReport = 0 - 1
      /\ GetDefaults.ForwardingSignals = {SIGINT} /\ GetDefaults.InterruptionSignal = 0
      /\ IsOptions(GetDefaults)
  BY DEF GetDefaults, IsOptions, Fields
<1>4. ReadSwitches(args, 0, GetDefaults)
  BY <1>1 DEF ReadSwitches
<1>5. ReadTexts(args, 0, GetDefaults)
  BY <1>2, <1>3 DEF ReadTexts
<1>6. ReadNumbers(args, 0, GetDefaults)
  BY <1>2, <1>3 DEF ReadNumbers
<1>7. ReadSignals(args, 0, GetDefaults)
  <2>1. {args[i].val : i \in {j \in 1 .. 0 : args[j].opt = "s"}} = {}
    BY <1>1
  <2>2. GetDefaults.ForwardingSignals =
          {SIGINT} \cup {args[i].val : i \in {j \in 1 .. 0 : args[j].opt = "s"}}
    BY <1>3, <2>1
  <2>3. ~ \E j \in 1 .. 0 : args[j].opt = "i"
    BY <1>1
  <2>4. GetDefaults.InterruptionSignal =
          IF \E j \in 1 .. 0 : args[j].opt = "i" THEN SIGABRT ELSE 0
    BY <1>3, <2>3
  <2> QED  BY <1>2, <2>2, <2>4 DEF ReadSignals
<1> QED  BY <1>3, <1>4, <1>5, <1>6, <1>7 DEF Read

LEMMA ReadMore ==
  ASSUME NEW args, NEW n \in Nat \ {0}, args[n] \in Option, NEW o, Read(args, n - 1, o),
         NEW p, SetsOwn(o, args[n], p)
  PROVE  Read(args, n, p)
<1>1. \A j \in 1 .. n : j = n \/ j \in 1 .. n - 1
  OBVIOUS
<1>2. n \in 1 .. n /\ 1 .. n - 1 \subseteq 1 .. n
  OBVIOUS
<1>3. \A letter :
        (\E i \in 1 .. n : args[i].opt = letter)
          <=> (args[n].opt = letter \/ \E i \in 1 .. n - 1 : args[i].opt = letter)
  BY <1>1, <1>2
<1>4. \A letter, i : IsLast(args, n - 1, letter, i) =>
                       IsLast(args, n, letter, IF args[n].opt = letter THEN n ELSE i)
  BY LastOfMore
<1>5. n # 0
  OBVIOUS
<1>6. ReadSwitches(args, n, p)
  <2>1. ASSUME NEW letter \in DOMAIN Switches
        PROVE  p[Switches[letter][1]] = IF \E i \in 1 .. n : args[i].opt = letter
                                        THEN Switches[letter][2]
                                        ELSE GetDefaults[Switches[letter][1]]
    <3>1. p[Switches[letter][1]] = IF args[n].opt = letter THEN Switches[letter][2]
                                   ELSE o[Switches[letter][1]]
      BY DEF SetsOwn
    <3>2. o[Switches[letter][1]] = IF \E i \in 1 .. n - 1 : args[i].opt = letter
                                   THEN Switches[letter][2]
                                   ELSE GetDefaults[Switches[letter][1]]
      BY DEF Read, ReadSwitches
    <3> QED  BY <1>3, <3>1, <3>2
  <2> QED  BY <2>1 DEF ReadSwitches
<1>7. ReadTexts(args, n, p)
  <2>1. PICK i : IsLast(args, n - 1, "o", i) /\ o.Output = IF i = 0 THEN "" ELSE args[i].text
    BY DEF Read, ReadTexts
  <2>2. PICK j : /\ IsLast(args, n - 1, "i", j)
                 /\ o.InterruptionTarget = IF j = 0 THEN "" ELSE args[j].text
    BY DEF Read, ReadTexts
  <2>3. p.Output = IF (IF args[n].opt = "o" THEN n ELSE i) = 0 THEN ""
                   ELSE args[IF args[n].opt = "o" THEN n ELSE i].text
    BY <1>5, <2>1 DEF SetsOwn
  <2>4. p.InterruptionTarget = IF (IF args[n].opt = "i" THEN n ELSE j) = 0 THEN ""
                               ELSE args[IF args[n].opt = "i" THEN n ELSE j].text
    BY <1>5, <2>2 DEF SetsOwn
  <2> QED  BY <1>4, <2>1, <2>2, <2>3, <2>4 DEF ReadTexts
<1>8. ReadNumbers(args, n, p)
  <2>1. PICK i : /\ IsLast(args, n - 1, "c", i)
                 /\ o.CommandLengthLimit = IF i = 0 THEN 120 ELSE AnyNegative(args[i].val)
    BY DEF Read, ReadNumbers
  <2>2. PICK j : /\ IsLast(args, n - 1, "r", j)
                 /\ o.FilesInReport = IF j = 0 THEN 0 - 1 ELSE AnyNegative(args[j].val)
    BY DEF Read, ReadNumbers
  <2>3. p.CommandLengthLimit = IF (IF args[n].opt = "c" THEN n ELSE i) = 0 THEN 120
                               ELSE AnyNegative(args[IF args[n].opt = "c" THEN n ELSE i].val)
    BY <1>5, <2>1 DEF SetsOwn
  <2>4. p.FilesInReport = IF (IF args[n].opt = "r" THEN n ELSE j) = 0 THEN 0 - 1
                          ELSE AnyNegative(args[IF args[n].opt = "r" THEN n ELSE j].val)
    BY <1>5, <2>2 DEF SetsOwn
  <2> QED  BY <1>4, <2>1, <2>2, <2>3, <2>4 DEF ReadNumbers
<1>9. ReadSignals(args, n, p)
  <2>1. p.ForwardingSignals =
          {SIGINT} \cup {args[i].val : i \in {j \in 1 .. n : args[j].opt = "s"}}
    <3>1. o.ForwardingSignals =
            {SIGINT} \cup {args[i].val : i \in {j \in 1 .. n - 1 : args[j].opt = "s"}}
      BY DEF Read, ReadSignals
    <3>2. p.ForwardingSignals =
            IF args[n].opt = "s" THEN o.ForwardingSignals \cup {args[n].val}
            ELSE o.ForwardingSignals
      BY DEF SetsOwn
    <3> QED  BY <1>1, <1>2, <3>1, <3>2
  <2>2. PICK i : /\ IsLast(args, n - 1, "I", i)
                 /\ i # 0 /\ args[i].val # 0 => o.InterruptionSignal = args[i].val
                 /\ i = 0 => o.InterruptionSignal =
                      IF \E j \in 1 .. n - 1 : args[j].opt = "i" THEN SIGABRT ELSE 0
    BY DEF Read, ReadSignals
  <2> DEFINE k == IF args[n].opt = "I" THEN n ELSE i
  <2>3. p.InterruptionSignal =
          IF args[n].opt = "I" THEN args[n].val
          ELSE IF args[n].opt = "i" /\ o.InterruptionSignal = 0 THEN SIGABRT
          ELSE o.InterruptionSignal
    BY DEF SetsOwn
  <2>4. k # 0 /\ args[k].val # 0 => p.InterruptionSignal = args[k].val
    BY <1>5, <2>2, <2>3
  <2>5. k = 0 => p.InterruptionSignal =
                   IF \E j \in 1 .. n : args[j].opt = "i" THEN SIGABRT ELSE 0
    <3>1. SIGABRT # 0
      BY DEF SIGABRT
    <3> QED  BY <1>3, <1>5, <2>2, <2>3, <3>1
  <2>6. IsLast(args, n, "I", k)
    BY <1>4, <2>2
  <2> QED  BY <2>1, <2>4, <2>5, <2>6 DEF ReadSignals
<1> QED  BY <1>6, <1>7, <1>8, <1>9 DEF Read, SetsOwn

LEMMA OptionsAreRead ==
  ASSUME NEW args \in Seq(Option)
  PROVE  Read(args, Len(args), Parsed(args))
<1> DEFINE read == CHOOSE f : Reading(args, Len(args), f)
<1>1. Len(args) \in Nat /\ \A i \in 1 .. Len(args) : args[i] \in Option
  OBVIOUS
<1>2. Reading(args, Len(args), read)
  BY <1>1, ReadingExists
<1>3. Parsed(args) = read[Len(args)]
  BY ParsedReads
<1> HIDE DEF read
<1>4. /\ read[0] = GetDefaults
      /\ \A n \in 1 .. Len(args) : read[n] = SetBy(read[n - 1], args[n])
  <2>1. read = [n \in 0 .. Len(args) |->
                  IF n = 0 THEN GetDefaults ELSE SetBy(read[n - 1], args[n])]
    BY <1>2 DEF Reading
  <2>2. \A n \in 0 .. Len(args) :
          read[n] = IF n = 0 THEN GetDefaults ELSE SetBy(read[n - 1], args[n])
    BY <2>1
  <2>3. \A n \in 1 .. Len(args) : n \in 0 .. Len(args) /\ n # 0
    BY <1>1
  <2> QED  BY <1>1, <2>2, <2>3
<1> DEFINE T == {n \in Nat : n <= Len(args) /\ ~Read(args, n, read[n])}
<1>5. ASSUME T # {} PROVE FALSE
  <2>1. PICK n \in T : \A m \in T : n <= m
    BY <1>5, LeastNat
  <2>2. n \in Nat /\ n <= Len(args) /\ ~Read(args, n, read[n])
    BY <2>1
  <2>3. CASE n = 0
    BY <1>4, <2>2, <2>3, ReadNone
  <2>4. CASE n # 0
    <3>1. n - 1 \in Nat /\ ~(n <= n - 1) /\ n - 1 <= Len(args) /\ n \in 1 .. Len(args)
      BY <1>1, <2>2, <2>4
    <3>2. Read(args, n - 1, read[n - 1])
      BY <2>1, <3>1
    <3>3. read[n] = SetBy(read[n - 1], args[n]) /\ args[n] \in Option
      BY <1>1, <1>4, <3>1
    <3>4. SetsOwn(read[n - 1], args[n], read[n])
      BY <3>2, <3>3, SetByOwn DEF Read
    <3> QED  BY <2>2, <2>4, <3>2, <3>3, <3>4, ReadMore
  <2> QED  BY <2>3, <2>4
<1> QED  BY <1>1, <1>3, <1>5

\* In particular -S turns its switch on, and each -s adds its signal to SIGINT.
LEMMA RequestsAreParsed ==
  ASSUME NEW args \in Seq(Option)
  PROVE  /\ (\E i \in DOMAIN args : args[i].opt = "S") => Parsed(args).ForwardAllSignals
         /\ SIGINT \in Parsed(args).ForwardingSignals
         /\ \A i \in DOMAIN args :
              args[i].opt = "s" => args[i].val \in Parsed(args).ForwardingSignals
<1>1. DOMAIN args = 1 .. Len(args)
  OBVIOUS
<1>2. ReadSwitches(args, Len(args), Parsed(args)) /\ ReadSignals(args, Len(args), Parsed(args))
  BY OptionsAreRead DEF Read
<1>3. ASSUME \E i \in 1 .. Len(args) : args[i].opt = "S"
      PROVE  Parsed(args).ForwardAllSignals
  <2>1. Parsed(args)[Switches["S"][1]] = Switches["S"][2]
    BY <1>2, <1>3, SwitchesSet DEF ReadSwitches
  <2> QED  BY <2>1, SwitchesSet
<1>4. Parsed(args).ForwardingSignals =
        {SIGINT} \cup {args[i].val : i \in {j \in 1 .. Len(args) : args[j].opt = "s"}}
  BY <1>2 DEF ReadSignals
<1> QED  BY <1>1, <1>3, <1>4

------------------------------------------------------------------------------
(* The signals that are forwarded *)

Asked == at \notin {"main", "ended"} => opts = Parsed(scenario.args)

Taken == at \in {"unblock", "register", "loop", "report"} => handled = Forwarded

Came ==
  /\ at # "ended" => arrived \subseteq Blockable
  /\ at \in {"main", "block"} => arrived = {}
  /\ at \notin {"loop", "report", "ended"} => dropped = {}

\* From the fork on: a signal that has come waits at optrace, or has been
\* passed on, or dropped, or the mask that optrace was started with holds it.
Held(s) ==
  s \in pending \cup dropped \cup oldmask \/ Has(child, s) \/ child.st = "dead"

Kept == at \notin {"main", "block", "ended"} => \A s \in arrived \cap Requested : Held(s)

KeptInv == Asked /\ Taken /\ Came /\ Kept /\ ForwardedNotFatal

LEMMA SameRequested == ASSUME UNCHANGED scenario PROVE Requested' = Requested
BY DEF Requested, Given

\* What has been asked for, and can be sent, is forwarded.
LEMMA Granted ==
  ASSUME Typed, opts = Parsed(scenario.args)
  PROVE  Requested \cap Blockable \subseteq Forwarded
<1>1. scenario.args \in Seq(Option)
  BY StartupAssumption DEF Typed
<1> DEFINE args == scenario.args
<1>2. /\ (\E i \in DOMAIN args : args[i].opt = "S") => opts.ForwardAllSignals
      /\ SIGINT \in opts.ForwardingSignals
      /\ \A i \in DOMAIN args : args[i].opt = "s" => args[i].val \in opts.ForwardingSignals
  BY <1>1, RequestsAreParsed
<1>3. CASE opts.ForwardAllSignals
  <2>1. Forwarded = AllForwarded /\ SIGINT \in AllForwarded /\ SIGTERM \in AllForwarded
    BY <1>3 DEF Forwarded, AllForwarded, SIGINT, SIGTERM
  <2> QED  BY <2>1, Signals
<1>4. CASE ~opts.ForwardAllSignals
  <2>1. Forwarded = opts.ForwardingSignals
    BY <1>4 DEF Forwarded
  <2>2. Given("S") = {}
    BY <1>2, <1>4 DEF Given
  <2>3. \A i \in Given("s") : scenario.args[i].val \in opts.ForwardingSignals
    BY <1>2 DEF Given
  <2> QED  BY <1>2, <2>1, <2>2, <2>3 DEF Requested
<1> QED  BY <1>3, <1>4

\* optrace ends: of a signal that is not to be forwarded, or without a child.
LEMMA EndKept ==
  ASSUME StartInv, at # "ended", NEW why, NEW c, End(why, c), UNCHANGED scenario,
         why \notin Requested \cap Blockable \/ (child = NoChild /\ c = NoChild)
  PROVE  KeptInv'
<1>1. at' = "ended" /\ ended' = why /\ child' \in Abandoned(c)
  BY DEF End
<1>2. Asked' /\ Taken' /\ Came' /\ Kept'
  BY <1>1 DEF Asked, Taken, Came, Kept
<1>3. ForwardedNotFatal'
  <2>1. Requested' = Requested /\ Blockable' = Blockable
    BY SameRequested DEF Blockable
  <2>2. child = NoChild /\ c = NoChild => child'.st = "none"
    BY <1>1 DEF Abandoned, NoChild
  <2> QED  BY <1>1, <2>1, <2>2 DEF ForwardedNotFatal
<1> QED  BY <1>2, <1>3 DEF KeptInv

\* optrace goes on with the same options, and each signal is where it was or
\* further on.
LEMMA KeptMoves ==
  ASSUME StartInv, [Next]_vars, KeptInv, at # "main", at' \notin {"main", "block", "ended"},
         UNCHANGED <<scenario, oldmask, opts>>, at # "ended", Taken', Came',
         \A s \in arrived' \cap Requested : (s \in arrived => Held(s)) => Held(s)'
  PROVE  KeptInv'
<1>1. StartInv' /\ Requested' = Requested
  BY StartInvNext, SameRequested
<1>2. Asked'
  BY DEF KeptInv, Asked
<1>3. Kept'
  <2>1. \A s \in arrived \cap Requested : Held(s)
    BY DEF KeptInv, Kept, Came
  <2> QED  BY <1>1, <2>1 DEF Kept
<1>4. ForwardedNotFatal'
  <2>1. ended' = None /\ None \notin Blockable'
    BY <1>1, Signals DEF StartInv, Typed, TypeOK, Blockable
  <2> QED  BY <2>1 DEF ForwardedNotFatal
<1> QED  BY <1>2, <1>3, <1>4 DEF KeptInv
LEMMA MainKept == ASSUME StartInv, Main, KeptInv PROVE KeptInv'
<1>1. at = "main" /\ child = NoChild /\ UNCHANGED <<scenario, arrived, dropped>>
  BY DEF Main, StartInv, Forked, Quiet, histories
<1>2. CASE End(Returned, child)
  BY <1>1, <1>2, EndKept
<1>3. CASE Goto("block") /\ UNCHANGED <<child, blocked, handled, pending>>
  <2>1. at' = "block" /\ ended' = ended /\ child' = child /\ opts' = Parsed(scenario.args)
    BY <1>3 DEF Goto, Main
  <2>2. Asked' /\ Taken' /\ Kept'
    BY <1>1, <2>1 DEF Asked, Taken, Kept
  <2>3. Came'
    BY <1>1, <2>1 DEF KeptInv, Came
  <2>4. ForwardedNotFatal'
    BY <1>1, <2>1 DEF ForwardedNotFatal, NoChild
  <2> QED  BY <2>2, <2>3, <2>4 DEF KeptInv
<1> QED  BY <1>2, <1>3 DEF Main

LEMMA ChildKept == ASSUME StartInv, [Next]_vars, ChildStep, KeptInv PROVE KeptInv'
<1>1. /\ UNCHANGED <<scenario, oldmask, opts, at, ended, blocked, handled, pending, arrived, dropped>>
      /\ Blockable' = Blockable
  BY DEF ChildStep, tracer, Blockable
<1>2. Requested' = Requested /\ (Forwarded' = Forwarded)
  BY <1>1, SameRequested DEF Forwarded
<1>3. Asked' /\ Taken' /\ Came'
  BY <1>1, <1>2 DEF KeptInv, Asked, Taken, Came
<1>4. \A s \in Blockable : Held(s) => Held(s)'
  BY <1>1 DEF Held, ChildStep
<1>5. Kept'
  BY <1>1, <1>2, <1>4 DEF KeptInv, Kept, Came
<1>6. ForwardedNotFatal'
  BY <1>1, <1>2 DEF KeptInv, ForwardedNotFatal, ChildStep
<1> QED  BY <1>3, <1>5, <1>6 DEF KeptInv

\* The steps of optrace that leave the signals alone.
LEMMA PlaceKept ==
  ASSUME StartInv, [Next]_vars, KeptInv, at # "main", at' \notin {"main", "block", "ended"},
         UNCHANGED <<scenario, oldmask, opts, pending, arrived, dropped>>, at # "ended",
         Taken', at' \in {"loop", "report"} <=> at \in {"loop", "report"},
         \A s \in Blockable : Has(child, s) => Has(child', s),
         child.st = "dead" => child'.st = "dead"
  PROVE  KeptInv'
<1>1. Came'
  BY DEF KeptInv, Came, Blockable
<1>2. \A s \in arrived' \cap Requested : (s \in arrived => Held(s)) => Held(s)'
  <2> TAKE s \in arrived' \cap Requested
  <2>1. s \in arrived /\ s \in Blockable
    BY DEF KeptInv, Came
  <2> QED  BY <2>1 DEF Held
<1> QED  BY <1>1, <1>2, KeptMoves

LEMMA BlockSignalsKept == ASSUME StartInv, [Next]_vars, BlockSignals, KeptInv PROVE KeptInv'
<1>1. /\ at = "block" /\ at' = "fork"
      /\ UNCHANGED <<scenario, oldmask, opts, pending, arrived, dropped, child>>
  BY DEF BlockSignals, Goto, Quiet, histories
<1> QED  BY <1>1, PlaceKept DEF Taken

\* Where there is no child nothing has come to it.
LEMMA NothingAtNoChild ==
  ASSUME NEW s \in Blockable
  PROVE  ~Has(NoChild, s) /\ NoChild.st # "dead"
BY Signals DEF Has, NoChild

LEMMA ForkKept == ASSUME StartInv, [Next]_vars, Fork, KeptInv PROVE KeptInv'
<1>1. at = "fork" /\ child = NoChild /\ UNCHANGED <<scenario, oldmask, opts, arrived, dropped>>
  BY DEF Fork, StartInv, Forked, Quiet, histories
<1>2. CASE End(Failed, child)
  BY <1>1, <1>2, EndKept
<1>3. CASE Goto("waitpid") /\ UNCHANGED pending
  <2>1. at' = "waitpid"
    BY <1>3 DEF Goto
  <2>2. \A s \in Blockable : Has(child, s) => Has(child', s)
    BY <1>1, NothingAtNoChild
  <2>3. child.st # "dead"
    BY <1>1 DEF NoChild
  <2> QED  BY <1>1, <1>3, <2>1, <2>2, <2>3, PlaceKept DEF Taken
<1> QED  BY <1>2, <1>3 DEF Fork

LEMMA FailedIsNoSignal == Failed \notin Blockable /\ Returned \notin Blockable
BY StartupAssumption DEF Blockable, Failed, Returned, SIGINT, SIGTERM, SIGKILL

LEMMA WaitForChildKept == ASSUME StartInv, [Next]_vars, WaitForChild, KeptInv PROVE KeptInv'
<1>1. at = "waitpid" /\ UNCHANGED <<scenario, oldmask, opts, arrived, dropped>>
  BY DEF WaitForChild, Quiet, histories
<1>2. CASE End(Failed, child)
  BY <1>1, <1>2, EndKept, FailedIsNoSignal
<1>3. CASE Goto("setoptions") /\ UNCHANGED <<child, pending>>
  BY <1>1, <1>3, PlaceKept DEF Taken, Goto
<1> QED  BY <1>2, <1>3 DEF WaitForChild

LEMMA SetOptionsKept == ASSUME StartInv, [Next]_vars, SetOptions, KeptInv PROVE KeptInv'
<1>1. at = "setoptions" /\ UNCHANGED <<scenario, oldmask, opts, arrived, dropped>>
      /\ child \in ChildState
  BY DEF SetOptions, Quiet, histories, StartInv, Typed
<1>2. CASE End(Failed, child)
  BY <1>1, <1>2, EndKept, FailedIsNoSignal
<1>3. CASE /\ Goto("sigaction") /\ child' = [child EXCEPT !.options = ptraceOpts]
           /\ UNCHANGED pending
  <2> DEFINE asked == ptraceOpts
  <2>1. at' = "sigaction" /\ child' = [child EXCEPT !.options = asked]
    BY <1>3 DEF Goto
  <2> HIDE DEF asked
  <2>2. /\ child'.st = child.st /\ child'.stop = child.stop
        /\ child'.pending = child.pending /\ child'.got = child.got
    BY <1>1, <2>1 DEF ChildState
  <2>3. \A s \in Blockable : Has(child, s) => Has(child', s)
    BY <2>2 DEF Has
  <2>4. at' = "sigaction"
    BY <2>1
  <2> QED  BY <1>1, <1>3, <2>2, <2>3, <2>4, PlaceKept DEF Taken
<1> QED  BY <1>2, <1>3 DEF SetOptions

LEMMA SetupSignalForwardingKept ==
  ASSUME StartInv, [Next]_vars, SetupSignalForwarding, KeptInv
  PROVE  KeptInv'
<1>1. at = "sigaction" /\ UNCHANGED <<scenario, oldmask, opts, arrived, dropped>>
  BY DEF SetupSignalForwarding, Quiet, histories
<1>2. CASE End(Failed, child)
  BY <1>1, <1>2, EndKept, FailedIsNoSignal
<1>3. CASE Goto("unblock") /\ handled' = Forwarded /\ UNCHANGED <<child, pending>>
  <2>1. Taken' /\ at' = "unblock"
    BY <1>1, <1>3 DEF Taken, Forwarded, Goto
  <2> QED  BY <1>1, <1>3, <2>1, PlaceKept
<1> QED  BY <1>2, <1>3 DEF SetupSignalForwarding

LEMMA StillTaken ==
  ASSUME KeptInv, UNCHANGED <<opts, handled>>, at \in {"unblock", "register", "loop", "report"}
  PROVE  Taken'
BY DEF KeptInv, Taken, Forwarded

LEMMA UnblockSignalsKept == ASSUME StartInv, [Next]_vars, UnblockSignals, KeptInv PROVE KeptInv'
<1>1. /\ at = "unblock" /\ at' = "register"
      /\ UNCHANGED <<scenario, oldmask, opts, pending, handled, arrived, dropped, child>>
  BY DEF UnblockSignals, Goto, Quiet, histories
<1> QED  BY <1>1, StillTaken, PlaceKept

\* The first restart drops the signal the child has stopped for.
LEMMA FirstRestartKept == ASSUME StartInv, [Next]_vars, FirstRestart, KeptInv PROVE KeptInv'
<1>1. at = "register" /\ UNCHANGED <<scenario, oldmask, opts, arrived>>
  BY DEF FirstRestart
<1>2. CASE End(Failed, child)
  BY <1>1, <1>2, EndKept, FailedIsNoSignal
<1>3. CASE /\ Goto("loop") /\ child.st # "dead" /\ child' = Going(child)
           /\ dropped' = IF child.stop = SIGTRAP THEN {} ELSE {child.stop}
           /\ UNCHANGED <<handled, pending>>
  <2>1. at' = "loop" /\ Taken'
    BY <1>1, <1>3, StillTaken DEF Goto
  <2>2. Came' /\ dropped = {} /\ arrived \subseteq Blockable
    BY <1>1, <2>1 DEF KeptInv, Came, Blockable
  <2>3. child'.pending = child.pending /\ child'.got = child.got
    BY <1>3, GoingEffect DEF StartInv, Typed
  <2>4. ASSUME NEW s \in arrived', s \in arrived => Held(s) PROVE Held(s)'
    <3>1. s \in Blockable /\ s # SIGTRAP /\ Held(s)
      BY <1>1, <2>2, <2>4, Signals
    <3> QED  BY <1>1, <1>3, <2>2, <2>3, <3>1 DEF Held, Has
  <2> QED  BY <1>1, <2>1, <2>2, <2>4, KeptMoves
<1> QED  BY <1>2, <1>3 DEF FirstRestart

LEMMA LoopReturnsKept == ASSUME StartInv, [Next]_vars, LoopReturns, KeptInv PROVE KeptInv'
<1>1. /\ at = "loop" /\ at' = "report"
      /\ UNCHANGED <<scenario, oldmask, opts, pending, handled, arrived, dropped, child>>
  BY DEF LoopReturns, Goto, Quiet, histories
<1> QED  BY <1>1, StillTaken, PlaceKept

LEMMA ReportKept == ASSUME StartInv, Report, KeptInv PROVE KeptInv'
BY EndKept, FailedIsNoSignal DEF Report, Quiet

\* A signal that is to be forwarded is handled wherever it is not blocked.
LEMMA TakeSignalKept ==
  ASSUME StartInv, [Next]_vars, NEW s \in Blockable, TakeSignal(s), KeptInv
  PROVE  KeptInv'
<1>1. /\ at # "ended" /\ s \in pending \ blocked /\ s \in SentSignals /\ child \in ChildState
      /\ UNCHANGED <<scenario, oldmask, opts, arrived, dropped>>
  BY DEF TakeSignal, Quiet, histories, Blockable, StartInv, Typed
<1>2. at \notin {"main", "block"} => at \in {"register", "loop", "report"}
  BY <1>1 DEF StartInv, Masked, Typed, TypeOK
<1>3. at \notin {"main", "block"} /\ s \in Requested => s \in handled
  BY <1>2, Granted DEF KeptInv, Asked, Taken, StartInv
<1>4. CASE at \in {"main", "block"}
  <2>1. child = NoChild /\ arrived = {}
    BY <1>4 DEF StartInv, Forked, KeptInv, Came
  <2>2. CASE End(s, child)
    BY <1>1, <2>1, <2>2, EndKept
  <2>3. CASE UNCHANGED <<at, ended, handled>> /\ (child' = Sent(child, s) \/ child' = child)
    <3>1. child' = child
      BY <2>1, <2>3 DEF Sent, NoChild
    <3>2. Asked' /\ Taken' /\ Came' /\ Kept'
      BY <1>1, <1>4, <2>1, <2>3 DEF KeptInv, Asked, Taken, Came, Kept
    <3>3. ForwardedNotFatal'
      BY <2>1, <3>1 DEF ForwardedNotFatal, NoChild
    <3> QED  BY <3>2, <3>3 DEF KeptInv
  <2> QED  BY <2>2, <2>3 DEF TakeSignal
<1>5. CASE at \notin {"main", "block"}
  <2>1. CASE s \notin handled /\ End(s, child)
    BY <1>1, <1>3, <1>5, <2>1, EndKept
  <2>2. CASE /\ s \in handled /\ child' = Sent(child, s) /\ pending' = pending \ {s}
             /\ UNCHANGED <<at, handled>>
    <3>1. /\ child.st # "none" /\ s # SIGKILL
      BY <1>1, <1>2, <1>5 DEF StartInv, Forked, NoChild, Blockable
    <3>2. \/ child' = child /\ child.st = "dead"
          \/ child' = [child EXCEPT !.pending = @ \cup {s}] /\ child.st # "dead"
      BY <2>2, <3>1 DEF Sent
    <3>3. /\ child.st = "dead" => child'.st = "dead"
          /\ child'.got = child.got /\ child'.stop = child.stop
          /\ child.pending \subseteq child'.pending
          /\ s \in child'.pending \/ child'.st = "dead"
      BY <1>1, <3>2 DEF ChildState
    <3>4. Taken' /\ Came'
      BY <1>1, <1>2, <1>5, <2>2, StillTaken DEF KeptInv, Came, Blockable
    <3>5. ASSUME NEW t \in arrived', t \in arrived => Held(t) PROVE Held(t)'
      BY <1>1, <2>2, <3>3, <3>5 DEF Held, Has
    <3> QED  BY <1>1, <1>2, <1>5, <2>2, <3>4, <3>5, KeptMoves
  <2>3. CASE s \notin handled /\ pending' = pending \ {s} /\ UNCHANGED <<at, handled, child>>
    <3>1. Taken' /\ Came'
      BY <1>1, <1>2, <1>5, <2>3, StillTaken DEF KeptInv, Came, Blockable
    <3>2. ASSUME NEW t \in arrived' \cap Requested, t \in arrived => Held(t) PROVE Held(t)'
      BY <1>1, <1>3, <1>5, <2>3, <3>2 DEF Held, Has
    <3> QED  BY <1>1, <1>2, <1>5, <2>3, <3>1, <3>2, KeptMoves
  <2> QED  BY <2>1, <2>2, <2>3 DEF TakeSignal
<1> QED  BY <1>4, <1>5

LEMMA SendKept ==
  ASSUME StartInv, [Next]_vars, NEW s \in SentSignals, NEW targets, Send(s, targets), KeptInv
  PROVE  KeptInv'
<1> DEFINE c == IF "child" \in targets THEN Sent(child, s) ELSE child
<1>1. /\ at # "ended" /\ child \in ChildState /\ UNCHANGED <<scenario, oldmask, opts, dropped>>
      /\ Blockable' = Blockable /\ SIGKILL \notin Blockable
  BY DEF Send, StartInv, Typed, Blockable
<1>2. /\ (c.got = child.got /\ child.pending \subseteq c.pending) \/ c.st = "dead"
      /\ c.stop = child.stop \/ c.st = "dead"
      /\ child.st = "dead" => c.st = "dead"
      /\ child = NoChild => c = NoChild
  <2>1. /\ c = child \/ c.st = "dead" \/ (c.st = child.st /\ c.stop = child.stop
                                          /\ c.got = child.got
                                          /\ c.pending = child.pending \cup {s})
    BY <1>1, SentEffect
  <2>2. child = NoChild => c = NoChild
    BY DEF Sent, NoChild
  <2> QED  BY <2>1, <2>2
<1> HIDE DEF c
<1>3. CASE s = SIGKILL /\ End(s, c)
  BY <1>1, <1>3, EndKept
<1>4. CASE s \in Blockable /\ pending' = pending \cup {s} /\ child' = c
           /\ UNCHANGED <<at, ended, blocked, handled>>
           /\ arrived' = IF at \in {"main", "block"} THEN {} ELSE arrived \cup {s}
  <2>1. Came'
    BY <1>1, <1>4 DEF KeptInv, Came
  <2>2. Taken'
    BY <1>1, <1>4 DEF KeptInv, Taken, Forwarded
  <2>3. ASSUME NEW t \in arrived', t \in arrived => Held(t) PROVE Held(t)'
    <3>1. t = s \/ t \in arrived
      BY <1>4
    <3> QED  BY <1>1, <1>2, <1>4, <2>3, <3>1 DEF Held, Has
  <2>4. CASE at \in {"main", "block"}
    <3>1. child = NoChild
      BY <2>4 DEF StartInv, Forked
    <3>2. ForwardedNotFatal'
      BY <1>2, <1>4, <3>1 DEF ForwardedNotFatal, NoChild
    <3>3. Asked' /\ Kept'
      BY <1>1, <1>4, <2>4 DEF KeptInv, Asked, Kept
    <3> QED  BY <2>1, <2>2, <3>2, <3>3 DEF KeptInv
  <2>5. CASE at \notin {"main", "block"}
    BY <1>1, <1>4, <2>1, <2>2, <2>3, <2>5, KeptMoves
  <2> QED  BY <2>4, <2>5
<1>5. CASE child' = c /\ UNCHANGED <<at, ended, blocked, handled, pending, arrived>>
  <2>1. Came'
    BY <1>1, <1>5 DEF KeptInv, Came
  <2>2. Taken'
    BY <1>1, <1>5 DEF KeptInv, Taken, Forwarded
  <2>3. ASSUME NEW t \in arrived', t \in arrived => Held(t) PROVE Held(t)'
    BY <1>1, <1>2, <1>5, <2>3 DEF Held, Has
  <2>4. CASE at \in {"main", "block"}
    <3>1. child = NoChild
      BY <2>4 DEF StartInv, Forked
    <3>2. ForwardedNotFatal'
      BY <1>2, <1>5, <3>1 DEF ForwardedNotFatal, NoChild
    <3>3. Asked' /\ Kept'
      BY <1>1, <1>5, <2>4 DEF KeptInv, Asked, Kept
    <3> QED  BY <2>1, <2>2, <3>2, <3>3 DEF KeptInv
  <2>5. CASE at \notin {"main", "block"}
    BY <1>1, <1>5, <2>1, <2>2, <2>3, <2>5, KeptMoves
  <2> QED  BY <2>4, <2>5
<1>6. s # SIGKILL => s \in Blockable
  BY DEF Blockable
<1>7. \/ s = SIGKILL /\ End(s, c)
      \/ /\ s # SIGKILL /\ pending' = pending \cup {s} /\ child' = c
         /\ UNCHANGED <<at, ended, blocked, handled>>
         /\ arrived' = IF at \in {"main", "block"} THEN {} ELSE arrived \cup {s}
      \/ child' = c /\ UNCHANGED <<at, ended, blocked, handled, pending, arrived>>
  BY DEF Send, tracer, c
<1> QED  BY <1>3, <1>4, <1>5, <1>6, <1>7

LEMMA KeptStutters == ASSUME StartInv, UNCHANGED vars, KeptInv PROVE KeptInv'
<1>1. /\ UNCHANGED <<scenario, oldmask, opts, at, ended, blocked, handled, pending, child, arrived,
                     dropped>>
      /\ Blockable' = Blockable
  BY DEF vars, tracer, histories, Blockable
<1>2. Requested' = Requested /\ Forwarded' = Forwarded
  BY <1>1, SameRequested DEF Forwarded
<1> QED
  BY <1>1, <1>2
  DEF KeptInv, Asked, Taken, Came, Kept, Held, Has, ForwardedNotFatal

LEMMA KeptInit == ASSUME Init PROVE KeptInv
<1>1. at = "main" /\ child = NoChild /\ arrived = {} /\ dropped = {} /\ ended = None
  BY DEF Init
<1> QED
  BY <1>1 DEF KeptInv, Asked, Taken, Came, Kept, ForwardedNotFatal, NoChild

LEMMA KeptNext == ASSUME StartInv, [Next]_vars, KeptInv PROVE KeptInv'
<1>1. CASE ChildMovesAlone
  BY <1>1, ChildSteps, ChildKept
<1>2. CASE Optrace /\ ~LoopRestart
  BY <1>2, MainKept, BlockSignalsKept, ForkKept, WaitForChildKept, SetOptionsKept,
     SetupSignalForwardingKept, UnblockSignalsKept, FirstRestartKept, LoopReturnsKept,
     ReportKept, TakeSignalKept DEF Optrace
<1>3. CASE \E s \in SentSignals, targets \in (SUBSET {"optrace", "child"}) \ {{}} :
             Send(s, targets)
  BY <1>3, SendKept
<1>4. CASE UNCHANGED vars
  BY <1>4, KeptStutters
<1> QED  BY <1>1, <1>2, <1>3, <1>4, WhoMoves

------------------------------------------------------------------------------
(* The filter.  It selects every call that is followed: the blocks of the     *)
(* program are taken apart, jumps are shown to go forward and to stay inside, *)
(* so that there is a function that Verdict computes with, and the calls are  *)
(* traced through the blocks.                                                 *)

\* The instructions the program is made of.
Instr == {Load(word) : word \in {"nr", "arg"}} \cup
         {Return(verdict) : verdict \in {"TRACE", "ALLOW"}} \cup
         {JumpIf(op, k, jt, jf) : op \in {"jeq", "jset"}, k \in Nat, jt \in Nat, jf \in Nat}

LEMMA InstrsAre ==
  /\ \A word \in {"nr", "arg"} : Load(word) \in Instr
  /\ \A verdict \in {"TRACE", "ALLOW"} : Return(verdict) \in Instr
  /\ \A op \in {"jeq", "jset"}, k \in Nat, jt \in Nat, jf \in Nat : JumpIf(op, k, jt, jf) \in Instr
BY DEF Instr

\* The last block, of the calls that are traced whatever their arguments.
CallTests(arch) ==
  LET calls == tracingSyscalls(arch)
  IN  [i \in 1 .. 2 * Len(calls) |->
         IF i % 2 = 1 THEN JumpIf("jeq", Nr[arch][calls[(i + 1) \div 2]], 0, 1)
                      ELSE Return("TRACE")]

\* The calls that are followed whatever their arguments.
Always == {"write", "writev", "pwritev", "pwrite64", "pwritev2", "creat", "close", "dup", "dup2",
           "dup3", "fallocate", "ftruncate", "lseek"}

\* tracingSyscalls has every such call, once the architecture has it.
LEMMA CallsAre ==
  ASSUME NEW arch \in Arch
  PROVE  LET calls == tracingSyscalls(arch)
         IN  /\ Len(calls) = IF arch = "x86_64" THEN 13 ELSE 11
             /\ \A i \in 1 .. Len(calls) : calls[i] \in Always \cap DOMAIN Nr[arch]
             /\ \A nr \in Always \cap DOMAIN Nr[arch] : \E i \in 1 .. Len(calls) : calls[i] = nr
<1> DEFINE some == <<"creat", "dup2">>
           most == <<"write", "writev", "pwritev", "pwrite64", "pwritev2", "close", "dup", "dup3",
                     "fallocate", "ftruncate", "lseek">>
           calls == tracingSyscalls(arch)
<1>1. /\ Len(some) = 2 /\ some[1] = "creat" /\ some[2] = "dup2"
      /\ Len(most) = 11 /\ most[1] = "write" /\ most[2] = "writev" /\ most[3] = "pwritev"
      /\ most[4] = "pwrite64" /\ most[5] = "pwritev2" /\ most[6] = "close" /\ most[7] = "dup"
      /\ most[8] = "dup3" /\ most[9] = "fallocate" /\ most[10] = "ftruncate" /\ most[11] = "lseek"
  OBVIOUS
<1>5. some \in Seq(Always)
  BY DEF Always
<1>6. most \in Seq(Always)
  BY DEF Always
<1>2. calls = (IF arch = "x86_64" THEN some ELSE << >>) \o most
  BY DEF tracingSyscalls
<1> HIDE DEF some, most, calls
<1>3. CASE arch = "x86_64"
  <2>1. /\ Len(calls) = 13
        /\ \A i \in 1 .. 13 : calls[i] = IF i <= 2 THEN some[i] ELSE most[i - 2]
    <3>1. calls = some \o most
      BY <1>2, <1>3
    <3>2. /\ Len(some \o most) = Len(some) + Len(most)
          /\ \A i \in 1 .. Len(some) + Len(most) :
               (some \o most)[i] = IF i <= Len(some) THEN some[i] ELSE most[i - Len(some)]
      BY <1>5, <1>6, ConcatProperties
    <3>3. Len(some) = 2 /\ Len(most) = 11
      BY <1>1
    <3>4. Len(some) + Len(most) = 13
      BY <3>3
    <3> HIDE DEF some, most
    <3>5. Len(some \o most) = 13
      BY <3>2, <3>4
    <3>6. \A i \in 1 .. 13 :
            (some \o most)[i] = IF i <= Len(some) THEN some[i] ELSE most[i - Len(some)]
      BY <3>2, <3>4
    <3>7. \A i \in 1 .. 13 : (some \o most)[i] = IF i <= 2 THEN some[i] ELSE most[i - 2]
      BY <3>3, <3>6
    <3> QED  BY <3>1, <3>5, <3>7
  <2>2. /\ calls[1] = "creat" /\ calls[2] = "dup2" /\ calls[3] = "write" /\ calls[4] = "writev"
        /\ calls[5] = "pwritev" /\ calls[6] = "pwrite64" /\ calls[7] = "pwritev2"
        /\ calls[8] = "close" /\ calls[9] = "dup" /\ calls[10] = "dup3"
        /\ calls[11] = "fallocate" /\ calls[12] = "ftruncate" /\ calls[13] = "lseek"
    BY <1>1, <2>1
  <2>3. Always \subseteq DOMAIN Nr[arch]
    BY <1>3 DEF Always, Nr, Arch
  <2>4. \A i \in 1 .. 13 : calls[i] \in Always
    BY <2>2 DEF Always
  <2>5. \A nr \in Always : \E i \in 1 .. 13 : calls[i] = nr
    BY <2>2 DEF Always
  <2> QED  BY <1>3, <2>1, <2>3, <2>4, <2>5 DEF calls
<1>4. CASE arch = "aarch64"
  <2>1. Len(calls) = 11 /\ \A i \in 1 .. 11 : calls[i] = most[i]
    BY <1>1, <1>2, <1>4, ConcatEmptySeq
  <2>2. /\ calls[1] = "write" /\ calls[2] = "writev"
        /\ calls[3] = "pwritev" /\ calls[4] = "pwrite64" /\ calls[5] = "pwritev2"
        /\ calls[6] = "close" /\ calls[7] = "dup" /\ calls[8] = "dup3"
        /\ calls[9] = "fallocate" /\ calls[10] = "ftruncate" /\ calls[11] = "lseek"
    BY <1>1, <2>1
  <2>3. Always \cap DOMAIN Nr[arch] = Always \ {"creat", "dup2"}
    BY <1>4 DEF Always, Nr, Arch
  <2>4. \A i \in 1 .. 11 : calls[i] \in Always \ {"creat", "dup2"}
    BY <2>2 DEF Always
  <2>5. \A nr \in Always \ {"creat", "dup2"} : \E i \in 1 .. 11 : calls[i] = nr
    BY <2>2 DEF Always
  <2> QED  BY <1>4, <2>1, <2>3, <2>4, <2>5 DEF calls
<1> QED  BY <1>3, <1>4 DEF Arch

LEMMA NumbersAre ==
  ASSUME NEW arch \in Arch, NEW nr \in DOMAIN Nr[arch]
  PROVE  Nr[arch][nr] \in Nat
BY DEF Nr, Arch

\* Each of them is compared with the number, and followed by its verdict.
LEMMA TestsAre ==
  ASSUME NEW arch \in Arch
  PROVE  LET n == Len(tracingSyscalls(arch)) 
         IN  /\ n \in Nat
             /\ CallTests(arch) \in Seq(Instr) /\ Len(CallTests(arch)) = 2 * n
             /\ \A i \in 1 .. n :
                  /\ CallTests(arch)[2 * i - 1] = JumpIf("jeq", Nr[arch][tracingSyscalls(arch)[i]], 0, 1)
                  /\ CallTests(arch)[2 * i] = Return("TRACE")
<1> DEFINE calls == tracingSyscalls(arch)
           n == Len(calls)
           tests == CallTests(arch)
<1>1. n \in Nat /\ \A i \in 1 .. n : calls[i] \in DOMAIN Nr[arch]
  BY CallsAre
<1>2. \A nr \in DOMAIN Nr[arch] : Nr[arch][nr] \in Nat
  BY NumbersAre
<1>3. tests = [i \in 1 .. 2 * n |->
         IF i % 2 = 1 THEN JumpIf("jeq", Nr[arch][calls[(i + 1) \div 2]], 0, 1)
                      ELSE Return("TRACE")]
  BY DEF CallTests
<1> HIDE DEF calls, n, tests
<1>4. ASSUME NEW i \in 1 .. 2 * n
      PROVE  (IF i % 2 = 1 THEN JumpIf("jeq", Nr[arch][calls[(i + 1) \div 2]], 0, 1)
                      ELSE Return("TRACE")) \in Instr
  <2>1. CASE i % 2 = 1
    <3>1. (i + 1) \div 2 \in 1 .. n
      BY <2>1, <1>1
    <3> QED BY <3>1, <2>1, <1>1, <1>2, InstrsAre
  <2> QED BY <2>1, InstrsAre
<1>5. tests \in [1 .. 2 * n -> Instr]
  BY <1>3, <1>4
<1>6. 2 * n \in Nat 
  BY <1>1
<1>7. tests \in Seq(Instr) /\ Len(tests) = 2 * n
  BY <1>5, <1>6
<1>8. ASSUME NEW i \in 1 .. n
      PROVE  tests[2 * i - 1] = JumpIf("jeq", Nr[arch][calls[i]], 0, 1) /\ tests[2 * i] = Return("TRACE")
  <2>1. /\ 2 * i - 1 \in 1 .. 2 * n /\ 2 * i \in 1 .. 2 * n
        /\ (2 * i - 1) % 2 = 1 /\ (2 * i) % 2 # 1 /\ (2 * i - 1 + 1) \div 2 = i
    BY <1>1
  <2> QED BY <1>3, <2>1
<1> QED BY <1>1, <1>7, <1>8 DEF tests, calls, n

\* block is in the program, after its first pos instructions.
Within(program, pos, block) ==
  /\ pos + Len(block) <= Len(program)
  /\ \A i \in 1 .. Len(block) : program[pos + i] = block[i]

\* Blocks are where they have been appended.
LEMMA Joined ==
  ASSUME NEW a \in Seq(Instr), NEW b \in Seq(Instr)
  PROVE  /\ a \o b \in Seq(Instr) /\ Len(a \o b) = Len(a) + Len(b)
         /\ Within(a \o b, Len(a), b)
         /\ \A pos \in Nat, block \in Seq(Instr) : Within(a, pos, block) => Within(a \o b, pos, block)
<1>1. Len(a) \in Nat /\ Len(b) \in Nat
  OBVIOUS
<1>2. /\ a \o b \in Seq(Instr) /\ Len(a \o b) = Len(a) + Len(b)
      /\ \A i \in 1 .. Len(a) + Len(b) :
           (a \o b)[i] = IF i <= Len(a) THEN a[i] ELSE b[i - Len(a)]
  BY ConcatProperties
<1>3. ASSUME NEW i \in 1 .. Len(a) PROVE (a \o b)[i] = a[i]
  <2>1. i \in 1 .. Len(a) + Len(b) /\ i <= Len(a)
    BY <1>1
  <2> QED BY <1>2, <2>1
<1>4. ASSUME NEW i \in 1 .. Len(b) PROVE (a \o b)[Len(a) + i] = b[i]
  <2>1. /\ Len(a) + i \in 1 .. Len(a) + Len(b) /\ ~(Len(a) + i <= Len(a))
        /\ Len(a) + i - Len(a) = i
    BY <1>1
  <2> QED BY <1>2, <2>1
<1>5. ASSUME NEW pos \in Nat, NEW block \in Seq(Instr), Within(a, pos, block)
      PROVE  Within(a \o b, pos, block)
  <2>1. Len(block) \in Nat /\ pos + Len(block) <= Len(a)
    BY <1>5 DEF Within
  <2>2. ASSUME NEW i \in 1 .. Len(block) PROVE (a \o b)[pos + i] = block[i]
    <3>1. pos + i \in 1 .. Len(a)
      BY <1>1, <2>1
    <3>2. a[pos + i] = block[i]
      BY <1>5 DEF Within
    <3> QED  BY <1>3, <3>1, <3>2
  <2> QED  BY <1>1, <1>2, <2>1, <2>2 DEF Within
<1> QED BY <1>1, <1>2, <1>4, <1>5 DEF Within

LEMMA BlocksAre ==
  ASSUME NEW nr \in Nat
  PROVE  /\ OpenBlock(nr) \in Seq(Instr) /\ Len(OpenBlock(nr)) = 5
         /\ FcntlBlock(nr) \in Seq(Instr) /\ Len(FcntlBlock(nr)) = 7
<1>1. /\ Len(OpenBlock(nr)) = 5 /\ Len(FcntlBlock(nr)) = 7
  BY DEF OpenBlock, FcntlBlock
<1>2. OpenBlock(nr) \in Seq(Instr)
  <2> DEFINE a == JumpIf("jeq", nr, 0, 4)
             b == Load("arg")
             c == JumpIf("jset", O_WRONLY, 1, 0)
             d == JumpIf("jset", O_RDWR, 0, 1)
             e == Return("TRACE")
  <2>1. a \in Instr /\ b \in Instr /\ c \in Instr /\ d \in Instr /\ e \in Instr
    BY InstrsAre DEF O_WRONLY, O_RDWR
  <2>2. OpenBlock(nr) = <<a, b, c, d, e>>
    BY DEF OpenBlock
  <2> HIDE DEF a, b, c, d, e
  <2> QED  BY <2>1, <2>2
<1>3. FcntlBlock(nr) \in Seq(Instr)
  <2> DEFINE a == JumpIf("jeq", nr, 0, 6)
             b == Load("arg")
             c == JumpIf("jset", F_DUPFD, 3, 0)
             d == JumpIf("jset", F_DUPFD_CLOEXEC, 2, 0)
             e == JumpIf("jset", F_SETFL, 1, 0)
             f == JumpIf("jset", F_SETFD, 0, 1)
             g == Return("TRACE")
  <2>1. a \in Instr /\ b \in Instr /\ c \in Instr /\ d \in Instr /\ e \in Instr
        /\ f \in Instr /\ g \in Instr
    BY InstrsAre DEF F_DUPFD, F_DUPFD_CLOEXEC, F_SETFD, F_SETFL
  <2>2. FcntlBlock(nr) = <<a, b, c, d, e, f, g>>
    BY DEF FcntlBlock
  <2> HIDE DEF a, b, c, d, e, f, g
  <2> QED  BY <2>1, <2>2
<1> QED  BY <1>1, <1>2, <1>3

\* Where the block of openat begins.
AfterOpen(arch) == IF arch = "x86_64" THEN 6 ELSE 1

\* The program is its blocks, one after the other.
LEMMA ProgramIs ==
  ASSUME NEW arch \in Arch
  PROVE  LET p == filter[arch]
             o == AfterOpen(arch)
             n == Len(tracingSyscalls(arch))
         IN  /\ p \in Seq(Instr) /\ Len(p) = o + 13 + 2 * n
             /\ p[1] = Load("nr") /\ p[Len(p)] = Return("ALLOW")
             /\ arch = "x86_64" => Within(p, 1, OpenBlock(Nr[arch].open))
             /\ Within(p, o, OpenBlock(Nr[arch].openat))
             /\ Within(p, o + 5, FcntlBlock(Nr[arch].fcntl))
             /\ Within(p, o + 12, CallTests(arch))
<1> DEFINE p == filter[arch]
           o == AfterOpen(arch)
           n == Len(tracingSyscalls(arch))
           load == <<Load("nr")>>
           opens == IF arch = "x86_64" THEN OpenBlock(Nr[arch].open) ELSE << >>
           openat == OpenBlock(Nr[arch].openat)
           fcntl == FcntlBlock(Nr[arch].fcntl)
           tests == CallTests(arch)
           allow == <<Return("ALLOW")>>
<1>1. p = load \o opens \o openat \o fcntl \o tests \o allow
  BY DEF filter, CallTests
<1>2. /\ load \in Seq(Instr) /\ Len(load) = 1 /\ load[1] = Load("nr")
      /\ allow \in Seq(Instr) /\ Len(allow) = 1 /\ allow[1] = Return("ALLOW")
  BY InstrsAre
<1>3. /\ opens \in Seq(Instr) /\ Len(opens) = o - 1
      /\ openat \in Seq(Instr) /\ Len(openat) = 5
      /\ fcntl \in Seq(Instr) /\ Len(fcntl) = 7
  <2>1. /\ arch = "x86_64" => Nr[arch].open \in Nat
        /\ Nr[arch].openat \in Nat /\ Nr[arch].fcntl \in Nat
    BY DEF Nr, Arch
  <2>2. << >> \in Seq(Instr) /\ Len(<< >>) = 0
    OBVIOUS
  <2>3. opens \in Seq(Instr) /\ Len(opens) = o - 1
    <3>1. CASE arch = "x86_64"
      <4>1. OpenBlock(Nr[arch].open) \in Seq(Instr) /\ Len(OpenBlock(Nr[arch].open)) = 5
        BY <2>1, <3>1, BlocksAre
      <4> QED  BY <3>1, <4>1 DEF AfterOpen
    <3>2. CASE arch # "x86_64"
      BY <2>2, <3>2 DEF AfterOpen
    <3> QED  BY <3>1, <3>2
  <2>4. openat \in Seq(Instr) /\ Len(openat) = 5
    BY <2>1, BlocksAre
  <2>5. fcntl \in Seq(Instr) /\ Len(fcntl) = 7
    BY <2>1, BlocksAre
  <2> QED  BY <2>3, <2>4, <2>5
<1>4. n \in Nat /\ o \in Nat /\ tests \in Seq(Instr) /\ Len(tests) = 2 * n
  BY TestsAre DEF AfterOpen
<1>5. arch = "x86_64" => opens = OpenBlock(Nr[arch].open) /\ o = 6
  BY DEF AfterOpen
<1> HIDE DEF load, opens, openat, fcntl, tests, allow, o, n, p
<1> DEFINE p1 == load \o opens
           p2 == p1 \o openat
           p3 == p2 \o fcntl
           p4 == p3 \o tests
<1>0. Within(load, 0, load) /\ 0 \in Nat /\ 1 \in Nat
  BY <1>2 DEF Within
<1>6. /\ p1 \in Seq(Instr) /\ Len(p1) = 1 + (o - 1)
      /\ Within(p1, 0, load) /\ Within(p1, 1, opens)
  BY <1>0, <1>2, <1>3, Joined
<1>a. Len(p1) = o
  BY <1>6, <1>4
<1> HIDE DEF p1
<1>7. /\ p2 \in Seq(Instr) /\ Len(p2) = o + 5
      /\ Within(p2, 0, load) /\ Within(p2, 1, opens) /\ Within(p2, o, openat)
  BY <1>0, <1>6, <1>a, <1>2, <1>3, Joined
<1> HIDE DEF p2
<1>8. /\ p3 \in Seq(Instr) /\ Len(p3) = o + 5 + 7
      /\ Within(p3, 0, load) /\ Within(p3, 1, opens) /\ Within(p3, o, openat) /\ Within(p3, o + 5, fcntl)
  <2>1. /\ p2 \o fcntl \in Seq(Instr) /\ Len(p2 \o fcntl) = Len(p2) + Len(fcntl)
        /\ Within(p2 \o fcntl, Len(p2), fcntl)
        /\ \A pos \in Nat, block \in Seq(Instr) : Within(p2, pos, block) => Within(p2 \o fcntl, pos, block)
    BY <1>3, <1>7, Joined
  <2>2. p3 = p2 \o fcntl
    OBVIOUS
  <2> HIDE DEF p3
  <2> QED  BY <1>0, <1>2, <1>3, <1>4, <1>7, <2>1, <2>2
<1>b. Len(p3) = o + 12 /\ o + 5 \in Nat /\ o + 12 \in Nat
  BY <1>8, <1>4
<1> HIDE DEF p3
<1>9. /\ p4 \in Seq(Instr) /\ Len(p4) = o + 12 + 2 * n
      /\ Within(p4, 0, load) /\ Within(p4, 1, opens) /\ Within(p4, o, openat) /\ Within(p4, o + 5, fcntl)
      /\ Within(p4, o + 12, tests)
  <2>1. /\ p3 \o tests \in Seq(Instr) /\ Len(p3 \o tests) = Len(p3) + Len(tests)
        /\ Within(p3 \o tests, Len(p3), tests)
        /\ \A pos \in Nat, block \in Seq(Instr) : Within(p3, pos, block) => Within(p3 \o tests, pos, block)
    BY <1>4, <1>8, Joined
  <2>2. p4 = p3 \o tests
    OBVIOUS
  <2> HIDE DEF p4
  <2> QED  BY <1>0, <1>2, <1>3, <1>4, <1>8, <1>b, <2>1, <2>2
<1> HIDE DEF p4
<1>10. p = p4 \o allow
  BY <1>1 DEF p1, p2, p3, p4
<1>11. /\ p \in Seq(Instr) /\ Len(p) = o + 12 + 2 * n + 1
       /\ Within(p, 0, load) /\ Within(p, 1, opens) /\ Within(p, o, openat) /\ Within(p, o + 5, fcntl)
       /\ Within(p, o + 12, tests) /\ Within(p, o + 12 + 2 * n, allow)
  <2>1. /\ p4 \o allow \in Seq(Instr) /\ Len(p4 \o allow) = Len(p4) + Len(allow)
        /\ Within(p4 \o allow, Len(p4), allow)
        /\ \A pos \in Nat, block \in Seq(Instr) : Within(p4, pos, block) => Within(p4 \o allow, pos, block)
    BY <1>2, <1>9, Joined
  <2> QED  BY <1>0, <1>2, <1>3, <1>4, <1>9, <1>10, <1>b, <2>1
<1>12. Len(p) = o + 13 + 2 * n
  BY <1>11, <1>4
<1>13. p[0 + 1] = load[1] /\ p[o + 12 + 2 * n + 1] = allow[1]
  BY <1>2, <1>11 DEF Within
<1>14. p[1] = Load("nr") /\ p[Len(p)] = Return("ALLOW")
  BY <1>2, <1>11, <1>13
<1> QED  BY <1>5, <1>11, <1>12, <1>14 DEF openat, fcntl, tests, p, o, n

------------------------------------------------------------------------------
\* Where the machine goes from there, for an instruction that does not return.
Word(arch, call, i, word) ==
  IF i.op # "ld" THEN word ELSE IF i.k = "nr" THEN Nr[arch][call.nr] ELSE call.arg
Holds(i, word) == IF i.op = "jeq" THEN word = i.k ELSE CommonBit(word, i.k)
Jump(i, word) == IF i.op = "ld" THEN 0 ELSE IF Holds(i, word) THEN i.jt ELSE i.jf

\* Every jump of the block ends in it or right after it.
Stays(block) ==
  \A i \in 1 .. Len(block) :
    \/ block[i].op = "ret"
    \/ \A word : i + Jump(block[i], word) \in 1 .. Len(block)

LEMMA JumpsAre ==
  ASSUME NEW word
  PROVE  /\ \A k : Jump(Load(k), word) = 0
         /\ \A op \in {"jeq", "jset"} : \A k, jt, jf :
              Jump(JumpIf(op, k, jt, jf), word) = IF Holds(JumpIf(op, k, jt, jf), word) THEN jt ELSE jf
         /\ \A verdict : Return(verdict).op = "ret"
BY DEF Jump, Load, JumpIf, Return

LEMMA OpenStays == ASSUME NEW nr \in Nat PROVE Stays(OpenBlock(nr))
<1>1. /\ OpenBlock(nr)[1] = JumpIf("jeq", nr, 0, 4) /\ OpenBlock(nr)[2] = Load("arg")
      /\ OpenBlock(nr)[3] = JumpIf("jset", O_WRONLY, 1, 0)
      /\ OpenBlock(nr)[4] = JumpIf("jset", O_RDWR, 0, 1) /\ OpenBlock(nr)[5] = Return("TRACE")
      /\ Len(OpenBlock(nr)) = 5
  BY DEF OpenBlock
<1> SUFFICES ASSUME NEW i \in 1 .. 5, OpenBlock(nr)[i].op # "ret", NEW word
             PROVE  i + Jump(OpenBlock(nr)[i], word) \in 1 .. 5
  BY <1>1 DEF Stays
<1>2. i # 5
  BY <1>1, JumpsAre
<1>3. /\ i = 1 => Jump(OpenBlock(nr)[i], word) \in {0, 4}
      /\ i = 2 => Jump(OpenBlock(nr)[i], word) = 0
      /\ i = 3 => Jump(OpenBlock(nr)[i], word) \in {0, 1}
      /\ i = 4 => Jump(OpenBlock(nr)[i], word) \in {0, 1}
  BY <1>1, JumpsAre
<1> QED  BY <1>2, <1>3

LEMMA FcntlStays == ASSUME NEW nr \in Nat PROVE Stays(FcntlBlock(nr))
<1>1. /\ FcntlBlock(nr)[1] = JumpIf("jeq", nr, 0, 6) /\ FcntlBlock(nr)[2] = Load("arg")
      /\ FcntlBlock(nr)[3] = JumpIf("jset", F_DUPFD, 3, 0)
      /\ FcntlBlock(nr)[4] = JumpIf("jset", F_DUPFD_CLOEXEC, 2, 0)
      /\ FcntlBlock(nr)[5] = JumpIf("jset", F_SETFL, 1, 0)
      /\ FcntlBlock(nr)[6] = JumpIf("jset", F_SETFD, 0, 1) /\ FcntlBlock(nr)[7] = Return("TRACE")
      /\ Len(FcntlBlock(nr)) = 7
  BY DEF FcntlBlock
<1> SUFFICES ASSUME NEW i \in 1 .. 7, FcntlBlock(nr)[i].op # "ret", NEW word
             PROVE  i + Jump(FcntlBlock(nr)[i], word) \in 1 .. 7
  BY <1>1 DEF Stays
<1>2. i # 7
  BY <1>1, JumpsAre
<1>3. /\ i = 1 => Jump(FcntlBlock(nr)[i], word) \in {0, 6}
      /\ i = 2 => Jump(FcntlBlock(nr)[i], word) = 0
      /\ i = 3 => Jump(FcntlBlock(nr)[i], word) \in {0, 3}
      /\ i = 4 => Jump(FcntlBlock(nr)[i], word) \in {0, 2}
      /\ i = 5 => Jump(FcntlBlock(nr)[i], word) \in {0, 1}
      /\ i = 6 => Jump(FcntlBlock(nr)[i], word) \in {0, 1}
  BY <1>1, JumpsAre
<1> QED  BY <1>2, <1>3

LEMMA TestsStay == ASSUME NEW arch \in Arch PROVE Stays(CallTests(arch))
<1> DEFINE tests == CallTests(arch)
           n == Len(tracingSyscalls(arch))
<1>1. /\ n \in Nat /\ Len(tests) = 2 * n
      /\ \A j \in 1 .. n : tests[2 * j - 1] = JumpIf("jeq", Nr[arch][tracingSyscalls(arch)[j]], 0, 1)
                           /\ tests[2 * j] = Return("TRACE")
  BY TestsAre
<1> HIDE DEF tests, n
<1> SUFFICES ASSUME NEW i \in 1 .. 2 * n, tests[i].op # "ret", NEW word
             PROVE  i + Jump(tests[i], word) \in 1 .. 2 * n
  BY <1>1 DEF Stays, tests
<1>2. PICK j \in 1 .. n : i = 2 * j - 1 \/ i = 2 * j
  <2>1. (i + 1) \div 2 \in 1 .. n /\ (i = 2 * ((i + 1) \div 2) - 1 \/ i = 2 * ((i + 1) \div 2))
    BY <1>1
  <2> QED  BY <2>1
<1>3. i = 2 * j - 1
  <2>1. i = 2 * j => tests[i] = Return("TRACE")
    BY <1>1
  <2> QED  BY <1>2, <2>1, JumpsAre
<1>4. Jump(tests[i], word) \in {0, 1}
  <2> DEFINE k == Nr[arch][tracingSyscalls(arch)[j]]
  <2>1. tests[i] = JumpIf("jeq", k, 0, 1)
    BY <1>1, <1>3
  <2> HIDE DEF k
  <2> QED  BY <2>1, JumpsAre
<1> QED  BY <1>1, <1>3, <1>4

\* A jump goes forward.
LEMMA JumpsForward ==
  ASSUME NEW i \in Instr, NEW word, i.op # "ret"
  PROVE  Jump(i, word) \in Nat
<1>1. CASE i \in {Load(w) : w \in {"nr", "arg"}}
  BY <1>1, JumpsAre
<1>2. CASE i \in {Return(verdict) : verdict \in {"TRACE", "ALLOW"}}
  BY <1>2, JumpsAre
<1>3. CASE \E op \in {"jeq", "jset"}, k \in Nat, jt \in Nat, jf \in Nat : i = JumpIf(op, k, jt, jf)
  <2>1. PICK op \in {"jeq", "jset"}, k \in Nat, jt \in Nat, jf \in Nat : i = JumpIf(op, k, jt, jf)
    BY <1>3
  <2>2. Jump(i, word) = IF Holds(i, word) THEN jt ELSE jf
    BY <2>1, JumpsAre
  <2> QED  BY <2>2
<1> QED  BY <1>1, <1>2, <1>3 DEF Instr

\* Nothing jumps out of the program, so that it returns.
LEMMA JumpsStay ==
  ASSUME NEW arch \in Arch, NEW pc \in 1 .. Len(filter[arch]), NEW word,
         filter[arch][pc].op # "ret"
  PROVE  pc + 1 + Jump(filter[arch][pc], word) \in pc + 1 .. Len(filter[arch])
<1> DEFINE p == filter[arch]
           o == AfterOpen(arch)
           n == Len(tracingSyscalls(arch))
<1>1. /\ Len(p) = o + 13 + 2 * n /\ n \in Nat /\ o \in {1, 6} /\ (arch = "x86_64" <=> o = 6)
      /\ p[1] = Load("nr") /\ p[Len(p)] = Return("ALLOW")
      /\ arch = "x86_64" => Within(p, 1, OpenBlock(Nr[arch].open))
      /\ Within(p, o, OpenBlock(Nr[arch].openat))
      /\ Within(p, o + 5, FcntlBlock(Nr[arch].fcntl))
      /\ Within(p, o + 12, CallTests(arch)) /\ Len(CallTests(arch)) = 2 * n
  BY ProgramIs, TestsAre DEF AfterOpen
<1>2. /\ arch = "x86_64" => Nr[arch].open \in Nat
      /\ Nr[arch].openat \in Nat /\ Nr[arch].fcntl \in Nat
  BY DEF Nr, Arch
<1>0. pc \in 1 .. Len(p) /\ p[pc].op # "ret"
  OBVIOUS
<1> HIDE DEF p, o, n
<1>3. ASSUME NEW pos \in Nat, NEW block, Within(p, pos, block), Stays(block), Len(block) \in Nat,
             pc \in pos + 1 .. pos + Len(block), pos + Len(block) < Len(p)
      PROVE  pc + 1 + Jump(p[pc], word) \in pc + 1 .. Len(p)
  <2> DEFINE i == pc - pos
  <2>1. i \in 1 .. Len(block) /\ p[pc] = block[i]
    <3>1. i \in 1 .. Len(block) /\ pos + i = pc
      BY <1>3
    <3> QED  BY <1>3, <3>1 DEF Within
  <2>2. i + Jump(block[i], word) \in 1 .. Len(block)
    BY <1>3, <2>1 DEF Stays, p
  <2>3. Jump(block[i], word) \in Nat
    <3>1. p[pc] \in Instr
      BY ProgramIs, ElementOfSeq DEF p
    <3> QED  BY <3>1, <2>1, JumpsForward DEF p
  <2>4. pos \in Nat /\ Len(block) \in Nat /\ pc \in Int /\ pos + Len(block) < Len(p) /\ Len(p) \in Int
    BY <1>0, <1>1, <1>3
  <2> HIDE DEF i
  <2>5. i + Jump(block[i], word) <= Len(block) /\ pc = pos + i
    BY <2>2, <2>4 DEF i
  <2>6. p[pc] = block[i] /\ i \in Int
    BY <2>1, <2>4 DEF i
  <2> QED  BY <2>3, <2>4, <2>5, <2>6
<1>a. o \in Nat /\ 1 \in Nat /\ o + 5 \in Nat /\ o + 12 \in Nat /\ pc \in Nat /\ Len(p) \in Nat
  BY <1>0, <1>1
<1>4. CASE pc = 1
  <2>1. Jump(p[pc], word) = 0
    BY <1>1, <1>4, JumpsAre
  <2> QED  BY <1>1, <1>4, <2>1 DEF p
<1>5. CASE pc \in 2 .. o
  <2> DEFINE block == OpenBlock(Nr[arch].open)
  <2>1. o = 6 /\ arch = "x86_64"
    BY <1>1, <1>5
  <2>2. Within(p, 1, block) /\ Stays(block) /\ Len(block) = 5
    BY <1>1, <1>2, <2>1, BlocksAre, OpenStays
  <2> HIDE DEF block
  <2>3. /\ Len(block) \in Nat
        /\ pc \in 1 + 1 .. 1 + Len(block) /\ 1 + Len(block) < Len(p)
    BY <1>1, <1>5, <2>1, <2>2
  <2> QED  BY <1>3, <1>a, <2>2, <2>3 DEF p
<1>6. CASE pc \in o + 1 .. o + 5
  <2> DEFINE block == OpenBlock(Nr[arch].openat)
  <2>2. Within(p, o, block) /\ Stays(block) /\ Len(block) = 5
    BY <1>1, <1>2, BlocksAre, OpenStays
  <2> HIDE DEF block
  <2>3. /\ Len(block) \in Nat
        /\ pc \in o + 1 .. o + Len(block) /\ o + Len(block) < Len(p)
    BY <1>1, <1>6, <2>2
  <2> QED  BY <1>3, <1>a, <2>2, <2>3 DEF p
<1>7. CASE pc \in o + 6 .. o + 12
  <2> DEFINE block == FcntlBlock(Nr[arch].fcntl)
  <2>2. Within(p, o + 5, block) /\ Stays(block) /\ Len(block) = 7
    BY <1>1, <1>2, BlocksAre, FcntlStays
  <2> HIDE DEF block
  <2>3. /\ Len(block) \in Nat
        /\ pc \in (o + 5) + 1 .. (o + 5) + Len(block) /\ (o + 5) + Len(block) < Len(p)
    BY <1>1, <1>7, <2>2
  <2> QED  BY <1>3, <1>a, <2>2, <2>3 DEF p
<1>8. CASE pc \in o + 13 .. o + 12 + 2 * n
  <2> DEFINE block == CallTests(arch)
  <2>2. Within(p, o + 12, block) /\ Stays(block) /\ Len(block) = 2 * n
    BY <1>1, TestsStay
  <2> HIDE DEF block
  <2>3. /\ Len(block) \in Nat
        /\ pc \in (o + 12) + 1 .. (o + 12) + Len(block) /\ (o + 12) + Len(block) < Len(p)
    BY <1>1, <1>8, <2>2
  <2> QED  BY <1>3, <1>a, <2>2, <2>3 DEF p
<1>9. pc # Len(p)
  BY <1>1, JumpsAre DEF p
<1> QED  BY <1>0, <1>1, <1>4, <1>5, <1>6, <1>7, <1>8, <1>9 DEF p
\* A call that the program can make.
Numbered(arch, call) == call.nr \in DOMAIN Nr[arch] /\ call.arg \in Nat

\* Where the machine can be: before which instruction, with which word.
Positions(arch) == (1 .. Len(filter[arch])) \X Nat

\* What run makes of one of its arguments.
Stepped(arch, call, f, pc, word) ==
  LET i == filter[arch][pc]
  IN  IF i.op = "ret" THEN i.k
      ELSE f[<<pc + 1 + Jump(i, word), Word(arch, call, i, word)>>]

Ran(arch, call, f) ==
  f = [pos \in Positions(arch) |-> Stepped(arch, call, f, pos[1], pos[2])]

\* Verdict is what such a function answers at the start.
LEMMA VerdictRuns ==
  ASSUME NEW arch, NEW call
  PROVE  Verdict(arch, call) = (CHOOSE f : Ran(arch, call, f))[<<1, 0>>]
<1> DEFINE program == filter[arch]
           Old(f, pos) ==
              LET i == program[pos[1]]
                  word == pos[2]
                  holds == IF i.op = "jeq" THEN word = i.k ELSE CommonBit(word, i.k)
              IN  CASE i.op = "ret" -> i.k
                    [] i.op = "ld" ->
                         f[<<pos[1] + 1, IF i.k = "nr" THEN Nr[arch][call.nr] ELSE call.arg>>]
                    [] OTHER -> f[<<pos[1] + 1 + (IF holds THEN i.jt ELSE i.jf), word>>]
           OldRan(f) == f = [pos \in (1 .. Len(program)) \X Nat |-> Old(f, pos)]
<1>1. Verdict(arch, call) = (CHOOSE f : OldRan(f))[<<1, 0>>]
  BY Zenon DEF Verdict
<1>2. ASSUME NEW f, NEW pos \in Positions(arch)
      PROVE  Old(f, pos) = Stepped(arch, call, f, pos[1], pos[2])
  <2>1. pos[1] + 1 + 0 = pos[1] + 1
    BY DEF Positions
  <2> QED BY <2>1 DEF Stepped, Jump, Word, Holds
<1>3. ASSUME NEW f PROVE OldRan(f) <=> Ran(arch, call, f)
  <2> HIDE DEF Old
  <2>1. [pos \in Positions(arch) |-> Old(f, pos)]
        = [pos \in Positions(arch) |-> Stepped(arch, call, f, pos[1], pos[2])]
    BY <1>2
  <2>2. OldRan(f) <=> f = [pos \in Positions(arch) |-> Old(f, pos)]
    BY DEF Positions
  <2> QED BY <2>1, <2>2 DEF Ran
<1> QED
  <2> HIDE DEF OldRan
  <2>1. (CHOOSE f : OldRan(f)) = (CHOOSE f : Ran(arch, call, f))
    BY <1>3
  <2> QED BY <1>1, <2>1

LEMMA WordsAre ==
  ASSUME NEW arch \in Arch, NEW call, Numbered(arch, call), NEW i, NEW word \in Nat
  PROVE  Word(arch, call, i, word) \in Nat
<1>1. Nr[arch][call.nr] \in Nat /\ call.arg \in Nat
  BY NumbersAre DEF Numbered
<1> QED  BY <1>1 DEF Word

\* The machine stops wherever it starts: nothing jumps back.
LEMMA RunExists ==
  ASSUME NEW arch \in Arch, NEW call, Numbered(arch, call)
  PROVE  \E f : Ran(arch, call, f)
<1> DEFINE len == Len(filter[arch])
           Right(f, n) ==
             \A pos \in Positions(arch) :
               pos[1] > len - n => f[pos] = Stepped(arch, call, f, pos[1], pos[2])
           Reached(n) == \E f : f = [pos \in Positions(arch) |-> f[pos]] /\ Right(f, n)
           Step(f) == [pos \in Positions(arch) |-> Stepped(arch, call, f, pos[1], pos[2])]
<1>0. len \in Nat
  BY ProgramIs
<1>1. Reached(0)
  <2> DEFINE f == [pos \in Positions(arch) |-> 0]
  <2>1. f = [pos \in Positions(arch) |-> f[pos]]
    OBVIOUS
  <2>2. ASSUME NEW pos \in Positions(arch) PROVE ~(pos[1] > len - 0)
    BY <1>0 DEF Positions
  <2> HIDE DEF f
  <2> QED  BY <2>1, <2>2
<1>2. ASSUME NEW n \in Nat, Reached(n) PROVE Reached(n + 1)
  <2>1. PICK f : f = [pos \in Positions(arch) |-> f[pos]] /\ Right(f, n)
    BY <1>2
  <2> DEFINE g == Step(f)
  <2>2. g = [pos \in Positions(arch) |-> g[pos]]
    OBVIOUS
  <2>3. \A pos \in Positions(arch) : g[pos] = Stepped(arch, call, f, pos[1], pos[2])
    OBVIOUS
  <2> HIDE DEF g, Step
  <2>4. \A pos \in Positions(arch) : pos[1] > len - n => g[pos] = f[pos]
    BY <2>1, <2>3
  <2>5. ASSUME NEW pos \in Positions(arch), pos[1] > len - (n + 1)
        PROVE  g[pos] = Stepped(arch, call, g, pos[1], pos[2])
    <3> DEFINE i == filter[arch][pos[1]]
               to == <<pos[1] + 1 + Jump(i, pos[2]), Word(arch, call, i, pos[2])>>
    <3>1. pos[1] \in 1 .. len /\ pos[2] \in Nat
      BY DEF Positions
    <3>2. CASE i.op = "ret"
      BY <2>3, <3>2 DEF Stepped
    <3>3. CASE i.op # "ret"
      <4>1. pos[1] + 1 + Jump(i, pos[2]) \in pos[1] + 1 .. len
        BY <3>1, <3>3, JumpsStay
      <4>2. Word(arch, call, i, pos[2]) \in Nat
        BY <3>1, WordsAre
      <4>3. to \in Positions(arch) /\ to[1] > len - n
        <5> HIDE DEF i
        <5>1. to[1] = pos[1] + 1 + Jump(i, pos[2])
          OBVIOUS
        <5>2. to[1] \in 1 .. len /\ to[1] > len - n
          BY <1>0, <2>5, <3>1, <4>1, <5>1
        <5> QED  BY <4>2, <5>1, <5>2 DEF Positions
      <4>4. Stepped(arch, call, f, pos[1], pos[2]) = f[to]
        BY <3>3 DEF Stepped
      <4>5. Stepped(arch, call, g, pos[1], pos[2]) = g[to]
        BY <3>3 DEF Stepped
      <4> QED  BY <2>3, <2>4, <4>3, <4>4, <4>5
    <3> QED  BY <3>2, <3>3
  <2> QED  BY <2>2, <2>5
<1> HIDE DEF Reached
<1>3. ASSUME NEW n \in Nat PROVE Reached(n)
  <2> DEFINE T == {m \in Nat : ~Reached(m)}
  <2> SUFFICES ASSUME T # {} PROVE FALSE
    OBVIOUS
  <2>1. PICK m \in T : \A k \in T : m <= k
    BY LeastNat
  <2>2. m # 0 /\ m \in Nat
    BY <1>1
  <2>3. m - 1 \in Nat /\ m - 1 \notin T
    BY <2>1, <2>2
  <2>4. Reached(m - 1 + 1)
    BY <1>2, <2>3
  <2>5. m - 1 + 1 = m
    BY <2>2
  <2> QED  BY <2>1, <2>4, <2>5
<1>4. PICK f : f = [pos \in Positions(arch) |-> f[pos]] /\ Right(f, len)
  BY <1>0, <1>3 DEF Reached
<1>5. ASSUME NEW pos \in Positions(arch)
      PROVE  f[pos] = Stepped(arch, call, f, pos[1], pos[2])
  <2>1. pos[1] > len - len
    BY <1>0 DEF Positions
  <2> QED  BY <1>4, <2>1
<1>6. Ran(arch, call, f)
  BY <1>4, <1>5 DEF Ran
<1> QED  BY <1>6
\* What f answers from there.
Answer(f, pc, word) == f[<<pc, word>>]

\* How the machine goes on from each instruction.
LEMMA AnswerIs ==
  ASSUME NEW arch \in Arch, NEW call, NEW f, Ran(arch, call, f),
         NEW pc \in 1 .. Len(filter[arch]), NEW word \in Nat, NEW i, i = filter[arch][pc]
  PROVE  Answer(f, pc, word) =
           IF i.op = "ret" THEN i.k
           ELSE Answer(f, pc + 1 + Jump(i, word), Word(arch, call, i, word))
<1>1. f[<<pc, word>>] = Stepped(arch, call, f, pc, word)
  <2>1. <<pc, word>> \in Positions(arch) /\ <<pc, word>>[1] = pc /\ <<pc, word>>[2] = word
    BY DEF Positions
  <2> QED  BY <2>1 DEF Ran
<1> QED  BY <1>1 DEF Answer, Stepped

LEMMA ReturnRuns ==
  ASSUME NEW arch \in Arch, NEW call, NEW f, Ran(arch, call, f),
         NEW pc \in 1 .. Len(filter[arch]), NEW word \in Nat,
         NEW verdict, filter[arch][pc] = Return(verdict)
  PROVE  Answer(f, pc, word) = verdict
BY AnswerIs DEF Return

LEMMA LoadRuns ==
  ASSUME NEW arch \in Arch, NEW call, NEW f, Ran(arch, call, f),
         NEW pc \in 1 .. Len(filter[arch]), NEW word \in Nat,
         NEW k, filter[arch][pc] = Load(k)
  PROVE  Answer(f, pc, word) = Answer(f, pc + 1, IF k = "nr" THEN Nr[arch][call.nr] ELSE call.arg)
<1>1. Load(k).op = "ld" /\ Load(k).k = k
  BY DEF Load
<1>2. Jump(Load(k), word) = 0 /\ pc + 1 + 0 = pc + 1
  BY <1>1 DEF Jump
<1>3. Word(arch, call, Load(k), word) = IF k = "nr" THEN Nr[arch][call.nr] ELSE call.arg
  BY <1>1 DEF Word
<1> QED  BY <1>1, <1>2, <1>3, AnswerIs

LEMMA JumpRuns ==
  ASSUME NEW arch \in Arch, NEW call, NEW f, Ran(arch, call, f),
         NEW pc \in 1 .. Len(filter[arch]), NEW word \in Nat,
         NEW op \in {"jeq", "jset"}, NEW k, NEW jt, NEW jf, filter[arch][pc] = JumpIf(op, k, jt, jf)
  PROVE  Answer(f, pc, word) =
           Answer(f, pc + 1 + (IF (IF op = "jeq" THEN word = k ELSE CommonBit(word, k))
                               THEN jt ELSE jf), word)
<1> DEFINE i == JumpIf(op, k, jt, jf)
<1>1. i.op = op /\ i.k = k /\ i.jt = jt /\ i.jf = jf /\ op # "ret" /\ op # "ld"
  BY DEF JumpIf
<1>2. /\ Word(arch, call, i, word) = word
      /\ Jump(i, word) = IF (IF op = "jeq" THEN word = k ELSE CommonBit(word, k)) THEN jt ELSE jf
  BY <1>1 DEF Jump, Word, Holds
<1>3. i = filter[arch][pc]
  OBVIOUS
<1> HIDE DEF i
<1> QED  BY <1>1, <1>2, <1>3, AnswerIs

LEMMA EqualRuns ==
  ASSUME NEW arch \in Arch, NEW call, NEW f, Ran(arch, call, f),
         NEW pc \in 1 .. Len(filter[arch]), NEW word \in Nat,
         NEW k, NEW jt, NEW jf, filter[arch][pc] = JumpIf("jeq", k, jt, jf)
  PROVE  Answer(f, pc, word) = Answer(f, pc + 1 + (IF word = k THEN jt ELSE jf), word)
BY JumpRuns

LEMMA BitRuns ==
  ASSUME NEW arch \in Arch, NEW call, NEW f, Ran(arch, call, f),
         NEW pc \in 1 .. Len(filter[arch]), NEW word \in Nat,
         NEW k, NEW jt, NEW jf, filter[arch][pc] = JumpIf("jset", k, jt, jf)
  PROVE  Answer(f, pc, word) = Answer(f, pc + 1 + (IF CommonBit(word, k) THEN jt ELSE jf), word)
<1>1. "jset" # "jeq"
  OBVIOUS
<1> QED  BY <1>1, JumpRuns

\* The block of open or openat lets other calls pass, and selects those that
\* open for writing.
LEMMA OpenRuns ==
  ASSUME NEW arch \in Arch, NEW call, NEW f, Ran(arch, call, f), Numbered(arch, call),
         NEW pos \in Nat, NEW nr \in Nat, Within(filter[arch], pos, OpenBlock(nr)), NEW word \in Nat
  PROVE  /\ word # nr => Answer(f, pos + 1, word) = Answer(f, pos + 6, word)
         /\ word = nr /\ (CommonBit(call.arg, O_WRONLY) \/ CommonBit(call.arg, O_RDWR)) =>
              Answer(f, pos + 1, word) = "TRACE"
<1> DEFINE p == filter[arch]
<1>1. Len(p) \in Nat /\ pos + 5 <= Len(p) /\ call.arg \in Nat
  <2>1. p \in Seq(Instr) /\ Len(p) \in Nat
    BY ProgramIs
  <2> QED  BY <2>1, BlocksAre DEF Within, Numbered
<1>2. /\ p[pos + 1] = JumpIf("jeq", nr, 0, 4) /\ p[pos + 2] = Load("arg")
      /\ p[pos + 3] = JumpIf("jset", O_WRONLY, 1, 0)
      /\ p[pos + 4] = JumpIf("jset", O_RDWR, 0, 1) /\ p[pos + 5] = Return("TRACE")
  <2>1. Len(OpenBlock(nr)) = 5
    BY BlocksAre
  <2>2. \A i \in 1 .. 5 : p[pos + i] = OpenBlock(nr)[i]
    BY <2>1 DEF Within
  <2> QED  BY <2>2 DEF OpenBlock
<1>3. /\ pos + 1 \in 1 .. Len(p) /\ pos + 2 \in 1 .. Len(p) /\ pos + 3 \in 1 .. Len(p)
      /\ pos + 4 \in 1 .. Len(p) /\ pos + 5 \in 1 .. Len(p)
      /\ pos + 1 + 1 + 0 = pos + 2 /\ pos + 1 + 1 + 4 = pos + 6 /\ pos + 2 + 1 = pos + 3
      /\ pos + 3 + 1 + 1 = pos + 5 /\ pos + 3 + 1 + 0 = pos + 4
      /\ pos + 4 + 1 + 0 = pos + 5
  <2>1. /\ pos + 1 \in 1 .. Len(p) /\ pos + 2 \in 1 .. Len(p) /\ pos + 3 \in 1 .. Len(p)
        /\ pos + 4 \in 1 .. Len(p) /\ pos + 5 \in 1 .. Len(p)
    BY <1>1
  <2>2. /\ pos + 1 + 1 + 0 = pos + 2 /\ pos + 1 + 1 + 4 = pos + 6 /\ pos + 2 + 1 = pos + 3
        /\ pos + 3 + 1 + 1 = pos + 5 /\ pos + 3 + 1 + 0 = pos + 4
        /\ pos + 4 + 1 + 0 = pos + 5
    OBVIOUS
  <2> QED  BY <2>1, <2>2
<1> DEFINE arg == call.arg
<1>4. /\ Answer(f, pos + 1, word) = Answer(f, pos + 1 + 1 + (IF word = nr THEN 0 ELSE 4), word)
      /\ Answer(f, pos + 2, word) = Answer(f, pos + 2 + 1, arg)
      /\ Answer(f, pos + 3, arg) = Answer(f, pos + 3 + 1 + (IF CommonBit(arg, O_WRONLY) THEN 1 ELSE 0), arg)
      /\ Answer(f, pos + 4, arg) = Answer(f, pos + 4 + 1 + (IF CommonBit(arg, O_RDWR) THEN 0 ELSE 1), arg)
      /\ Answer(f, pos + 5, arg) = "TRACE"
  <2>1. Answer(f, pos + 1, word) = Answer(f, pos + 1 + 1 + (IF word = nr THEN 0 ELSE 4), word)
    <3>1. pos + 1 \in 1 .. Len(p) /\ p[pos + 1] = JumpIf("jeq", nr, 0, 4) /\ call.arg \in Nat
      BY <1>1, <1>2, <1>3
    <3>2. PICK i : i = pos + 1
      OBVIOUS
    <3>3. i \in 1 .. Len(filter[arch]) /\ filter[arch][i] = JumpIf("jeq", nr, 0, 4) /\ call.arg \in Nat
      BY <3>1, <3>2
    <3>4. Answer(f, i, word) = Answer(f, i + 1 + (IF word = nr THEN 0 ELSE 4), word)
      BY <3>3, EqualRuns
    <3> QED  BY <3>2, <3>4
  <2>2. Answer(f, pos + 2, word) = Answer(f, pos + 2 + 1, arg)
    <3>1. pos + 2 \in 1 .. Len(p) /\ p[pos + 2] = Load("arg") /\ call.arg \in Nat
      BY <1>1, <1>2, <1>3
    <3> QED  BY <3>1, LoadRuns
  <2>3. Answer(f, pos + 3, arg) = Answer(f, pos + 3 + 1 + (IF CommonBit(arg, O_WRONLY) THEN 1 ELSE 0), arg)
    <3>1. pos + 3 \in 1 .. Len(p) /\ p[pos + 3] = JumpIf("jset", O_WRONLY, 1, 0) /\ call.arg \in Nat
      BY <1>1, <1>2, <1>3
    <3> QED  BY <3>1, BitRuns
  <2>4. Answer(f, pos + 4, arg) = Answer(f, pos + 4 + 1 + (IF CommonBit(arg, O_RDWR) THEN 0 ELSE 1), arg)
    <3>1. pos + 4 \in 1 .. Len(p) /\ p[pos + 4] = JumpIf("jset", O_RDWR, 0, 1) /\ call.arg \in Nat
      BY <1>1, <1>2, <1>3
    <3> QED  BY <3>1, BitRuns
  <2>5. Answer(f, pos + 5, arg) = "TRACE"
    <3>1. pos + 5 \in 1 .. Len(p) /\ p[pos + 5] = Return("TRACE") /\ call.arg \in Nat
      BY <1>1, <1>2, <1>3
    <3> QED  BY <3>1, ReturnRuns
  <2> QED  BY <2>1, <2>2, <2>3, <2>4, <2>5
<1>5. CASE word # nr
  <2>1. Answer(f, pos + 1, word) = Answer(f, pos + 1 + 1 + 4, word)
    BY <1>4, <1>5
  <2> QED  BY <1>3, <1>5, <2>1
<1>6. CASE word = nr
  <2>1. Answer(f, pos + 1, word) = Answer(f, pos + 1 + 1 + 0, word)
    BY <1>4, <1>6
  <2>2. Answer(f, pos + 1, word) = Answer(f, pos + 3, arg)
    BY <1>3, <1>4, <2>1
  <2>3. CASE CommonBit(arg, O_WRONLY)
    <3>1. Answer(f, pos + 3, arg) = Answer(f, pos + 3 + 1 + 1, arg)
      BY <1>4, <2>3
    <3> QED  BY <1>3, <1>4, <2>2, <3>1, <1>6
  <2>4. CASE ~CommonBit(arg, O_WRONLY) /\ CommonBit(arg, O_RDWR)
    <3>1. /\ Answer(f, pos + 3, arg) = Answer(f, pos + 3 + 1 + 0, arg)
          /\ Answer(f, pos + 4, arg) = Answer(f, pos + 4 + 1 + 0, arg)
      BY <1>4, <2>4
    <3> QED  BY <1>3, <1>4, <2>2, <3>1, <1>6
  <2> QED  BY <2>3, <2>4, <1>6
<1> QED  BY <1>5, <1>6

\* The block of fcntl selects the commands that are followed, but for F_DUPFD.
LEMMA FcntlRuns ==
  ASSUME NEW arch \in Arch, NEW call, NEW f, Ran(arch, call, f), Numbered(arch, call),
         NEW pos \in Nat, NEW nr \in Nat, Within(filter[arch], pos, FcntlBlock(nr)), NEW word \in Nat
  PROVE  /\ word # nr => Answer(f, pos + 1, word) = Answer(f, pos + 8, word)
         /\ word = nr /\ CommonBit(call.arg, F_DUPFD_CLOEXEC) => Answer(f, pos + 1, word) = "TRACE"
<1> DEFINE p == filter[arch]
<1>1. Len(p) \in Nat /\ pos + 7 <= Len(p) /\ call.arg \in Nat
  <2>1. p \in Seq(Instr) /\ Len(p) \in Nat
    BY ProgramIs
  <2> QED  BY <2>1, BlocksAre DEF Within, Numbered
<1>2. /\ p[pos + 1] = JumpIf("jeq", nr, 0, 6) /\ p[pos + 2] = Load("arg")
      /\ p[pos + 3] = JumpIf("jset", F_DUPFD, 3, 0)
      /\ p[pos + 4] = JumpIf("jset", F_DUPFD_CLOEXEC, 2, 0) /\ p[pos + 7] = Return("TRACE")
  <2>1. Len(FcntlBlock(nr)) = 7
    BY BlocksAre
  <2>2. \A i \in 1 .. 7 : p[pos + i] = FcntlBlock(nr)[i]
    BY <2>1 DEF Within
  <2> QED  BY <2>2 DEF FcntlBlock
<1>3. /\ pos + 1 \in 1 .. Len(p) /\ pos + 2 \in 1 .. Len(p) /\ pos + 3 \in 1 .. Len(p)
      /\ pos + 4 \in 1 .. Len(p) /\ pos + 7 \in 1 .. Len(p)
      /\ pos + 1 + 1 + 0 = pos + 2 /\ pos + 1 + 1 + 6 = pos + 8 /\ pos + 2 + 1 = pos + 3
      /\ pos + 3 + 1 + 3 = pos + 7 /\ pos + 3 + 1 + 0 = pos + 4
      /\ pos + 4 + 1 + 2 = pos + 7
  <2>1. /\ pos + 1 \in 1 .. Len(p) /\ pos + 2 \in 1 .. Len(p) /\ pos + 3 \in 1 .. Len(p)
        /\ pos + 4 \in 1 .. Len(p) /\ pos + 7 \in 1 .. Len(p)
    BY <1>1
  <2>2. /\ pos + 1 + 1 + 0 = pos + 2 /\ pos + 1 + 1 + 6 = pos + 8 /\ pos + 2 + 1 = pos + 3
        /\ pos + 3 + 1 + 3 = pos + 7 /\ pos + 3 + 1 + 0 = pos + 4
        /\ pos + 4 + 1 + 2 = pos + 7
    OBVIOUS
  <2> QED  BY <2>1, <2>2
<1> DEFINE arg == call.arg
<1>4. /\ Answer(f, pos + 1, word) = Answer(f, pos + 1 + 1 + (IF word = nr THEN 0 ELSE 6), word)
      /\ Answer(f, pos + 2, word) = Answer(f, pos + 2 + 1, arg)
      /\ Answer(f, pos + 3, arg) = Answer(f, pos + 3 + 1 + (IF CommonBit(arg, F_DUPFD) THEN 3 ELSE 0), arg)
      /\ Answer(f, pos + 4, arg) =
           Answer(f, pos + 4 + 1 + (IF CommonBit(arg, F_DUPFD_CLOEXEC) THEN 2 ELSE 0), arg)
      /\ Answer(f, pos + 7, arg) = "TRACE"
  <2>1. Answer(f, pos + 1, word) = Answer(f, pos + 1 + 1 + (IF word = nr THEN 0 ELSE 6), word)
    <3>1. pos + 1 \in 1 .. Len(p) /\ p[pos + 1] = JumpIf("jeq", nr, 0, 6) /\ call.arg \in Nat
      BY <1>1, <1>2, <1>3
    <3>2. PICK i : i = pos + 1
      OBVIOUS
    <3>3. i \in 1 .. Len(filter[arch]) /\ filter[arch][i] = JumpIf("jeq", nr, 0, 6) /\ call.arg \in Nat
      BY <3>1, <3>2
    <3>4. Answer(f, i, word) = Answer(f, i + 1 + (IF word = nr THEN 0 ELSE 6), word)
      BY <3>3, EqualRuns
    <3> QED  BY <3>2, <3>4
  <2>2. Answer(f, pos + 2, word) = Answer(f, pos + 2 + 1, arg)
    <3>1. pos + 2 \in 1 .. Len(p) /\ p[pos + 2] = Load("arg") /\ call.arg \in Nat
      BY <1>1, <1>2, <1>3
    <3> QED  BY <3>1, LoadRuns
  <2>3. Answer(f, pos + 3, arg) = Answer(f, pos + 3 + 1 + (IF CommonBit(arg, F_DUPFD) THEN 3 ELSE 0), arg)
    <3>1. pos + 3 \in 1 .. Len(p) /\ p[pos + 3] = JumpIf("jset", F_DUPFD, 3, 0) /\ call.arg \in Nat
      BY <1>1, <1>2, <1>3
    <3> QED  BY <3>1, BitRuns
  <2>4. Answer(f, pos + 4, arg) =
          Answer(f, pos + 4 + 1 + (IF CommonBit(arg, F_DUPFD_CLOEXEC) THEN 2 ELSE 0), arg)
    <3>1. pos + 4 \in 1 .. Len(p) /\ p[pos + 4] = JumpIf("jset", F_DUPFD_CLOEXEC, 2, 0) /\ call.arg \in Nat
      BY <1>1, <1>2, <1>3
    <3> QED  BY <3>1, BitRuns
  <2>5. Answer(f, pos + 7, arg) = "TRACE"
    <3>1. pos + 7 \in 1 .. Len(p) /\ p[pos + 7] = Return("TRACE") /\ call.arg \in Nat
      BY <1>1, <1>2, <1>3
    <3> QED  BY <3>1, ReturnRuns
  <2> QED  BY <2>1, <2>2, <2>3, <2>4, <2>5
<1>5. CASE word # nr
  <2>1. Answer(f, pos + 1, word) = Answer(f, pos + 1 + 1 + 6, word)
    BY <1>4, <1>5
  <2> QED  BY <1>3, <1>5, <2>1
<1>6. CASE word = nr /\ CommonBit(arg, F_DUPFD_CLOEXEC)
  <2>1. Answer(f, pos + 1, word) = Answer(f, pos + 1 + 1 + 0, word)
    BY <1>4, <1>6
  <2>2. Answer(f, pos + 1, word) = Answer(f, pos + 3, arg)
    BY <1>3, <1>4, <2>1
  <2>3. Answer(f, pos + 4, arg) = Answer(f, pos + 4 + 1 + 2, arg)
    BY <1>4, <1>6
  <2>4. CASE CommonBit(arg, F_DUPFD)
    <3>1. Answer(f, pos + 3, arg) = Answer(f, pos + 3 + 1 + 3, arg)
      BY <1>4, <2>4
    <3> QED  BY <1>3, <1>4, <2>2, <3>1, <1>6
  <2>5. CASE ~CommonBit(arg, F_DUPFD)
    <3>1. Answer(f, pos + 3, arg) = Answer(f, pos + 3 + 1 + 0, arg)
      BY <1>4, <2>5
    <3> QED  BY <1>3, <1>4, <2>2, <2>3, <3>1, <1>6
  <2> QED  BY <2>4, <2>5
<1> QED  BY <1>5, <1>6

\* The tests that follow select every call they are for.
LEMMA TestsRun ==
  ASSUME NEW arch \in Arch, NEW call, NEW f, Ran(arch, call, f),
         NEW nr \in Always \cap DOMAIN Nr[arch]
  PROVE  Answer(f, AfterOpen(arch) + 13, Nr[arch][nr]) = "TRACE"
<1> DEFINE p == filter[arch]
           o == AfterOpen(arch)
           calls == tracingSyscalls(arch)
           n == Len(calls)
           word == Nr[arch][nr]
<1>1. PICK j \in 1 .. n : calls[j] = nr
  BY CallsAre
<1>2. /\ n \in Nat /\ o \in Nat /\ word \in Nat /\ Len(p) = o + 13 + 2 * n
      /\ \A i \in 1 .. n : /\ p[o + 11 + 2 * i] = JumpIf("jeq", Nr[arch][calls[i]], 0, 1)
                           /\ p[o + 12 + 2 * i] = Return("TRACE")
  <2>1. n \in Nat /\ o \in Nat /\ word \in Nat /\ Len(p) = o + 13 + 2 * n
    BY TestsAre, ProgramIs, NumbersAre DEF AfterOpen
  <2>2. /\ Len(CallTests(arch)) = 2 * n
        /\ \A i \in 1 .. 2 * n : p[o + 12 + i] = CallTests(arch)[i]
    BY ProgramIs, TestsAre DEF Within
  <2>3. ASSUME NEW i \in 1 .. n
        PROVE  /\ p[o + 11 + 2 * i] = JumpIf("jeq", Nr[arch][calls[i]], 0, 1)
               /\ p[o + 12 + 2 * i] = Return("TRACE")
    <3> HIDE DEF o, n, p, calls
    <3>1. /\ 2 * i - 1 \in 1 .. 2 * n /\ 2 * i \in 1 .. 2 * n
          /\ o + 12 + (2 * i - 1) = o + 11 + 2 * i
      BY <2>1
    <3>2. p[o + 12 + (2 * i - 1)] = CallTests(arch)[2 * i - 1] /\ p[o + 12 + 2 * i] = CallTests(arch)[2 * i]
      BY <2>2, <3>1
    <3>3. /\ CallTests(arch)[2 * i - 1] = JumpIf("jeq", Nr[arch][calls[i]], 0, 1)
          /\ CallTests(arch)[2 * i] = Return("TRACE")
      BY TestsAre DEF n, calls
    <3> QED  BY <3>1, <3>2, <3>3
  <2> QED  BY <2>1, <2>3
<1>3. ASSUME NEW i \in 1 .. j, i = j \/ Answer(f, o + 11 + 2 * (i + 1), word) = "TRACE"
      PROVE  Answer(f, o + 11 + 2 * i, word) = "TRACE"
  <2> DEFINE k == Nr[arch][calls[i]]
             pc == o + 11 + 2 * i
  <2> HIDE DEF p, o, n, calls, word, k
  <2>1. /\ i \in 1 .. n /\ pc \in 1 .. Len(p) /\ pc + 1 \in 1 .. Len(p)
        /\ pc + 1 = o + 12 + 2 * i /\ pc + 1 + 0 = pc + 1
        /\ pc + 1 + 1 = o + 11 + 2 * (i + 1)
    BY <1>1, <1>2
  <2>2. p[pc] = JumpIf("jeq", k, 0, 1) /\ p[pc + 1] = Return("TRACE")
    BY <1>2, <2>1 DEF k
  <2> HIDE DEF pc
  <2>3. /\ Answer(f, pc, word) = Answer(f, pc + 1 + (IF word = k THEN 0 ELSE 1), word)
        /\ Answer(f, pc + 1, word) = "TRACE"
    <3>1. Answer(f, pc, word) = Answer(f, pc + 1 + (IF word = k THEN 0 ELSE 1), word)
      <4>1. /\ pc \in 1 .. Len(filter[arch]) /\ word \in Nat
            /\ filter[arch][pc] = JumpIf("jeq", k, 0, 1)
        BY <1>2, <2>1, <2>2 DEF p
      <4> QED  BY <4>1, EqualRuns
    <3>2. Answer(f, pc + 1, word) = "TRACE"
      BY <1>2, <2>1, <2>2, ReturnRuns DEF p
    <3> QED  BY <3>1, <3>2
  <2>4. CASE word = k
    <3>1. Answer(f, pc, word) = Answer(f, pc + 1 + 0, word)
      BY <2>3, <2>4
    <3> QED  BY <2>1, <2>3, <3>1 DEF pc
  <2>5. CASE word # k
    <3>1. i # j
      BY <1>1, <2>5 DEF k, word
    <3>2. Answer(f, pc, word) = Answer(f, pc + 1 + 1, word)
      BY <2>3, <2>5
    <3> QED  BY <1>3, <2>1, <3>1, <3>2 DEF pc
  <2> QED  BY <2>4, <2>5
<1>4. Answer(f, o + 11 + 2 * 1, word) = "TRACE"
  <2> DEFINE Traced(i) == Answer(f, o + 11 + 2 * i, word) = "TRACE"
             T == {d \in Nat : d < j /\ ~Traced(j - d)}
  <2>1. \A i \in 1 .. j : i = j \/ Traced(i + 1) => Traced(i)
    BY <1>3
  <2> HIDE DEF Traced
  <2>2. j \in Nat /\ 1 <= j
    BY <1>1, <1>2
  <2>3. T = {}
    <3> SUFFICES ASSUME T # {} PROVE FALSE
      OBVIOUS
    <3>1. PICK d \in T : \A e \in T : d <= e
      BY LeastNat
    <3>2. d \in Nat /\ d < j /\ ~Traced(j - d) /\ j - d \in 1 .. j
      BY <2>2, <3>1
    <3>3. d # 0
      BY <2>1, <2>2, <3>2
    <3>4. d - 1 \in Nat /\ d - 1 < j /\ d - 1 \notin T
      BY <3>1, <3>2, <3>3, <2>2
    <3>5. Traced(j - (d - 1)) /\ j - (d - 1) = (j - d) + 1
      BY <3>2, <3>4, <2>2
    <3> QED  BY <2>1, <3>2, <3>5
  <2>4. j - 1 \in Nat /\ j - 1 < j /\ j - (j - 1) = 1
    BY <2>2
  <2>5. Traced(1)
    BY <2>3, <2>4
  <2> QED  BY <2>5 DEF Traced
<1>5. o + 11 + 2 * 1 = o + 13
  BY <1>2
<1> QED  BY <1>4, <1>5

\* What the tests of single bits make of the flags of open and of the commands
\* of fcntl: that F_DUPFD_CLOEXEC has the bits of F_SETFD and F_SETFL.
LEMMA Bits ==
  /\ \A a : CommonBit(a, O_WRONLY + O_RDWR) => CommonBit(a, O_WRONLY) \/ CommonBit(a, O_RDWR)
  /\ \A a \in {F_DUPFD_CLOEXEC, F_SETFL, F_SETFD} : CommonBit(a, F_DUPFD_CLOEXEC)
<1>1. ASSUME NEW a, CommonBit(a, 3) PROVE CommonBit(a, 1) \/ CommonBit(a, 2)
  <2>1. PICK i \in 0 .. 29 : (a \div 2^i) % 2 = 1 /\ (3 \div 2^i) % 2 = 1
    BY <1>1 DEF CommonBit
  <2> DEFINE Power(k) == 2^k
  <2>2. /\ Power(0) = 1 /\ Power(1) = 2
        /\ Power(2) = 4 /\ Power(3) = 8 /\ Power(4) = 16 /\ Power(5) = 32
        /\ Power(6) = 64 /\ Power(7) = 128 /\ Power(8) = 256 /\ Power(9) = 512
        /\ Power(10) = 1024 /\ Power(11) = 2048 /\ Power(12) = 4096 /\ Power(13) = 8192
        /\ Power(14) = 16384 /\ Power(15) = 32768 /\ Power(16) = 65536 /\ Power(17) = 131072
        /\ Power(18) = 262144 /\ Power(19) = 524288 /\ Power(20) = 1048576 /\ Power(21) = 2097152
        /\ Power(22) = 4194304 /\ Power(23) = 8388608 /\ Power(24) = 16777216 /\ Power(25) = 33554432
        /\ Power(26) = 67108864 /\ Power(27) = 134217728 /\ Power(28) = 268435456 /\ Power(29) = 536870912
    OBVIOUS
  <2> HIDE DEF Power
  <2>3. i \in {0, 1}
    <3>1. ASSUME i \notin {0, 1} PROVE Power(i) >= 4 /\ Power(i) \in Nat
      <4>1. \/ i = 2 \/ i = 3 \/ i = 4 \/ i = 5 \/ i = 6 \/ i = 7 \/ i = 8 \/ i = 9 \/ i = 10 \/ i = 11
            \/ i = 12 \/ i = 13 \/ i = 14 \/ i = 15 \/ i = 16 \/ i = 17 \/ i = 18 \/ i = 19 \/ i = 20
            \/ i = 21 \/ i = 22 \/ i = 23 \/ i = 24 \/ i = 25 \/ i = 26 \/ i = 27 \/ i = 28 \/ i = 29
        BY <3>1
      <4> QED  BY <2>2, <4>1
    <3>2. ASSUME NEW d \in Nat, d >= 4 PROVE (3 \div d) % 2 # 1
      <4>1. 3 \div d = 0
        BY <3>2
      <4> DEFINE q == 3 \div d
      <4> HIDE DEF q
      <4>2. q = 0 => q % 2 # 1
        OBVIOUS
      <4> QED  BY <4>1, <4>2 DEF q
    <3> QED  BY <2>1, <3>1, <3>2 DEF Power
  <2>4. (1 \div Power(0)) % 2 = 1 /\ (2 \div Power(1)) % 2 = 1
    BY <2>2
  <2>5. 0 \in 0 .. 29 /\ 1 \in 0 .. 29
    OBVIOUS
  <2> QED  BY <2>1, <2>3, <2>4, <2>5 DEF CommonBit, Power
<1>2. /\ (1030 \div 2^1) % 2 = 1 /\ (2 \div 2^1) % 2 = 1
      /\ (1030 \div 2^2) % 2 = 1 /\ (4 \div 2^2) % 2 = 1
  OBVIOUS
<1>3. 1 \in 0 .. 29 /\ 2 \in 0 .. 29 /\ O_WRONLY + O_RDWR = 3
  BY DEF O_WRONLY, O_RDWR
<1>4. CommonBit(1030, 1030) /\ CommonBit(4, 1030) /\ CommonBit(2, 1030)
  BY <1>2, <1>3 DEF CommonBit
<1> QED  BY <1>1, <1>3, <1>4 DEF O_WRONLY, O_RDWR, F_DUPFD_CLOEXEC, F_SETFL, F_SETFD

\* The filter selects every call that is followed, but for F_DUPFD.
LEMMA FollowedIsSelected ==
  ASSUME NEW arch \in Arch, NEW call, Numbered(arch, call), Followed(call),
         ~(call.nr = "fcntl" /\ call.arg = F_DUPFD)
  PROVE  Verdict(arch, call) = "TRACE"
<1> DEFINE p == filter[arch]
           o == AfterOpen(arch)
           f == CHOOSE g : Ran(arch, call, g)
           word == Nr[arch][call.nr]
<1>1. Ran(arch, call, f) /\ Verdict(arch, call) = Answer(f, 1, 0)
  BY RunExists, VerdictRuns DEF Answer
<1>2. word \in Nat /\ call.nr \in DOMAIN Nr[arch]
  BY NumbersAre DEF Numbered
<1>3. /\ Len(p) \in Nat /\ 1 \in 1 .. Len(p) /\ p[1] = Load("nr")
      /\ arch = "x86_64" => Within(p, 1, OpenBlock(Nr[arch].open)) /\ o = 6 /\ Nr[arch].open \in Nat
      /\ arch # "x86_64" => o = 1
      /\ Within(p, o, OpenBlock(Nr[arch].openat)) /\ Nr[arch].openat \in Nat
      /\ Within(p, o + 5, FcntlBlock(Nr[arch].fcntl)) /\ Nr[arch].fcntl \in Nat
  <2>1. /\ arch = "x86_64" => Nr[arch].open \in Nat
        /\ Nr[arch].openat \in Nat /\ Nr[arch].fcntl \in Nat
    BY DEF Nr, Arch
  <2>2. Len(tracingSyscalls(arch)) \in Nat
    BY TestsAre
  <2>3. Len(p) \in Nat /\ 1 \in 1 .. Len(p)
    BY <2>2, ProgramIs DEF AfterOpen
  <2> QED  BY <2>1, <2>3, ProgramIs DEF AfterOpen
<1> HIDE DEF p, o, f, word
<1>4. Answer(f, 1, 0) = Answer(f, 2, word)
  <2>1. Answer(f, 1, 0) = Answer(f, 1 + 1, word)
    BY <1>1, <1>3, LoadRuns DEF p, word
  <2> QED  BY <2>1
<1>5. /\ word = Nr[arch].fcntl => call.nr = "fcntl"
      /\ word = Nr[arch].openat => call.nr = "openat"
      /\ arch = "x86_64" /\ word = Nr[arch].open => call.nr = "open"
      /\ call.nr = "open" => arch = "x86_64"
  BY <1>2 DEF word, Nr, Arch
<1>6. /\ o \in Nat /\ o + 5 \in Nat /\ o + 5 + 1 = o + 6 /\ o + 5 + 8 = o + 13
      /\ 1 \in Nat /\ 1 + 1 = 2 /\ 1 + 6 = 7
  BY <1>3 
<1>7. CASE call.nr = "open"
  <2>1. Answer(f, 1 + 1, word) = "TRACE"
    BY <1>1, <1>2, <1>3, <1>5, <1>6, <1>7, OpenRuns, Bits DEF Followed, word, p
  <2> QED  BY <1>1, <1>4, <1>6, <2>1
<1>8. CASE call.nr # "open"
  <2>1. Answer(f, 2, word) = Answer(f, o + 1, word)
    <3>1. CASE arch = "x86_64"
      <4>1. Answer(f, 1 + 1, word) = Answer(f, 1 + 6, word)
        BY <1>1, <1>2, <1>3, <1>5, <1>6, <1>8, <3>1, OpenRuns DEF p
      <4>2. 1 + 6 = o + 1
        BY <1>3, <3>1
      <4> QED  BY <1>6, <4>1, <4>2
    <3>2. CASE arch # "x86_64"
      <4>1. 2 = o + 1
        BY <1>3, <3>2
      <4> QED  BY <4>1
    <3> QED  BY <3>1, <3>2
  <2>2. CASE call.nr = "openat"
    <3>1. Answer(f, o + 1, word) = "TRACE"
      BY <1>1, <1>2, <1>3, <1>6, <2>2, OpenRuns, Bits DEF Followed, word, p
    <3> QED  BY <1>1, <1>4, <2>1, <3>1
  <2>3. CASE call.nr # "openat"
    <3>1. Answer(f, o + 1, word) = Answer(f, o + 6, word)
      <4>1. PICK nr \in Nat : nr = Nr[arch].openat
        BY <1>3
      <4>2. Within(filter[arch], o, OpenBlock(nr)) /\ o \in Nat /\ word \in Nat /\ word # nr
        BY <1>2, <1>3, <1>5, <1>6, <2>3, <4>1 DEF p
      <4> QED  BY <1>1, <4>2, OpenRuns
    <3>2. CASE call.nr = "fcntl"
      <4>1. call.arg \in {F_DUPFD_CLOEXEC, F_SETFL, F_SETFD}
        BY <3>2 DEF Followed
      <4>2. Answer(f, o + 5 + 1, word) = "TRACE"
        BY <1>1, <1>2, <1>3, <1>6, <3>2, <4>1, FcntlRuns, Bits DEF word, p
      <4> QED  BY <1>1, <1>4, <1>6, <2>1, <3>1, <4>2
    <3>3. CASE call.nr # "fcntl"
      <4>1. Answer(f, o + 5 + 1, word) = Answer(f, o + 5 + 8, word)
        BY <1>1, <1>2, <1>3, <1>5, <1>6, <3>3, FcntlRuns DEF p
      <4>2. call.nr \in Always \cap DOMAIN Nr[arch]
        BY <1>2, <1>8, <2>3, <3>3 DEF Followed, Always
      <4>3. Answer(f, o + 13, word) = "TRACE"
        BY <1>1, <4>2, TestsRun DEF o, word
      <4> QED  BY <1>1, <1>4, <1>6, <2>1, <3>1, <4>1, <4>3
    <3> QED  BY <3>2, <3>3
  <2> QED  BY <2>2, <2>3
<1> QED  BY <1>7, <1>8

\* A call that is followed and takes effect has stopped for the loop.
LEMMA SeenInv == ASSUME StartInv, [Next]_vars, FollowedAreSeen PROVE FollowedAreSeen'
<1>1. CASE \E c \in ProgramCalls : ProgramCall(c)
  <2>1. PICK c \in ProgramCalls : ProgramCall(c)
    BY <1>1
  <2>2. scenario.arch \in Arch /\ Numbered(scenario.arch, c)
    <3>1. scenario.arch \in Arch /\ c.arg \in Nat
      BY StartupAssumption DEF StartInv, Typed
    <3>2. c.nr \in DOMAIN Nr[scenario.arch]
      BY <2>1 DEF ProgramCall
    <3> QED  BY <3>1, <3>2 DEF Numbered
  <2>3. CASE Verdict(scenario.arch, c) = "TRACE" \/ ~Followed(c)
    <3>1. unseen' = unseen
      <4> DEFINE selected == child.filter => Verdict(scenario.arch, c) = "TRACE"
                 stops == /\ child.tracer = "optrace"
                          /\ child.filter => "TRACESECCOMP" \in child.options
      <4>1. unseen' = unseen \cup (IF ~selected /\ stops /\ Followed(c) THEN {c} ELSE {})
        BY <2>1 DEF ProgramCall
      <4>2. ~(~selected /\ stops /\ Followed(c))
        BY <2>3
      <4> HIDE DEF selected, stops
      <4> QED  BY <4>1, <4>2
    <3> QED  BY <3>1 DEF FollowedAreSeen
  <2>4. CASE Verdict(scenario.arch, c) # "TRACE" /\ Followed(c)
    <3>1. c.nr = "fcntl" /\ c.arg = F_DUPFD
      BY <2>2, <2>4, FollowedIsSelected
    <3>2. unseen' \subseteq unseen \cup {c}
      BY <2>1 DEF ProgramCall
    <3> QED  BY <3>1, <3>2 DEF FollowedAreSeen
  <2> QED  BY <2>3, <2>4
<1>2. CASE ~ \E c \in ProgramCalls : ProgramCall(c)
  <2>1. UNCHANGED unseen
    <3>1. CASE Optrace
      BY <3>1 DEF Optrace, Main, BlockSignals, Fork, WaitForChild, SetOptions,
         SetupSignalForwarding, UnblockSignals, FirstRestart, LoopRestart, LoopReturns, Report,
         TakeSignal, Quiet, histories
    <3>2. CASE Child \/ ProgramEnds
      BY <3>2 DEF Child, ChildUnblock, InstallBpfProgram, PtraceTraceMe, StopItself, Execute,
         ChildTakesSignal, ProgramEnds, ChildOnly, tracer, Quiet, histories
    <3>3. CASE \E s \in SentSignals, targets \in (SUBSET {"optrace", "child"}) \ {{}} :
                 Send(s, targets)
      BY <3>3 DEF Send
    <3>4. CASE UNCHANGED vars
      BY <3>4 DEF vars, tracer, histories
    <3> QED  BY <1>2, <3>1, <3>2, <3>3, <3>4 DEF Next, AllOver
  <2> QED  BY <2>1 DEF FollowedAreSeen
<1> QED  BY <1>1, <1>2

------------------------------------------------------------------------------
(* The theorems *)

LEMMA StartInvariant == Spec => []StartInv
BY StartInvInit, StartInvNext, PTL DEF Spec

\* The variables keep their types: a process that is stopped has stopped for
\* something, one that is dead has a status, optrace has ended of something.
THEOREM StartupIsTyped == Spec => []TypeOK
<1>1. StartInv => TypeOK
  BY DEF StartInv, Typed
<1> QED  BY <1>1, StartInvariant, PTL

\* Whatever the command line, the program and the signals: while optrace is
\* there, the program runs only traced, with all its options set, and with the
\* signal mask optrace was started with (RunTracee, SetupTracer).
THEOREM ProgramStartsTraced == Spec => []StartsTraced
<1>1. StartInv => StartsTraced
  BY DEF StartInv, Masked, Met, OptionsSet, StartsTraced
<1> QED  BY <1>1, StartInvariant, PTL

\* The SIGTRAP by which the child stops itself (optrace.cpp:40) is never
\* delivered while optrace is there, unless the stop optrace has waited for
\* was another one.
THEOREM TheTrapIsConsumed == Spec => []TrapIsConsumed
<1>1. ASSUME Init PROVE TrapIsConsumed
  BY <1>1 DEF Init, TrapIsConsumed, NoChild
<1> QED  BY <1>1, TrapInv, StartInvariant, PTL DEF Spec

\* With JailForks nothing outlives optrace, unless a SIGKILL ends it before
\* SetupTracer has set PTRACE_O_EXITKILL.
THEOREM TheJailHolds == Spec => []JailHolds
<1>1. ASSUME Init PROVE JailHolds
  BY <1>1 DEF Init, JailHolds
<1> QED  BY <1>1, JailInv, StartInvariant, PTL DEF Spec

\* No call fails of the filter while optrace is there: where InstallBpfProgram
\* has put a filter, SetupTracer asks for its events before the program runs.
THEOREM CallsAreAnswered == Spec => []CallsAnswered
<1>1. ASSUME Init PROVE CallsAnswered
  BY <1>1 DEF Init, CallsAnswered
<1> QED  BY <1>1, AnsweredInv, StartInvariant, PTL DEF Spec

\* With the filter (InstallBpfProgram) as without, every call the exit handler
\* acts upon, on either architecture and with any argument, stops for the loop,
\* but for fcntl(F_DUPFD), of which the filter tests no bit.
THEOREM FollowedCallsAreSeen == Spec => []FollowedAreSeen
<1>1. ASSUME Init PROVE FollowedAreSeen
  BY <1>1 DEF Init, FollowedAreSeen
<1> QED  BY <1>1, SeenInv, StartInvariant, PTL DEF Spec

LEMMA KeptInvariant == Spec => []KeptInv
BY KeptInit, KeptNext, StartInvariant, PTL DEF Spec

\* A signal to be forwarded that has come to optrace since it blocks them is
\* not lost on the way to the program, at any interleaving with the start of
\* either; the first restart alone may drop one.
THEOREM ForwardedAreKept == Spec => []SignalsKept
<1>1. KeptInv => SignalsKept
  BY DEF KeptInv, Kept, Held, Has, SignalsKept
<1> QED  BY <1>1, KeptInvariant, PTL

\* A signal to be forwarded never ends optrace once it has a child: it is
\* blocked until SetupSignalForwarding has taken it over.
THEOREM ForwardedAreNotFatal == Spec => []ForwardedNotFatal
<1>1. KeptInv => ForwardedNotFatal
  BY DEF KeptInv
<1> QED  BY <1>1, KeptInvariant, PTL

LEMMA LastIsMax ==
  ASSUME scenario.args \in Seq(Option), NEW letter, NEW i,
         IsLast(scenario.args, Len(scenario.args), letter, i)
  PROVE  /\ i = 0 <=> Given(letter) = {}
         /\ i # 0 => Max(Given(letter)) = i
<1> DEFINE n == Len(scenario.args)
<1>1. n \in Nat /\ Given(letter) = {j \in 1 .. n : scenario.args[j].opt = letter}
  BY DEF Given
<1>2. CASE i = 0 /\ \A j \in 1 .. n : scenario.args[j].opt # letter
  BY <1>1, <1>2
<1>3. CASE /\ i \in 1 .. n /\ scenario.args[i].opt = letter
           /\ \A j \in 1 .. n : j > i => scenario.args[j].opt # letter
  <2>1. i \in Given(letter) /\ i # 0 /\ Given(letter) \subseteq Nat
    BY <1>1, <1>3
  <2>2. \A j \in Given(letter) : i >= j
    BY <1>1, <1>3
  <2>3. \A j \in Given(letter) : (\A k \in Given(letter) : j >= k) => j = i
    BY <2>1, <2>2
  <2> QED  BY <2>1, <2>2, <2>3 DEF Max
<1> QED  BY <1>2, <1>3 DEF IsLast

\* The options main makes of the command line are those that are given.
LEMMA OptionsAreAsGiven ==
  ASSUME scenario.args \in Seq(Option), NEW o, o = Parsed(scenario.args)
  PROVE  AsGiven(o)
<1> DEFINE args == scenario.args
           n == Len(scenario.args)
<1>1. /\ Read(args, n, o) /\ n \in Nat
      /\ \A i \in 1 .. n : args[i].val \in Int
      /\ \A letter : Given(letter) = {j \in 1 .. n : args[j].opt = letter}
  <2>1. \A i \in 1 .. n : args[i] \in Option
    OBVIOUS
  <2> QED  BY <2>1, OptionsAreRead DEF Given, Option
<1>2. \A letter \in DOMAIN Switches :
        LET field == Switches[letter][1]
        IN  o[field] = IF Given(letter) # {} THEN Switches[letter][2] ELSE GetDefaults[field]
  <2>1. \A letter : (\E i \in 1 .. n : args[i].opt = letter) <=> Given(letter) # {}
    BY <1>1
  <2> QED  BY <1>1, <2>1 DEF Read, ReadSwitches
<1>3. o.Output = TextOf("o")
  <2>1. PICK i : IsLast(args, n, "o", i) /\ o.Output = IF i = 0 THEN "" ELSE args[i].text
    BY <1>1 DEF Read, ReadTexts
  <2>2. TextOf("o") = IF i = 0 THEN "" ELSE args[i].text
    <3>1. i = 0 <=> Given("o") = {}
      BY <2>1, LastIsMax
    <3>2. i # 0 => Max(Given("o")) = i
      BY <2>1, LastIsMax
    <3> QED  BY <3>1, <3>2 DEF TextOf
  <2> QED  BY <2>1, <2>2
<1>4. o.InterruptionTarget = TextOf("i")
  <2>1. PICK i : /\ IsLast(args, n, "i", i)
                 /\ o.InterruptionTarget = IF i = 0 THEN "" ELSE args[i].text
    BY <1>1 DEF Read, ReadTexts
  <2>2. TextOf("i") = IF i = 0 THEN "" ELSE args[i].text
    <3>1. i = 0 <=> Given("i") = {}
      BY <2>1, LastIsMax
    <3>2. i # 0 => Max(Given("i")) = i
      BY <2>1, LastIsMax
    <3> QED  BY <3>1, <3>2 DEF TextOf
  <2> QED  BY <2>1, <2>2
<1>5. \A letter, i : IsLast(args, n, letter, i) => i = 0 \/ i \in 1 .. n
  BY DEF IsLast
<1>6. \A val \in Int : IsLimit(AnyNegative(val), val) /\ (val >= 0 - 1 => IsLimit(val, val))
  BY DEF AnyNegative, IsLimit
<1>7. IsLimit(o.CommandLengthLimit, LastOf("c", 120))
  <2>1. PICK i : /\ IsLast(args, n, "c", i)
                 /\ o.CommandLengthLimit = IF i = 0 THEN 120 ELSE AnyNegative(args[i].val)
    BY <1>1 DEF Read, ReadNumbers
  <2>2. LastOf("c", 120) = IF i = 0 THEN 120 ELSE args[i].val
    BY <2>1, LastIsMax DEF LastOf
  <2> QED  BY <1>1, <1>5, <1>6, <2>1, <2>2
<1>8. IsLimit(o.FilesInReport, LastOf("r", 0 - 1))
  <2>1. PICK i : /\ IsLast(args, n, "r", i)
                 /\ o.FilesInReport = IF i = 0 THEN 0 - 1 ELSE AnyNegative(args[i].val)
    BY <1>1 DEF Read, ReadNumbers
  <2>2. LastOf("r", 0 - 1) = IF i = 0 THEN 0 - 1 ELSE args[i].val
    BY <2>1, LastIsMax DEF LastOf
  <2> QED  BY <1>1, <1>5, <1>6, <2>1, <2>2
<1>9. o.ForwardingSignals = {SIGINT} \cup {scenario.args[i].val : i \in Given("s")}
  BY <1>1 DEF Read, ReadSignals
<1>10. PICK i : /\ IsLast(args, n, "I", i)
                /\ i # 0 /\ args[i].val # 0 => o.InterruptionSignal = args[i].val
                /\ i = 0 => o.InterruptionSignal =
                              IF \E j \in 1 .. n : args[j].opt = "i" THEN SIGABRT ELSE 0
  BY <1>1 DEF Read, ReadSignals
<1>11. Given("I") # {} /\ LastOf("I", 0) # 0 => o.InterruptionSignal = LastOf("I", 0)
  BY <1>10, LastIsMax DEF LastOf
<1>12. Given("i") # {} /\ Given("I") = {} => o.InterruptionSignal = SIGABRT
  BY <1>1, <1>10, LastIsMax
<1> QED  BY <1>2, <1>3, <1>4, <1>7, <1>8, <1>9, <1>11, <1>12 DEF AsGiven

LEMMA OnlyMainParses ==
  ASSUME Next, at = "main", at' = "block"
  PROVE  opts' = Parsed(scenario.args)
<1>1. CASE Optrace
  <2>1. CASE Main
    BY <2>1 DEF Main
  <2>2. CASE \E s \in Blockable : TakeSignal(s)
    BY <2>2 DEF TakeSignal, End
  <2> QED
    BY <1>1, <2>1, <2>2
    DEF Optrace, BlockSignals, Fork, WaitForChild, SetOptions, SetupSignalForwarding,
        UnblockSignals, FirstRestart, LoopRestart, LoopReturns, Report
<1>2. CASE Child \/ ProgramEnds \/ (\E c \in ProgramCalls : ProgramCall(c)) \/ AllOver
  BY <1>2 DEF Child, ChildUnblock, InstallBpfProgram, PtraceTraceMe, StopItself, Execute,
     ChildTakesSignal, ProgramEnds, ProgramCall, ChildOnly, tracer, AllOver
<1>3. CASE \E s \in SentSignals, targets \in (SUBSET {"optrace", "child"}) \ {{}} :
             Send(s, targets)
  BY <1>3 DEF Send, End, tracer
<1> QED  BY <1>1, <1>2, <1>3 DEF Next

\* For every command line, as long as it may be: each option has the effect the
\* help says, whatever comes before and after it (the switch of main).
THEOREM OptionsAreParsed == Spec => OptionsTakeEffect
<1>1. StartInv /\ [Next]_vars => [at = "main" /\ at' = "block" => AsGiven(opts')]_vars
  <2> SUFFICES ASSUME StartInv, Next, at = "main", at' = "block"
               PROVE  AsGiven(opts')
    OBVIOUS
  <2> DEFINE o == opts'
  <2>1. scenario.args \in Seq(Option) /\ o = Parsed(scenario.args)
    BY OnlyMainParses, StartupAssumption DEF StartInv, Typed
  <2> QED  BY <2>1, OptionsAreAsGiven
<1> QED  BY <1>1, StartInvariant, PTL DEF Spec, OptionsTakeEffect
==============================================================================
