----------------------------- MODULE CommandLine -----------------------------
(***************************************************************************)
(* main (main.cpp): from the options on the command line to TOptions.  An  *)
(* option is a record of its letter (opt; the long names stand for the     *)
(* same letters, --help is "help"), and its argument as it is (text) and   *)
(* as atoi reads it (val).  main tells a negative limit by the first       *)
(* character of its argument; "-0" and what is no number are left out.     *)
(***************************************************************************)
EXTENDS Integers, Sequences, SequencesExt

SIGINT == 2
SIGABRT == 6

GetDefaults ==
  [Output |-> "", AppendOutput |-> FALSE, FollowForks |-> TRUE, WaitDaemons |-> FALSE,
   JailForks |-> TRUE, HumanReadableSizes |-> FALSE, FilesInReport |-> 0 - 1,
   CommandLengthLimit |-> 120, UseSecComp |-> TRUE, SearchForCoreDumps |-> TRUE,
   ForwardingSignals |-> {SIGINT}, ForwardAllSignals |-> FALSE, StoreEmptyFiles |-> FALSE,
   InterruptionTarget |-> "", InterruptionSignal |-> 0]

\* The options getopt_long accepts.  The switch has no case for w and j.
cli_options == {"F", "J", "w", "h", "o", "a", "c", "r", "j", "C", "D", "e", "s", "S", "i", "I"}

\* The options that just turn a field on or off.
Switches ==
  [F |-> <<"FollowForks", FALSE>>, J |-> <<"JailForks", FALSE>>,
   W |-> <<"WaitDaemons", TRUE>>, h |-> <<"HumanReadableSizes", TRUE>>,
   a |-> <<"AppendOutput", TRUE>>, C |-> <<"UseSecComp", FALSE>>,
   D |-> <<"SearchForCoreDumps", FALSE>>, S |-> <<"ForwardAllSignals", TRUE>>,
   e |-> <<"StoreEmptyFiles", TRUE>>]

AnyNegative(val) == IF val < 0 THEN 0 - 1 ELSE val

\* Fault: -i sets the default signal even if -I has been given before.
SetByAborting(opts, option) ==
  CASE option.opt \in DOMAIN Switches ->
         [opts EXCEPT ![Switches[option.opt][1]] = Switches[option.opt][2]]
    [] option.opt = "o" -> [opts EXCEPT !.Output = option.text]
    [] option.opt = "c" -> [opts EXCEPT !.CommandLengthLimit = AnyNegative(option.val)]
    [] option.opt = "r" -> [opts EXCEPT !.FilesInReport = AnyNegative(option.val)]
    [] option.opt = "s" -> [opts EXCEPT !.ForwardingSignals = @ \cup {option.val}]
    [] option.opt = "i" -> [opts EXCEPT !.InterruptionTarget = option.text,
                                        !.InterruptionSignal = SIGABRT]
    [] option.opt = "I" -> [opts EXCEPT !.InterruptionSignal = option.val]
    [] OTHER -> opts

Option == [opt : STRING, val : Int, text : STRING]

\* The switch: the options once one more has been read.  A signal number
\* that is out of range is reported and used.
SetBy(opts, option) ==
  CASE option.opt \in DOMAIN Switches ->
         [opts EXCEPT ![Switches[option.opt][1]] = Switches[option.opt][2]]
    [] option.opt = "o" -> [opts EXCEPT !.Output = option.text]
    [] option.opt = "c" -> [opts EXCEPT !.CommandLengthLimit = AnyNegative(option.val)]
    [] option.opt = "r" -> [opts EXCEPT !.FilesInReport = AnyNegative(option.val)]
    [] option.opt = "s" -> [opts EXCEPT !.ForwardingSignals = @ \cup {option.val}]
    [] option.opt = "i" -> [opts EXCEPT !.InterruptionTarget = option.text,
                                        !.InterruptionSignal = IF @ = 0 THEN SIGABRT ELSE @]
    [] option.opt = "I" -> [opts EXCEPT !.InterruptionSignal = option.val]
    [] OTHER -> opts

\* The first option that ends the program: --help, or one getopt rejects.
EndsAt(args) == SelectInSeq(args, LAMBDA option : option.opt \notin cli_options)

\* The options once all have been read, in the order they are given.
Parsed(args) ==
  LET read[n \in 0 .. Len(args)] ==
        IF n = 0 THEN GetDefaults ELSE SetBy(read[n - 1], args[n])
  IN  read[Len(args)]
==============================================================================
