------------------------------ MODULE MCStartup ------------------------------
(* Constants of the run of Startup.                                         *)
EXTENDS Startup

Bare(letter) == [opt |-> letter, val |-> 0, text |-> ""]
Number(letter, val) == [Bare(letter) EXCEPT !.val = val]
Text(letter, text) == [Bare(letter) EXCEPT !.text = text]

\* Every option once or more, in the orders that could matter.
CommandLines ==
  {<<Bare(letter)>> : letter \in {"F", "J", "C", "D", "e", "h", "a", "w", "S", "help", "?"}} \cup
  {<< >>,
   <<Number("s", SIGTERM)>>, <<Number("s", SIGTERM), Bare("S")>>,
   <<Number("s", SIGKILL), Bare("J")>>, <<Bare("J"), Bare("C")>>,
   <<Number("r", 0), Number("c", 0 - 7), Number("r", 0 - 2)>>,
   <<Number("c", 40), Number("r", 2), Number("r", 12)>>, <<Number("r", 0 - 2), Number("r", 0)>>,
   <<Number("c", 0), Text("o", "unwritable")>>, <<Text("o", "out"), Bare("a")>>,
   <<Number("I", SIGTERM), Text("i", "mask")>>, <<Text("i", "mask"), Number("I", SIGTERM)>>,
   <<Text("i", "mask"), Number("j", 1)>>}

Plain == [args |-> << >>, program |-> "present", arch |-> "x86_64", filters |-> TRUE]

Started ==
  {[Plain EXCEPT !.args = line] : line \in CommandLines} \cup
  {[Plain EXCEPT !.program = "none"], [Plain EXCEPT !.program = "missing"],
   [Plain EXCEPT !.program = "caller"],
   [Plain EXCEPT !.arch = "aarch64"], [Plain EXCEPT !.filters = FALSE]}

Masks == {{}, {SIGTERM}}
Signals == {SIGINT, SIGTERM, SIGKILL}

\* Every call, with the flags and commands that share bits with those selected.
Calls ==
  {[nr |-> nr, arg |-> 0] :
     nr \in (DOMAIN Nr["x86_64"] \cup DOMAIN Nr["aarch64"]) \ {"open", "openat", "fcntl"}} \cup
  {[nr |-> nr, arg |-> flags] : nr \in {"open", "openat"}, flags \in {0, 1, 2, 64, 1025}} \cup
  {[nr |-> "fcntl", arg |-> cmd] : cmd \in 0 .. 10 \cup 1030 .. 1034}
==============================================================================
