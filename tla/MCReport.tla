------------------------------- MODULE MCReport -------------------------------
(* Constants of the run of Report.                                          *)
EXTENDS Report

(***************************************************************************)
(* Sizes on both sides of every boundary, and ties.  With 112 for a KiB:   *)
(* 252 is 2.25 KiB; 11195 is 99.96 KiB; 11200 is 100 KiB.                  *)
(***************************************************************************)
Sizes == <<0, 111, 112, 252, 11195, 11195, 11200, 112 ^ 4>>
Outputs == {[id |-> i, Size |-> Sizes[i]] : i \in 1 .. 8}

\* Two processes; the digits of one pid are in the other.
One == [pid |-> <<"1">>, comm |-> "cmd", name |-> "cmd", signal |-> "11", cwd |-> "cwd",
        threads |-> {101, 102}, size |-> 3]
Eleven == [One EXCEPT !.pid = <<"1", "1">>, !.threads = {103}, !.size = 5]
Renamed == [Eleven EXCEPT !.name = "other", !.cwd = "other"]

\* Cores that have been there before.
Leftover(dir, name) == [dir |-> dir, name |-> name, of |-> <<"old">>, size |-> 7]
Leftovers ==
  {Leftover("/coredumps", <<"core", ".", "1", "1", "1">>), Leftover("/cores", <<"1", ".", "1", "1">>),
   Leftover("/coredumps", <<"cmd", ".", "1", ".", "9">>)}

Files == Outputs \cup {[id |-> t, Size |-> size] : t \in 101 .. 103, size \in {0, 3, 5, 7}}

Absolute(dir, base) == [kind |-> "absolute", dir |-> dir, base |-> base, usesPid |-> FALSE]
Patterns ==
  {Absolute("/cores", <<"core", ".", "%p">>), Absolute("/cores", <<"%p">>),
   Absolute("/crash", <<"%e", ".", "%p", ".", "%s", "%%">>),
   Absolute("/crash", <<"core", ".", "%t", ".", "%p">>),
   Absolute("/coredumps", <<"%e", ".", "%p", ".", "%s">>), Absolute("/crash", <<"core">>),
   [Absolute("/crash", <<"core">>) EXCEPT !.usesPid = TRUE],
   [Absolute("", <<"core", ".", "%p">>) EXCEPT !.kind = "relative"],
   [Absolute("sub", <<"core", ".", "%p">>) EXCEPT !.kind = "relative"],
   [Absolute("", <<"core", ".", "%u", ".", "%p">>) EXCEPT !.kind = "pipe"],
   [Absolute("", <<"core">>) EXCEPT !.kind = "pipe", !.usesPid = TRUE]}

Written == [outputs |-> Outputs, pattern |-> Absolute("/crash", <<"core">>),
            files |-> {}, crashing |-> {}]

Crashed ==
  {[outputs |-> {}, pattern |-> pattern, files |-> left, crashing |-> both] :
     pattern \in Patterns, left \in {{}, Leftovers}, both \in {{One, Eleven}, {One, Renamed}}}

AllSituations == {Written} \cup Crashed
NegativeToThree == -1 .. 3
==============================================================================
