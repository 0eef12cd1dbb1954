------------------------------ MODULE CoreFiles ------------------------------
(***************************************************************************)
(* RecoverCoreDumpFile (cores.cpp): which file may be the core dump of a   *)
(* process.  optrace does not see it written: it looks into the directory  *)
(* that /proc/sys/kernel/core_pattern names, and into a few others, for a  *)
(* name that fits.                                                         *)
(*                                                                         *)
(* Names, masks and patterns are sequences of words; a pid is a sequence   *)
(* of digits.  A specifier of a pattern is one word, such as "%p".         *)
(***************************************************************************)
EXTENDS Naturals, Sequences, SequencesExt

(***************************************************************************)
(* core_pattern as it was read: its kind; the directory it names, "" if    *)
(* there is no slash; the rest (base); and core_uses_pid.                  *)
(*   "absolute"  begins with a slash                                       *)
(*   "relative"  does not                                                  *)
(*   "pipe"      names a program, or could not be read                     *)
(* A process: its pid, its command name when it was registered (comm) and  *)
(* now (name), the signal it died of, its directory (cwd).                 *)
(***************************************************************************)

GetBaseName(pattern) == IF pattern.dir = "" THEN << >> ELSE pattern.base

\* The directory is optrace's own where the pattern is relative.
defaultPattern(pattern) ==
  [Path |-> IF pattern.kind = "absolute" THEN pattern.dir ELSE "cwd",
   Mask |-> IF pattern.kind # "pipe" THEN GetBaseName(pattern)
            ELSE IF pattern.usesPid THEN <<"core", ".", "%p">> ELSE <<"core">>]

patterns(pattern) ==
  <<defaultPattern(pattern),
    [Path |-> "/coredumps", Mask |-> <<"%e", ".", "%p", ".", "%s">>],
    [Path |-> "/coredumps", Mask |-> <<"*", "%p", "*">>],
    [Path |-> "/cores", Mask |-> <<"*", "%p", "*">>],
    [Path |-> "/var/lib/systemd/coredump", Mask |-> <<"*", "%p", "*">>]>>

\* The last one is written without its slash.
EndsInSlash(i) == i # 5

\* Fault: the process id is not put in.
ResolveAnyPid(mask, process) ==
  FlattenSeq([i \in 1 .. Len(mask) |->
    CASE mask[i] = "%%" -> <<"%">>
      [] mask[i] = "%e" -> <<process.comm>>
      [] mask[i] = "%s" -> <<process.signal>>
      [] mask[i] \in {"%p", "%t", "%u"} -> <<"*">>
      [] OTHER -> <<mask[i]>>])

\* A specifier it does not know may be anything.
ResolveMask(mask, process) ==
  FlattenSeq([i \in 1 .. Len(mask) |->
    CASE mask[i] = "%%" -> <<"%">>
      [] mask[i] = "%p" -> process.pid
      [] mask[i] = "%e" -> <<process.comm>>
      [] mask[i] = "%s" -> <<process.signal>>
      [] mask[i] \in {"%t", "%u"} -> <<"*">>
      [] OTHER -> <<mask[i]>>])

\* fnmatch, of the rest of the mask from i and of the name from j.
fnmatch(mask, name) ==
  LET fits[i \in 1 .. Len(mask) + 1, j \in 1 .. Len(name) + 1] ==
        IF i > Len(mask) THEN j > Len(name)
        ELSE IF mask[i] = "*" THEN fits[i + 1, j] \/ (j <= Len(name) /\ fits[i, j + 1])
        ELSE j <= Len(name) /\ mask[i] = name[j] /\ fits[i + 1, j + 1]
  IN  fits[1, 1]

\* The files the i-th pattern fits, of the regular files there are.
Candidates(pattern, files, process, i) ==
  LET p == patterns(pattern)[i]
  IN  {f \in files : f.dir = p.Path /\ fnmatch(ResolveMask(p.Mask, process), f.name)}

\* The answers there may be: the files that fit the first pattern any file
\* fits, whichever readdir yields first, and the pattern.
RecoverCoreDumpFile(pattern, files, process) ==
  LET fitting == [i \in 1 .. 5 |-> Candidates(pattern, files, process, i)]
      first == {i \in 1 .. 5 : fitting[i] # {} /\ \A j \in 1 .. i - 1 : fitting[j] = {}}
  IN  UNION {{[file |-> f, by |-> i] : f \in fitting[i]} : i \in first}

------------------------------------------------------------------------------
\* The name the kernel gives to the core of a process.
KernelName(pattern, process) ==
  FlattenSeq([i \in 1 .. Len(pattern.base) |->
    CASE pattern.base[i] = "%%" -> <<"%">>
      [] pattern.base[i] = "%p" -> process.pid
      [] pattern.base[i] = "%e" -> <<process.name>>
      [] pattern.base[i] = "%s" -> <<process.signal>>
      [] pattern.base[i] = "%t" -> <<"now">>
      [] pattern.base[i] = "%u" -> <<"user">>
      [] OTHER -> <<pattern.base[i]>>])
  \o (IF pattern.usesPid /\ ~Contains(pattern.base, "%p") THEN <<".">> \o process.pid ELSE << >>)

\* Where: a relative pattern in the directory the process is in, a pipe
\* wherever the program puts it.
KernelDir(pattern, process) ==
  CASE pattern.kind = "absolute" -> pattern.dir
    [] pattern.kind = "pipe" -> "/var/lib/systemd/coredump"
    [] pattern.dir = "" -> process.cwd
    [] OTHER -> "elsewhere"
==============================================================================
