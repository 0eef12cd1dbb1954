-------------------------------- MODULE Report --------------------------------
(***************************************************************************)
(* What comes into the report and how it reads.  Output files are recorded *)
(* as processes close them; when a process dies with a core dump, the exit *)
(* of each of its threads has optrace look for the file and record it; and *)
(* at the end PrintReport prints the largest files and the total.          *)
(***************************************************************************)
EXTENDS FileStorage, SizeFormat, CoreFiles

CONSTANTS
  None,
  Situations,   \* [outputs, pattern, files, crashing]
  MaxDirs       \* the descriptors optrace has left for directories

(***************************************************************************)
(* A situation: the output files there will be; core_pattern; the files    *)
(* that are in the directories searched, each with the process whose core  *)
(* it is; and the processes that will die with a core dump, each with the  *)
(* ids of its threads and the size of its core.                            *)
(***************************************************************************)
ASSUME ReportAssumption ==
  /\ MaxDirs \in Nat
  /\ \A s \in Situations : /\ s.outputs \subseteq File
                           /\ \A p, q \in s.crashing, f \in s.files : \A t \in p.threads :
                                {[id |-> t, Size |-> q.size], [id |-> t, Size |-> f.size],
                                 [id |-> t, Size |-> 0]} \subseteq File

VARIABLES
  situation,
  HumanReadableSizes,   \* TOptions
  files,                \* the files in the directories that are searched
  crashed,              \* the processes that have dumped core
  cores,                \* thread -> the file found at its exit, NoFile, or None
  dirs,                 \* the directories left open
  printed               \* the report: its lines and its total, or None

outside == <<situation, HumanReadableSizes, files, crashed, cores, dirs, printed>>
reportVars == <<vars, outside>>

NoFile == [dir |-> "", name |-> << >>, of |-> << >>, size |-> 0]

Thread == UNION {UNION {p.threads : p \in s.crashing} : s \in Situations}

ReportInit ==
  /\ Init
  /\ situation \in Situations
  /\ HumanReadableSizes \in BOOLEAN
  /\ files = situation.files
  /\ crashed = {} /\ cores = [t \in Thread |-> None] /\ dirs = 0
  /\ printed = None

\* A process closes a file it has written (TearDownFd).
TearDownFd(f) ==
  /\ printed = None /\ f \in situation.outputs
  /\ AddFileEntry(f)
  /\ UNCHANGED outside

\* The kernel writes the core; a file of that name is replaced.
DumpCore(p) ==
  LET core == [dir |-> KernelDir(situation.pattern, p),
               name |-> KernelName(situation.pattern, p), of |-> p.pid, size |-> p.size]
  IN  /\ printed = None /\ p \in situation.crashing \ crashed
      /\ crashed' = crashed \cup {p}
      /\ files' = {f \in files : f.dir # core.dir \/ f.name # core.name} \cup {core}
      /\ UNCHANGED <<vars, situation, HumanReadableSizes, cores, dirs, printed>>

\* The exit of one thread.  The directory in which a file has been found is not
\* closed; with too many of them open, none can be.
SearchAndRegisterCoreDumpFile(p, t) ==
  LET found == IF dirs >= MaxDirs THEN {}
               ELSE RecoverCoreDumpFile(situation.pattern, files, p)
  IN  /\ p \in crashed /\ t \in p.threads /\ cores[t] = None
      /\ \/ /\ found = {}
            /\ cores' = [cores EXCEPT ![t] = NoFile]
            /\ UNCHANGED <<vars, dirs>>
         \/ \E answer \in found :
              /\ cores' = [cores EXCEPT ![t] = answer.file]
              /\ dirs' = dirs + 1
              /\ AddFileEntry([id |-> t, Size |-> IF EndsInSlash(answer.by)
                                                  THEN answer.file.size ELSE 0])
      /\ UNCHANGED <<situation, HumanReadableSizes, files, crashed, printed>>

\* A size as it is printed: a number of bytes, or the text.
Text(bytes) ==
  IF HumanReadableSizes THEN HumanReadableSize(bytes)
  ELSE [tenths |-> 10 * bytes, decimal |-> FALSE, suffix |-> "b"]

PrintReport ==
  /\ printed = None /\ Capacity # 0
  /\ \A p \in crashed : \A t \in p.threads : cores[t] # None
  /\ printed' = [lines |-> [i \in 1 .. Len(GetLargestFiles) |-> Text(GetLargestFiles[i].Size)],
                 total |-> Text(OutputSize)]
  /\ UNCHANGED <<vars, situation, HumanReadableSizes, files, crashed, cores, dirs>>

Over == (printed # None \/ Capacity = 0) /\ UNCHANGED reportVars

ReportNext ==
  \/ \E f \in File : TearDownFd(f)
  \/ \E p \in situation.crashing : DumpCore(p) \/ \E t \in p.threads : SearchAndRegisterCoreDumpFile(p, t)
  \/ PrintReport \/ Over

ReportSpec == ReportInit /\ [][ReportNext]_reportVars

------------------------------------------------------------------------------
(* Properties *)

\* The patterns that tell processes apart, made of what the masks know.
Exact(pattern) ==
  /\ pattern.kind = "absolute" /\ Contains(pattern.base, "%p")
  /\ ~Contains(pattern.base, "%t") /\ ~Contains(pattern.base, "%u")

\* The file recorded when a process has dumped core is the core of that
\* process, whatever other cores, of processes with similar ids or of earlier
\* ones, lie in the directories searched, and one is found: if core_pattern is
\* absolute and has the pid, the command has not been renamed, and not too many
\* cores have been found before, each of which leaves a directory open
\* (cores.cpp:96).
CoreIsOwn ==
  \A p \in crashed : \A t \in p.threads :
    cores[t] # None /\ Exact(situation.pattern) /\ p.comm = p.name =>
      IF cores[t] = NoFile THEN dirs >= MaxDirs
      ELSE cores[t].of = p.pid /\ cores[t].size = p.size

Unit(text) == Kibi ^ Exponent[text.suffix]
TooLarge(bytes) == bytes >= Kibi ^ 4

\* The text is within half a tenth of the size, or has lost its fraction; and
\* fits the buffer, with the byte that ends it.
Says(text, bytes) ==
  /\ LET over == text.tenths * Unit(text) - 10 * bytes
     IN  IF text.decimal THEN 2 * over \in (0 - Unit(text)) .. Unit(text)
         ELSE over <= 0 /\ over > 0 - 10 * Unit(text)
  /\ Width(text) < 8 \/ text.tenths = 1000

\* What is printed for a size says that size, and the lines read from the
\* largest to the smallest.  Except from 1 TiB on, where the suffix is that of
\* the next unit (utils.cpp:158-163); and sizes that round to 100.0, whose text
\* is longer than the buffer by the byte that ends it (utils.cpp:164).
ReportSaysSizes ==
  printed # None /\ HumanReadableSizes =>
    LET listed == GetLargestFiles
        told == {i \in 1 .. Len(listed) : listed[i].Size > 0 /\ ~TooLarge(listed[i].Size)}
        lines == printed.lines
    IN  /\ \A i \in told : Says(lines[i], listed[i].Size)
        /\ \A i, j \in told : i < j =>
             lines[i].tenths * Unit(lines[i]) >= lines[j].tenths * Unit(lines[j])
        /\ OutputSize > 0 /\ ~TooLarge(OutputSize) => Says(printed.total, OutputSize)
==============================================================================
