------------------------------ MODULE FileState ------------------------------
(***************************************************************************)
(* TFileState (types.cpp, types.h): the record the tracer keeps of one     *)
(* file a traced process has open for writing.  It never looks at what is  *)
(* written: it follows the position, the furthest position reached         *)
(* (MaxPos) and the length the file had when the record was made           *)
(* (InitSize), and reports MaxPos - InitSize as the output.                *)
(*                                                                         *)
(* Positions are size_t: sums wrap at SizeModulus (2^64 in the program).   *)
(***************************************************************************)
EXTENDS Naturals

CONSTANTS
  Name,         \* the file names a descriptor can resolve to
  SizeModulus   \* size_t holds 0 .. SizeModulus - 1

ASSUME SizeModulusAssumption == SizeModulus \in Nat \ {0}

Size == 0 .. (SizeModulus - 1)

(***************************************************************************)
(* The bits of the flags word the program looks at.  FD_CLOEXEC is 1, the  *)
(* value of O_WRONLY, and so is that bit and no bit of its own.            *)
(***************************************************************************)
FlagBit == {"O_WRONLY", "O_RDWR", "O_APPEND", "O_CLOEXEC"}
FD_CLOEXEC == "O_WRONLY"

TFileState ==
  [MaxPos : Size, CurrPos : Size, Flags : SUBSET FlagBit,
   InitSize : Size, Filename : Name]

IsAppendSet(file) == "O_APPEND" \in file.Flags
IsCloexecSet(file) == "O_CLOEXEC" \in file.Flags

\* Fault: O_APPEND is not looked at.
NewAtStart(name, flags, length) ==
  [MaxPos |-> 0, CurrPos |-> 0, Flags |-> flags, InitSize |-> length, Filename |-> name]

\* The constructor; length is what GetFileLength finds now.
NewFileState(name, flags, length) ==
  [MaxPos   |-> 0,
   CurrPos  |-> IF "O_APPEND" \in flags THEN length ELSE 0,
   Flags    |-> flags,
   InitSize |-> length,
   Filename |-> name]

\* Fault: the copy constructor is the one the compiler would make.
CopyWhole(file, length) == file

\* The copy constructor: everything is copied except InitSize, which is the
\* length of the file at the time of the copy.
CopyFileState(file, length) == [file EXCEPT !.InitSize = length]

SetFlags(file, flags) == [file EXCEPT !.Flags = flags]

SetCloexecFlag(file, on) ==
  [file EXCEPT !.Flags = IF on THEN @ \cup {"O_CLOEXEC"} ELSE @ \ {"O_CLOEXEC"}]

SetCurrPos(file, pos) == [file EXCEPT !.CurrPos = pos]

\* The furthest position once pos has been written up to.
Reach(file, pos) == IF pos > file.MaxPos THEN pos ELSE file.MaxPos

Enroll(file, nbytes) ==
  LET pos == (file.CurrPos + nbytes) % SizeModulus
  IN  [file EXCEPT !.CurrPos = pos, !.MaxPos = Reach(file, pos)]

EnrollNoShift(file, nbytes, offset) ==
  [file EXCEPT !.MaxPos = Reach(file, (offset + nbytes) % SizeModulus)]

\* Fault: a file that is shorter than it was has a negative output.
Difference(file) == file.MaxPos - file.InitSize

GetOutputSize(file) ==
  IF file.MaxPos > file.InitSize THEN file.MaxPos - file.InitSize ELSE 0
==============================================================================
