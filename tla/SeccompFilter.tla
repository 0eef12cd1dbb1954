---------------------------- MODULE SeccompFilter ----------------------------
(***************************************************************************)
(* InstallBpfProgram (bpf_program.cpp): the classic BPF program the kernel *)
(* runs at each system call of a traced process, as a sequence of          *)
(* instructions, and the machine that runs it.  Its one register holds the *)
(* word loaded last, be it the number of the call or an argument.          *)
(*                                                                         *)
(* A call is a record: the name of the call (nr), and the word that        *)
(* matters of its arguments (arg): the flags of open, the command of       *)
(* fcntl, 0 for the others.                                                *)
(***************************************************************************)
EXTENDS Integers, Sequences

Arch == {"x86_64", "aarch64"}

\* The numbers of the calls (sys/syscall.h, syscall_*.h).
Nr == [arch \in Arch |->
  IF arch = "x86_64"
  THEN [read |-> 0, write |-> 1, open |-> 2, close |-> 3, lseek |-> 8, pwrite64 |-> 18,
        writev |-> 20, dup |-> 32, dup2 |-> 33, fcntl |-> 72, ftruncate |-> 77, creat |-> 85,
        openat |-> 257, fallocate |-> 285, dup3 |-> 292, pwritev |-> 296, pwritev2 |-> 328]
  ELSE [read |-> 63, write |-> 64, close |-> 57, lseek |-> 62, pwrite64 |-> 68,
        writev |-> 66, dup |-> 23, fcntl |-> 25, ftruncate |-> 46, openat |-> 56,
        fallocate |-> 47, dup3 |-> 24, pwritev |-> 70, pwritev2 |-> 287]]

O_WRONLY == 1
O_RDWR == 2
F_DUPFD == 0
F_SETFD == 2
F_SETFL == 4
F_DUPFD_CLOEXEC == 1030

Load(word) == [op |-> "ld", k |-> word]
JumpIf(op, k, jt, jf) == [op |-> op, k |-> k, jt |-> jt, jf |-> jf]
Return(verdict) == [op |-> "ret", k |-> verdict]

\* Fault: the jump to the verdict is one short.
OpenBlockShort(nr) ==
  <<JumpIf("jeq", nr, 0, 4), Load("arg"),
    JumpIf("jset", O_WRONLY, 0, 0), JumpIf("jset", O_RDWR, 0, 1), Return("TRACE")>>

\* open or openat: traced if it is for writing.
OpenBlock(nr) ==
  <<JumpIf("jeq", nr, 0, 4), Load("arg"),
    JumpIf("jset", O_WRONLY, 1, 0), JumpIf("jset", O_RDWR, 0, 1), Return("TRACE")>>

\* fcntl: a command is selected if it has a bit in common with one of four.
FcntlBlock(nr) ==
  <<JumpIf("jeq", nr, 0, 6), Load("arg"),
    JumpIf("jset", F_DUPFD, 3, 0), JumpIf("jset", F_DUPFD_CLOEXEC, 2, 0),
    JumpIf("jset", F_SETFL, 1, 0), JumpIf("jset", F_SETFD, 0, 1), Return("TRACE")>>

\* The calls traced whatever their arguments, in the order they are tested.
tracingSyscalls(arch) ==
  (IF arch = "x86_64" THEN <<"creat", "dup2">> ELSE << >>) \o
  <<"write", "writev", "pwritev", "pwrite64", "pwritev2", "close", "dup", "dup3",
    "fallocate", "ftruncate", "lseek">>

filter == [arch \in Arch |->
  LET calls == tracingSyscalls(arch)
  IN  <<Load("nr")>> \o
      (IF arch = "x86_64" THEN OpenBlock(Nr[arch].open) ELSE << >>) \o
      OpenBlock(Nr[arch].openat) \o FcntlBlock(Nr[arch].fcntl) \o
      [i \in 1 .. 2 * Len(calls) |->
         IF i % 2 = 1 THEN JumpIf("jeq", Nr[arch][calls[(i + 1) \div 2]], 0, 1)
                      ELSE Return("TRACE")] \o
      <<Return("ALLOW")>>]

CommonBit(a, b) ==
  \E i \in 0 .. 29 : (a \div 2^i) % 2 = 1 /\ (b \div 2^i) % 2 = 1

\* What the kernel answers when the program has run over the call, from the
\* first instruction on and with nothing in the register.
Verdict(arch, call) ==
  LET program == filter[arch]
      run[at \in (1 .. Len(program)) \X Nat] ==
        LET i == program[at[1]]
            word == at[2]
            holds == IF i.op = "jeq" THEN word = i.k ELSE CommonBit(word, i.k)
        IN  CASE i.op = "ret" -> i.k
              [] i.op = "ld" ->
                   run[<<at[1] + 1, IF i.k = "nr" THEN Nr[arch][call.nr] ELSE call.arg>>]
              [] OTHER -> run[<<at[1] + 1 + (IF holds THEN i.jt ELSE i.jf), word>>]
  IN  run[<<1, 0>>]

\* The calls the exit handler acts upon: the switch of SyscallExit.
Followed(call) ==
  \/ call.nr \in {"open", "openat"} /\ CommonBit(call.arg, O_WRONLY + O_RDWR)
  \/ call.nr = "fcntl" /\ call.arg \in {F_DUPFD, F_DUPFD_CLOEXEC, F_SETFL, F_SETFD}
  \/ call.nr \in {"write", "writev", "pwritev", "pwrite64", "pwritev2", "creat", "close",
                  "dup", "dup2", "dup3", "fallocate", "ftruncate", "lseek"}
==============================================================================
