---------------------------- MODULE AccountingLife ----------------------------
(***************************************************************************)
(* What the steps of Accounting keep, for all of them to keep FdsAgree:    *)
(* which threads there are and how the context knows them, and what the    *)
(* tables have in common with the descriptors while calls have been made   *)
(* that the tracer has not handled yet.                                    *)
(***************************************************************************)
EXTENDS Accounting

Event == {"absent", "born", "running", "syscall", "fork", "clone", "exec", "exit"}

------------------------------------------------------------------------------
(* Types *)

KernelTyped ==
  /\ use \in Uses /\ unlinked \subseteq Name
  /\ length \in [Name -> 0 .. MaxLength] /\ size \in [Name -> 0 .. MaxLength]
  /\ group \in [Pid -> Pid \cup {None}] /\ struck \subseteq Pid
  /\ kfds \in [Pid -> [Fd -> [ofd : Ofd \cup {None}, cloexec : BOOLEAN]]]
  /\ ofds \in [Ofd -> Description]

\* The registers of a call the kernel has carried out.
RegsTyped(r) ==
  /\ WellTyped(r) /\ r.ret \in Int
  /\ r.nr \in NewFd => r.ret \in Fd
  /\ r.nr \notin {"creat", "open"} => r.fd \in Fd
  /\ r.nr \in {"dup2", "dup3"} => r.arg = r.ret
  /\ r.nr \in NewFd \ {"creat", "open", "dup2"} => r.fd # r.ret
  /\ r.nr \in {"F_SETFD", "F_SETFL"} => r.ret = 0

CallsTyped == \A p \in Pid : stop[p].event = "syscall" => RegsTyped(stop[p].regs)

------------------------------------------------------------------------------
(* Threads *)

ThreadInv ==
  /\ stop = [p \in Pid |-> stop[p]]
  /\ \A p \in Pid : /\ stop[p].event \in Event
                    /\ stop[p].event = "absent" => stop[p] = Absent
                    /\ stop[p].event = "running" => stop[p] = Running

\* Nobody is left: all have exited, or optrace has ended and killed them.
Over == \A p \in Pid : stop[p] = Absent

\* A thread that exists belongs to a process, whose first thread is the last to
\* be reported.
GroupInv ==
  \A p \in Pid :
    /\ stop[p] # Absent <=> group[p] # None
    /\ stop[p] # Absent => group[p] \in Pid /\ group[group[p]] = group[p]
    /\ stop[p].event \in {"fork", "exec"} => Members(p) = {p}
    /\ stop[p] # Absent /\ stop[group[p]].event = "born" => group[p] = p

\* A thread that has been created waits for its creator, and for no other.
BirthInv ==
  \A p \in Pid : stop[p].event \in {"fork", "clone"} =>
    /\ stop[p].child \in Pid
    /\ stop[stop[p].child].event = "born"
    /\ stop[p].event = "fork" => group[stop[p].child] = stop[p].child
    /\ stop[p].event = "clone" => group[stop[p].child] = group[p]
    /\ \A q \in Pid : stop[q].event \in {"fork", "clone"} /\ stop[q].child = stop[p].child => p = q

\* The context knows every thread its creator has been handled of; those of one
\* process, and only they, share a TProcState, which the first one owns.
KnownInv ==
  /\ \A p \in Pid : ProcMap[p] # None <=> stop[p].event \notin {"absent", "born"}
  /\ \A p, q \in Registered : ProcMap[p] = ProcMap[q] <=> group[p] = group[q]
  /\ GroupLeaders = {p \in Registered : group[p] = p}

LifeInv == ThreadInv /\ (~Over => GroupInv /\ BirthInv /\ KnownInv)

------------------------------------------------------------------------------
(* Descriptors *)

\* A descriptor is closed, or refers to a description that is one of a file.
HeldInv ==
  \A p \in Pid, fd \in Fd :
    kfds[p][fd].ofd # None => ofds[kfds[p][fd].ofd].name # None

\* Every TFileState of a table is in a slot, and every slot points to one.
Slotted(table) ==
  \A e \in table : e.slots # {} /\ \A f \in table : e.slots \cap f.slots # {} => e = f

SlottedInv == \A s \in ProcState : Slotted(Fds[s])

TypedInv == KernelTyped /\ CallsTyped /\ ContextTyped /\ HeldInv /\ SlottedInv

------------------------------------------------------------------------------
(* Tables and descriptors *)

Calls(g) == {q \in Pid : group[q] = g /\ stop[q].event = "syscall"}

Dups == NewFd \ {"open", "creat"}

\* The slots that are assigned or reset when the call is handled.
Changes(r) ==
  CASE r.nr = "close" -> {r.fd}
    [] r.nr \in {"open", "creat"} -> {r.ret}
    [] r.nr \in Dups -> {r.ret} \ {r.fd}
    [] OTHER -> {}

Flagged(r) == IF r.nr = "F_SETFD" THEN {r.fd} ELSE {}

\* No descriptor is in both calls, but where both write.
Apart(a, b) == Slots(a) \cap Slots(b) = {} \/ (a.nr = "write" /\ b.nr = "write")

Busy(g) == UNION {Changes(stop[q].regs) : q \in Calls(g)}
BusyFlags(g) == Busy(g) \cup UNION {Flagged(stop[q].regs) : q \in Calls(g)}

Followed(g) == {fd \in Fd : kfds[g][fd].ofd # None /\ ofds[kfds[g][fd].ofd].followed}

\* A table agrees with these descriptors, of which some are to be followed: but
\* for the slots of busy, and the close-on-exec flags of flags.
Fits(table, fds, followed, busy, flags) ==
  /\ \A fd \in Fd \ busy : fd \in OpenSlots(table) <=> fd \in followed
  /\ \A e \in table : \A a, b \in e.slots \ busy : fds[a].ofd = fds[b].ofd
  /\ \A e \in table : \A a \in e.slots \ flags : IsCloexecSet(e.file) <=> fds[a].cloexec

\* The table agrees with the descriptors of the process but for those that
\* calls still to be handled are about.
Agrees(table, g) == Fits(table, kfds[g], Followed(g), Busy(g), BusyFlags(g))

\* The kernel has already done what the call asks for.
Done(r, table, fds, followed) ==
  /\ r.nr = "close" => fds[r.fd].ofd = None
  /\ r.nr \in {"open", "creat"} =>
       /\ fds[r.ret].ofd # None
       /\ Follows(r) <=> r.ret \in followed
       /\ fds[r.ret].cloexec <=> "O_CLOEXEC" \in r.flags
       /\ r.ret \notin OpenSlots(table)
  /\ r.nr \in Dups =>
       /\ fds[r.fd].ofd # None /\ fds[r.ret].ofd = fds[r.fd].ofd
       /\ r.nr = "F_DUPFD_CLOEXEC" => fds[r.ret].cloexec
       /\ r.nr = "dup3" => (fds[r.ret].cloexec <=> "O_CLOEXEC" \in r.flags)
  /\ r.nr \in {"F_SETFD", "F_SETFL"} =>
       "O_CLOEXEC" \notin r.flags /\ ~fds[r.fd].cloexec

\* The process has threads that go on, in the program it has run so far.
Live(g) ==
  group[g] = g /\ \E q \in Pid : /\ group[q] = g
                                 /\ stop[q].event \in {"running", "syscall", "fork", "clone"}

\* What the calls under way and the table have in common with the descriptors
\* of one process.
AgreesOn(g) ==
  /\ \A p, q \in Calls(g) : p # q => Apart(stop[p].regs, stop[q].regs)
  /\ \A q \in Calls(g) : Done(stop[q].regs, Table(q), kfds[g], Followed(g))
  /\ Live(g) => Agrees(Table(g), g)

ForksAgree == \A p \in Pid : stop[p].event = "fork" => kfds[stop[p].child] = kfds[p]

\* The kernel has closed what is close-on-exec, and the context will.
ExecsAgree ==
  \A p \in Pid : stop[p].event = "exec" =>
    \A fd \in Fd :
      /\ ~kfds[p][fd].cloexec
      /\ fd \in Followed(p) <=>
           fd \in OpenSlots(Table(p)) /\ ~IsCloexecSet(FileAt(Table(p), fd))

AgreeInv ==
  ~MixedCloexec(kfds) /\ (\A g \in Pid : AgreesOn(g)) /\ ForksAgree /\ ExecsAgree

\* The invariant FdsAgree follows from.  It holds on every behaviour, that of
\* programs the context does not follow exactly included; the agreement only
\* where it does, and as long as there is someone left.
AccountingInv ==
  /\ TypedInv /\ LifeInv
  /\ ~Over /\ Without({"cloexec", "race"}) => AgreeInv

------------------------------------------------------------------------------
(* The interruption target *)

ForWriting(g) == {fd \in Fd : kfds[g][fd].ofd # None /\ ofds[kfds[g][fd].ofd].write}

HoldsTarget(p, fd) ==
  fd \in ForWriting(p) /\ ofds[kfds[p][fd].ofd].name \in use.target

\* A process that has the target open has been sent the signal, or the call
\* that has opened it is still to be handled; nothing has been written to it.
SpareInv ==
  /\ \A p \in Pid : group[p] \in {p, None}
  /\ \A p \in Pid, fd \in Fd :
       stop[p].event \notin {"absent", "exit"} /\ HoldsTarget(p, fd) =>
         \/ p \in struck
         \/ stop[p].event = "syscall" /\ Follows(stop[p].regs) /\ stop[p].regs.ret = fd
  /\ \A o \in Ofd : ofds[o].name \in use.target => ofds[o].peak = 0

TargetInv == Spared => SpareInv
==============================================================================
