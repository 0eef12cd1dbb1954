--------------------------- MODULE AccountingCounts ---------------------------
(***************************************************************************)
(* What the steps of Accounting keep, for all of them to keep              *)
(* TotalIsWritten and NothingCountedTwice: how far each file state will    *)
(* have reached once the calls under way have been handled, against the    *)
(* length of the file.                                                     *)
(***************************************************************************)
EXTENDS AccountingPositions

SumOver(w, S) == MapThenSumSet(LAMBDA x : w[x], S)

\* Up to where a call that names a place in the file has written.
End(r) == IF r.nr = "pwrite64" THEN r.arg + r.ret ELSE r.arg

Ends(s, slots) ==
  {End(stop[q].regs) : q \in Via(s, slots, {"pwrite64", "ftruncate", "fallocate"})}

\* Up to where a file state has been written, n more writes and calls that
\* write up to ends included.
Reached(file, n, ends) ==
  {file.InitSize, file.MaxPos} \cup {file.CurrPos + k : k \in 1 .. n} \cup ends

Top(s, e) == Max(Reached(e.file, Writes(s, e), Ends(s, e.slots)))

\* What the entries of the table at address s will have been counted for then.
Dues(s, table) == [e \in table |-> Top(s, e) - e.file.InitSize]
Due(s, table) == SumOver(Dues(s, table), table)

Allocated == {ProcMap[p] : p \in Registered}

\* What the report would count once the calls under way have been handled.
Counted == OutputSize + SumOver([s \in Allocated |-> Due(s, Fds[s])], Allocated)

\* A file is as long as it was when it was opened for writing, or has been
\* written to since.
DescriptionsMeasure ==
  \A o \in Ofd :
    IF ofds[o].write
    THEN /\ ofds[o].name # None /\ ofds[o].followed
         /\ size[ofds[o].name] = Longer(ofds[o].init, ofds[o].peak)
         /\ quirks = {} => ~ofds[o].split
    ELSE ofds[o].peak = 0

\* A file state with a description: if it alone follows it, it has reached the
\* end of the file.  Of several each is behind where the description stands, and
\* has not been counted for more than there is; writing on, it passes no other
\* one's end.
MeasuresUp(file, top, pos, d, end) ==
  LET landing == IF d.append THEN end ELSE d.pos
  IN  IF ~d.write THEN file.MaxPos = 0
      ELSE /\ file.Filename = d.name
           /\ IF d.split
              THEN top <= end /\ pos <= top /\ pos <= landing /\ end <= Longer(top, landing)
              ELSE top = end

MeasuresAt(g, e, a) ==
  LET o == kfds[g][a].ofd
  IN  o # None =>
        MeasuresUp(e.file, Top(ProcMap[g], e), e.file.CurrPos + Writes(ProcMap[g], e),
                   ofds[o], size[ofds[o].name])

Measures(g, busy) == \A e \in Table(g) : \A a \in e.slots \ busy : MeasuresAt(g, e, a)

\* What the kernel has done for the call, as far as lengths have to do with it.
Sized(r, fds) ==
  LET o == fds[r.fd].ofd
  IN  /\ r.nr \in {"write", "pwrite64", "ftruncate", "fallocate"} => o # None /\ ofds[o].write
      /\ r.nr \in {"pwrite64", "ftruncate", "fallocate"} => Succeeded(r) /\ End(r) \in 0 .. MaxLength
      /\ r.nr = "lseek" => ~(ofds[o].write /\ ofds[o].split)

CountsOn(g) ==
  /\ \A q \in Calls(g) : Sized(stop[q].regs, kfds[g])
  /\ Live(g) => Measures(g, Busy(g))
  /\ stop[g].event = "exec" => Measures(g, {})
  /\ stop[g].event \in {"fork", "exec"} =>
       \A fd \in Fd : Writable(g, fd) => At(g, fd).name \notin unlinked

CountInv ==
  quirks \subseteq {"split", "lost"} =>
    /\ Counted <= Written /\ (quirks = {} => Counted = Written)
    /\ DescriptionsMeasure
    /\ \A g \in Pid : CountsOn(g)

\* The inductive invariant: which descriptors the tables have (AccountingLife),
\* at which positions, and what has been counted.
IInv == AccountingInv /\ PositionInv /\ CountInv
==============================================================================
