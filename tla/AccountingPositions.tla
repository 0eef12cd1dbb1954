------------------------- MODULE AccountingPositions -------------------------
(***************************************************************************)
(* What the steps of Accounting keep, for all of them to keep              *)
(* PositionsAgree: where the file states of a table stand, and will stand  *)
(* once the calls under way have been handled.                             *)
(***************************************************************************)
EXTENDS AccountingLife

\* A description one TFileState follows.
Sole(o) == o # None /\ ofds[o].write /\ ~ofds[o].split

\* Of the descriptions of a file, one is open for writing.
OneWriter ==
  \A c, d \in Ofd : ofds[c].write /\ ofds[d].write /\ ofds[c].name = ofds[d].name => c = d

\* Processes do not share a description one TFileState follows.
OneOwner ==
  \A p, q \in Pid, a, b \in Fd :
    Sole(kfds[p][a].ofd) /\ kfds[q][b].ofd = kfds[p][a].ofd => p = q

\* GetFileLength finds a file that has its name.
LengthsAgree == \A name \in Name \ unlinked : length[name] = size[name]

\* The calls of these kinds on the slots that are still to be handled, on the
\* table at address s.
Via(s, slots, nrs) ==
  {q \in Pid : /\ stop[q].event = "syscall" /\ ProcMap[q] = s
               /\ stop[q].regs.nr \in nrs /\ stop[q].regs.fd \in slots}

Writes(s, e) == Cardinality(Via(s, e.slots, {"write"}))

\* The descriptors that share an entry refer to one description, and if one
\* TFileState follows it, they are all that do.
Grouped(table, fds, busy) ==
  \A e \in table : \A a \in e.slots \ busy :
    /\ fds[a].ofd = None => e.slots = {a}
    /\ \A b \in e.slots \ busy : fds[b].ofd = fds[a].ofd
    /\ \A b \in Fd \ busy : Sole(fds[a].ofd) /\ fds[b].ofd = fds[a].ofd => b \in e.slots

\* CurrPos is where the next write lands but for the writes still to be
\* handled; a seek still to be handled will set it.
Follow(g, busy) ==
  \A e \in Table(g) : \A a \in e.slots \ busy :
    LET o == kfds[g][a].ofd
    IN  Sole(o) /\ Via(ProcMap[g], e.slots, {"lseek"}) = {} =>
          e.file.CurrPos + Writes(ProcMap[g], e) = Landing(ofds[o])

\* Two calls still to be handled may be handled in any order.
Commute(a, b, fds) ==
  /\ Apart(a, b)
  /\ {a.nr, b.nr} \in {{"lseek"}, {"lseek", "write"}} => fds[a.fd].ofd # fds[b.fd].ofd

\* What the kernel has done for the call, as far as positions have to do with it.
Positioned(r, table, fds) ==
  /\ r.nr = "write" => r.ret = 1
  /\ r.nr = "close" => fds[r.fd].ofd = None
  /\ r.nr \in {"open", "creat"} =>
       LET o == fds[r.ret].ofd
       IN  /\ o # None /\ (Follows(r) <=> ofds[o].write) /\ ~ofds[o].split
           /\ \A b \in Fd : fds[b].ofd = o => b = r.ret
           /\ \A e \in table : r.ret \in e.slots => e.slots = {r.ret}
           /\ Follows(r) =>
                /\ ofds[o].name = r.name /\ r.name \notin unlinked
                /\ Landing(ofds[o]) = IF "O_APPEND" \in r.flags THEN size[r.name] ELSE 0
  /\ r.nr \in Dups => fds[r.fd].ofd # None /\ fds[r.ret].ofd = fds[r.fd].ofd
  /\ r.nr = "lseek" =>
       LET o == fds[r.fd].ofd
       IN  o # None /\ (Sole(o) => Landing(ofds[o]) = r.ret /\ IntNonNegative(r.ret))

\* What the calls under way and the table of a process have in common with its
\* descriptors; what follows from it until a fork or an execve is handled.
StandsOn(g) ==
  /\ \A p, q \in Calls(g) : p # q => Commute(stop[p].regs, stop[q].regs, kfds[g])
  /\ \A q \in Calls(g) : Positioned(stop[q].regs, Table(q), kfds[g])
  /\ Live(g) => Grouped(Table(g), kfds[g], Busy(g)) /\ Follow(g, Busy(g))
  /\ stop[g].event = "exec" =>
       /\ Follow(g, {})
       /\ \A a, b \in Fd : Sole(kfds[g][a].ofd) /\ kfds[g][b].ofd = kfds[g][a].ofd => a = b
  /\ stop[g].event = "born" /\ group[g] = g => \A fd \in Fd : ~Sole(kfds[g][fd].ofd)

PositionKinds == {"append", "writers", "gone", "inherited", "far", "current", "race"}

PositionInv ==
  /\ OneOwner /\ LengthsAgree
  /\ ~Over /\ Without(PositionKinds) => OneWriter /\ \A g \in Pid : StandsOn(g)
==============================================================================
