------------------------------ MODULE MCTracer -------------------------------
(* Constants of the runs of Tracer.  In the runs of the life cycle no file  *)
(* is followed: the tables stay empty, and the one system call that returns *)
(* is a write that has failed.                                              *)
EXTENDS TracerLife, Integers

NoFile == {}

FailedWrite == {[nr |-> "write", ret |-> 0, fd |-> 0]}

(* Every exit status is the last number of Pid.  Where SuddenDeath lets the *)
(* loop read one as a pid, that number is outside TaskPid.                  *)
LastPid == [code \in Codes |-> CHOOSE p \in Pid : \A q \in Pid : q <= p]
==============================================================================
