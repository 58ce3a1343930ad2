---------------------------- MODULE MC_FuncSlower ----------------------------
(* Small instances of FuncSlower for TLC: three threads, two of them in     *)
(* process 1 and one in process 2.                                          *)
EXTENDS FuncSlowerLossy

CONSTANTS t1, t2, t3

\* t1 and t2 are threads of process 1, t3 a thread of process 2
MCTgid == [t \in Threads |-> IF t = t3 THEN 2 ELSE 1]
=============================================================================
