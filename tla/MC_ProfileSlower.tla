-------------------------- MODULE MC_ProfileSlower --------------------------
(* Small instances of ProfileSlower for TLC: two threads of one process    *)
(* with the same task name, so that their samples can share a key, and    *)
(* two user stacks whose hashes fall in the same bucket.                   *)
EXTENDS ProfileSlower

CONSTANTS t1, t2, u1, u2, k1

\* no -p: every thread is sampled
MCAllThreads == -1
MCTgid == [t \in Threads |-> 1]
MCComm == [t \in Threads |-> "w"]
\* u1 and u2 collide in bucket 0 of the four buckets of a 3-element map
MCStackHash == [s \in Stacks |-> IF s = u1 THEN 0 ELSE IF s = u2 THEN 4 ELSE 1]
=============================================================================
