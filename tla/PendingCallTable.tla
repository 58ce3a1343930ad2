--------------------------- MODULE PendingCallTable ---------------------------
(***************************************************************************)
(* What the pending-call table promises, independent of how a BPF hash map *)
(* stores it: a partial function from thread to the one call it is in,    *)
(* with a fixed capacity.  recordEntry overwrites the thread's pending     *)
(* call (last entry wins) or adds one while the table has room; on a full  *)
(* table it fails and leaves the table alone, which is a stuttering step.  *)
(* resolveReturn removes the thread's pending call.  No step removes or    *)
(* rewrites the pending call of a thread other than the one acting.        *)
(***************************************************************************)
EXTENDS Naturals, FiniteSets

CONSTANTS
  Threads,     \* thread identities
  Funcs,       \* probe ids
  Time,        \* timestamps
  ENTRY_MAX    \* capacity of the table

VARIABLE table   \* the pending call of each thread that has one

PendingCall == [id : Funcs, start : Time]

TypeOK ==
  /\ DOMAIN table \subseteq Threads
  /\ \A t \in DOMAIN table : table[t] \in PendingCall
  /\ Cardinality(DOMAIN table) <= ENTRY_MAX

Init == table = [t \in {} |-> CHOOSE c \in PendingCall : TRUE]

\* recordEntry(t, c): overwrite t's pending call, or add one if there is room.
RecordEntry(t, c) ==
  /\ t \in DOMAIN table \/ Cardinality(DOMAIN table) < ENTRY_MAX
  /\ table' = [u \in DOMAIN table \cup {t} |-> IF u = t THEN c ELSE table[u]]

\* resolveReturn(t): remove t's pending call.
ResolveReturn(t) ==
  /\ t \in DOMAIN table
  /\ table' = [u \in DOMAIN table \ {t} |-> table[u]]

Next ==
  \E t \in Threads :
    \/ \E c \in PendingCall : RecordEntry(t, c)
    \/ ResolveReturn(t)

Spec == Init /\ [][Next]_table
=============================================================================
