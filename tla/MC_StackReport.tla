--------------------------- MODULE MC_StackReport ---------------------------
(* Small instances of StackReport for TLC: two user stacks that collide in *)
(* the two buckets of a 2-element stack_traces, and one kernel stack.      *)
EXTENDS StackReport, TLC

CONSTANTS u1, u2, k1

MCStackHash == (u1 :> 0) @@ (u2 :> 2) @@ (k1 :> 1)

\* every combination of -U, -K and -f
AllArgs == [user : BOOLEAN, kernel : BOOLEAN, folded : BOOLEAN]

\* the combinations without -U and -K together
SingleScopeArgs == {o \in AllArgs : ~(o.user /\ o.kernel)}

\* the combinations without -U and -K together, and -K only folded
PrintableArgs == {o \in SingleScopeArgs : o.kernel => o.folded}

\* -U and -K together, folded or not
BothScopesArgs == {o \in AllArgs : o.user /\ o.kernel}

\* -K alone in the default tree output
KernelTreeArgs == {[user |-> FALSE, kernel |-> TRUE, folded |-> FALSE]}
=============================================================================
