----------------------------- MODULE StackStore -----------------------------
(***************************************************************************)
(* The stack store on its own: any sequence of get_stackid calls on one    *)
(* stack_traces map, with the flags a tool passes.  funcslower calls       *)
(* get_stackid(ctx, 0) and get_stackid(ctx, BPF_F_USER_STACK)              *)
(* (REUSE = FALSE); profile_slower adds BPF_F_REUSE_STACKID (REUSE =       *)
(* TRUE).  given and failed are ghost state: every id a call returned      *)
(* with its stack, and every call that got an error with the number of     *)
(* elements in use at the time.                                            *)
(***************************************************************************)
EXTENDS StackTraceMap

CONSTANT REUSE    \* whether the calls pass BPF_F_REUSE_STACKID

ASSUME ReuseAssumption == REUSE \in BOOLEAN

VARIABLES
  stackmap,   \* stack_traces: Buckets -> Stacks \cup {NoStack}
  given,      \* ghost: [stack, id] for every id a call returned
  failed      \* ghost: [stack, err, inuse] for every call that failed

vars == <<stackmap, given, failed>>

Errors == {-EEXIST, -ENOMEM}

TypeOK ==
  /\ stackmap \in [Buckets -> Stacks \cup {NoStack}]
  /\ InUse(stackmap) <= STORAGE
  /\ given \subseteq [stack : Stacks, id : Buckets]
  /\ failed \subseteq [stack : Stacks, err : Errors, inuse : 0 .. STORAGE]

Init ==
  /\ stackmap = EmptyStackMap
  /\ given = {}
  /\ failed = {}

\* A BPF program captures stack s: key.user_stack_id = get_stackid(...).
Intern(s) ==
  LET r == GetStackId(stackmap, s, REUSE) IN
  /\ stackmap' = r.map
  /\ given' = IF r.id >= 0 THEN given \cup {[stack |-> s, id |-> r.id]}
              ELSE given
  /\ failed' = IF r.id < 0
               THEN failed \cup {[stack |-> s, err |-> r.id, inuse |-> InUse(stackmap)]}
               ELSE failed

Next == \E s \in Stacks : Intern(s)

Spec == Init /\ [][Next]_vars

-----------------------------------------------------------------------------
\* An id handed out keeps naming the stack it was handed out for: the
\* report's stack_traces.walk(id) prints the stack that was sampled (the
\* spec: identical content keeps its id for the store's lifetime).
IdsStable == \A g \in given : stackmap[g.id] = g.stack

\* get_stackid fails only when every element of the store is in use (the
\* spec: intern of new content returns Overflow once the store is full,
\* and a different stack gets a different id while capacity allows).
OverflowOnlyWhenFull == \A f \in failed : f.inuse = STORAGE
=============================================================================
