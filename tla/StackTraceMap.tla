---------------------------- MODULE StackTraceMap ----------------------------
(***************************************************************************)
(* The BPF_STACK_TRACE map stack_traces and its helper get_stackid, as the *)
(* tools declare and call them (funcslower.py: BPF_STACK_TRACE(...,2048),  *)
(* get_stackid(ctx, flags); profile_slower.py: STACK_STORAGE_SIZE and the  *)
(* flag BPF_F_REUSE_STACKID).  The map is an array of buckets indexed by   *)
(* the hash of the stack's addresses masked to the bucket count (the       *)
(* smallest power of two >= the size), backed by a pool of STORAGE         *)
(* preallocated elements.  A stack is a model value: its addresses matter  *)
(* only through equality and through StackHash.                            *)
(***************************************************************************)
EXTENDS Integers, FiniteSets

CONSTANTS
  Stacks,      \* the distinct raw stacks the threads can be sampled in
  StackHash,   \* StackHash[s]: jhash of the addresses of s
  STORAGE,     \* max_entries of stack_traces
  NoStack      \* content of an empty bucket

ASSUME StackMapAssumption ==
  /\ Stacks # {} /\ NoStack \notin Stacks
  /\ StackHash \in [Stacks -> Nat]
  /\ STORAGE \in Nat \ {0}

\* errno values returned by get_stackid, negated
EFAULT == 14
ENOMEM == 12
EEXIST == 17

\* the number of buckets: the smallest power of two that is >= STORAGE
NBuckets == CHOOSE n \in {2^k : k \in 0 .. STORAGE} : n >= STORAGE /\ n < 2 * STORAGE

\* The power of two exists and is positive, so every stack has a bucket.
ASSUME NBucketsAssumption == NBuckets \in Nat \ {0}

Buckets == 0 .. (NBuckets - 1)

\* id = hash & (n_buckets - 1)
BucketOf(s) == StackHash[s] % NBuckets

\* elements of the pool in use: one per occupied bucket
InUse(map) == Cardinality({b \in Buckets : map[b] # NoStack})

EmptyStackMap == [b \in Buckets |-> NoStack]

\* Variant of GetStackId that overwrites a colliding bucket whatever the
\* flags say.
GetStackIdAlwaysReuse(map, s, reuse) ==
  LET b == BucketOf(s) IN
  IF map[b] = s THEN [id |-> b, map |-> map]
  ELSE IF InUse(map) >= STORAGE THEN [id |-> -ENOMEM, map |-> map]
  ELSE [id |-> b, map |-> [map EXCEPT ![b] = s]]

\* Variant of GetStackId whose pool-empty test is off by one.
GetStackIdOverfull(map, s, reuse) ==
  LET b == BucketOf(s) IN
  IF map[b] = s THEN [id |-> b, map |-> map]
  ELSE IF map[b] # NoStack /\ ~reuse THEN [id |-> -EEXIST, map |-> map]
  ELSE IF InUse(map) > STORAGE THEN [id |-> -ENOMEM, map |-> map]
  ELSE [id |-> b, map |-> [map EXCEPT ![b] = s]]

\* The outcome of get_stackid for stack s on the map map: the id (or the
\* negated errno) and the map afterwards.  A bucket holding s gives its id;
\* a bucket holding another stack gives -EEXIST unless reuse is set; else a
\* new element is popped from the pool, -ENOMEM if none is left, and the
\* bucket is (re)filled with s, the old element going back to the pool.
GetStackId(map, s, reuse) ==
  LET b == BucketOf(s) IN
  IF map[b] = s THEN [id |-> b, map |-> map]
  ELSE IF map[b] # NoStack /\ ~reuse THEN [id |-> -EEXIST, map |-> map]
  ELSE IF InUse(map) >= STORAGE THEN [id |-> -ENOMEM, map |-> map]
  ELSE [id |-> b, map |-> [map EXCEPT ![b] = s]]
=============================================================================
