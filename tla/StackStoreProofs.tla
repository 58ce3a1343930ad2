-------------------------- MODULE StackStoreProofs --------------------------
(***************************************************************************)
(* Proofs about the stack store: the map is well typed and its pool never *)
(* hands out more than STORAGE elements, with or without                   *)
(* BPF_F_REUSE_STACKID; with the flags funcslower passes (REUSE = FALSE),  *)
(* an id get_stackid has returned keeps naming its stack.                  *)
(***************************************************************************)
EXTENDS StackStore, FiniteSetTheorems, TLAPS

USE StackMapAssumption, NBucketsAssumption, ReuseAssumption

\* IdsStable with the shape of the state it talks about.
IInv ==
  /\ stackmap \in [Buckets -> Stacks \cup {NoStack}]
  /\ given \subseteq [stack : Stacks, id : Buckets]
  /\ IdsStable

\* get_stackid's id is the stack's bucket.
LEMMA BucketInRange ==
  ASSUME NEW s \in Stacks
  PROVE  BucketOf(s) \in Buckets
BY DEF BucketOf, Buckets

LEMMA InitIInv == Init => IInv
BY DEF Init, IInv, IdsStable, EmptyStackMap

\* Without BPF_F_REUSE_STACKID, get_stackid writes only an empty bucket,
\* so no id already returned is re-bound.
LEMMA NextIInv ==
  ASSUME ~REUSE
  PROVE  IInv /\ [Next]_vars => IInv'
<1> SUFFICES ASSUME IInv, [Next]_vars PROVE IInv'
  OBVIOUS
<1>1. CASE UNCHANGED vars
  BY <1>1 DEF vars, IInv, IdsStable
<1>2. CASE Next
  <2>1. PICK s \in Stacks : Intern(s)
    BY <1>2 DEF Next
  <2> DEFINE b == BucketOf(s)
  <2>2. b \in Buckets
    BY BucketInRange
  <2>7. b >= 0
    BY <2>2 DEF Buckets
  <2>3. CASE stackmap[b] = s
    <3>0. GetStackId(stackmap, s, REUSE) = [id |-> b, map |-> stackmap]
      BY <2>3 DEF GetStackId
    <3>1. stackmap' = stackmap /\ given' = given \cup {[stack |-> s, id |-> b]}
      BY <2>1, <3>0, <2>7 DEF Intern
    <3> QED
      BY <3>1, <2>2, <2>3 DEF IInv, IdsStable
  <2>4. CASE stackmap[b] # s /\ stackmap[b] # NoStack
    <3>1. stackmap' = stackmap /\ given' = given
      BY <2>1, <2>4 DEF Intern, GetStackId, EEXIST
    <3> QED
      BY <3>1 DEF IInv, IdsStable
  <2>5. CASE stackmap[b] = NoStack /\ InUse(stackmap) >= STORAGE
    <3>1. stackmap' = stackmap /\ given' = given
      BY <2>1, <2>5, StackMapAssumption DEF Intern, GetStackId, ENOMEM
    <3> QED
      BY <3>1 DEF IInv, IdsStable
  <2>6. CASE stackmap[b] = NoStack /\ ~(InUse(stackmap) >= STORAGE)
    <3>0. GetStackId(stackmap, s, REUSE)
          = [id |-> b, map |-> [stackmap EXCEPT ![b] = s]]
      BY <2>6 DEF GetStackId
    <3>1. stackmap' = [stackmap EXCEPT ![b] = s]
          /\ given' = given \cup {[stack |-> s, id |-> b]}
      BY <2>1, <3>0, <2>7 DEF Intern
    <3>2. \A g \in given : g.id # b
      BY <2>6 DEF IInv, IdsStable
    <3> QED
      BY <3>1, <3>2, <2>2 DEF IInv, IdsStable
  <2> QED
    BY <2>3, <2>4, <2>5, <2>6
<1> QED
  BY <1>1, <1>2

-----------------------------------------------------------------------------
\* The buckets are finitely many, so the elements in use can be counted.
LEMMA InUseType ==
  ASSUME NEW map
  PROVE  /\ IsFiniteSet({b \in Buckets : map[b] # NoStack})
         /\ InUse(map) \in Nat
<1>1. IsFiniteSet(Buckets)
  BY FS_Interval DEF Buckets
<1>2. IsFiniteSet({b \in Buckets : map[b] # NoStack})
  BY <1>1, FS_Subset
<1>. QED  BY <1>2, FS_CardinalityType DEF InUse

\* Filling bucket b takes one more element from the pool if b was empty,
\* and none if it held a stack (the old element goes back to the pool).
LEMMA InUseWrite ==
  ASSUME NEW map \in [Buckets -> Stacks \cup {NoStack}], NEW b \in Buckets,
         NEW s \in Stacks
  PROVE  InUse([map EXCEPT ![b] = s]) =
           IF map[b] = NoStack THEN InUse(map) + 1 ELSE InUse(map)
<1> DEFINE O == {x \in Buckets : map[x] # NoStack}
<1>1. {x \in Buckets : [map EXCEPT ![b] = s][x] # NoStack} = O \cup {b}
  BY DEF Buckets
<1>2. IsFiniteSet(O)
  BY InUseType
<1>3. b \in O <=> map[b] # NoStack
  OBVIOUS
<1>. QED  BY <1>1, <1>2, <1>3, FS_AddElement DEF InUse

\* The four outcomes of get_stackid in Intern, each with the state after it.
LEMMA InternCases ==
  ASSUME TypeOK, NEW s \in Stacks, Intern(s)
  PROVE  LET b == BucketOf(s) IN
         /\ b \in Buckets
         /\ \/ /\ stackmap[b] = s
               /\ stackmap' = stackmap
               /\ given' = given \cup {[stack |-> s, id |-> b]}
               /\ failed' = failed
            \/ /\ stackmap[b] # s /\ stackmap[b] # NoStack /\ ~REUSE
               /\ stackmap' = stackmap /\ given' = given
               /\ failed' = failed \cup {[stack |-> s, err |-> -EEXIST,
                                          inuse |-> InUse(stackmap)]}
            \/ /\ stackmap[b] # s /\ (stackmap[b] = NoStack \/ REUSE)
               /\ InUse(stackmap) >= STORAGE
               /\ stackmap' = stackmap /\ given' = given
               /\ failed' = failed \cup {[stack |-> s, err |-> -ENOMEM,
                                          inuse |-> InUse(stackmap)]}
            \/ /\ stackmap[b] # s /\ (stackmap[b] = NoStack \/ REUSE)
               /\ InUse(stackmap) < STORAGE
               /\ stackmap' = [stackmap EXCEPT ![b] = s]
               /\ given' = given \cup {[stack |-> s, id |-> b]}
               /\ failed' = failed
<1> DEFINE b == BucketOf(s)
<1>0. b \in Buckets
  BY BucketInRange
<1>1. b \in Int /\ b >= 0
  BY <1>0 DEF Buckets
<1>2. InUse(stackmap) \in Nat
  BY InUseType
<1>3. CASE stackmap[b] = s
  <2>1. GetStackId(stackmap, s, REUSE) = [id |-> b, map |-> stackmap]
    BY <1>3 DEF GetStackId
  <2>2. /\ stackmap' = stackmap
        /\ given' = given \cup {[stack |-> s, id |-> b]}
        /\ failed' = failed
    BY <1>1, <2>1 DEF Intern
  <2>. QED  BY <1>0, <1>3, <2>2, Zenon
<1>4. CASE stackmap[b] # s /\ stackmap[b] # NoStack /\ ~REUSE
  <2>1. /\ stackmap' = stackmap /\ given' = given
        /\ failed' = failed \cup {[stack |-> s, err |-> -EEXIST,
                                   inuse |-> InUse(stackmap)]}
    BY <1>4 DEF Intern, GetStackId, EEXIST
  <2>. QED  BY <1>0, <1>4, <2>1, Zenon
<1>5. CASE stackmap[b] # s /\ (stackmap[b] = NoStack \/ REUSE)
           /\ InUse(stackmap) >= STORAGE
  <2>1. /\ stackmap' = stackmap /\ given' = given
        /\ failed' = failed \cup {[stack |-> s, err |-> -ENOMEM,
                                   inuse |-> InUse(stackmap)]}
    BY <1>5 DEF Intern, GetStackId, ENOMEM
  <2>. QED  BY <1>0, <1>5, <2>1, Zenon
<1>6. CASE stackmap[b] # s /\ (stackmap[b] = NoStack \/ REUSE)
           /\ InUse(stackmap) < STORAGE
  <2>1. GetStackId(stackmap, s, REUSE)
          = [id |-> b, map |-> [stackmap EXCEPT ![b] = s]]
    BY <1>2, <1>6 DEF GetStackId
  <2>2. /\ stackmap' = [stackmap EXCEPT ![b] = s]
        /\ given' = given \cup {[stack |-> s, id |-> b]}
        /\ failed' = failed
    BY <1>1, <2>1 DEF Intern
  <2>. QED  BY <1>0, <1>6, <2>2, Zenon
<1>. QED  BY <1>0, <1>2, <1>3, <1>4, <1>5, <1>6

LEMMA InitTypeOK == Init => TypeOK
<1> SUFFICES ASSUME Init PROVE TypeOK
  OBVIOUS
<1>1. {b \in Buckets : stackmap[b] # NoStack} = {}
  BY DEF Init, EmptyStackMap
<1>2. InUse(stackmap) = 0
  BY <1>1, FS_EmptySet DEF InUse
<1>. QED  BY <1>2 DEF Init, EmptyStackMap, TypeOK

LEMMA NextTypeOK == TypeOK /\ [Next]_vars => TypeOK'
<1> SUFFICES ASSUME TypeOK, [Next]_vars PROVE TypeOK'
  OBVIOUS
<1>1. CASE UNCHANGED vars
  BY <1>1 DEF vars, TypeOK, InUse
<1>2. CASE Next
  <2>1. PICK s \in Stacks : Intern(s)
    BY <1>2 DEF Next
  <2> DEFINE b == BucketOf(s)
  <2>2. InUse(stackmap) \in Nat /\ InUse(stackmap) <= STORAGE
    BY InUseType DEF TypeOK
  <2>3. [stack |-> s, err |-> -EEXIST, inuse |-> InUse(stackmap)]
          \in [stack : Stacks, err : Errors, inuse : 0 .. STORAGE]
    /\ [stack |-> s, err |-> -ENOMEM, inuse |-> InUse(stackmap)]
          \in [stack : Stacks, err : Errors, inuse : 0 .. STORAGE]
    BY <2>2 DEF Errors
  <2>4. CASE stackmap' = stackmap
    <3>1. InUse(stackmap') = InUse(stackmap)
      BY <2>4
    <3>. QED  BY <2>1, <2>3, <2>4, <3>1, InternCases DEF TypeOK
  <2>5. CASE stackmap' = [stackmap EXCEPT ![b] = s]
             /\ InUse(stackmap) < STORAGE
             /\ given' = given \cup {[stack |-> s, id |-> b]}
             /\ failed' = failed
    <3>1. b \in Buckets
      BY BucketInRange
    <3>2. InUse([stackmap EXCEPT ![b] = s]) =
            IF stackmap[b] = NoStack THEN InUse(stackmap) + 1
            ELSE InUse(stackmap)
      BY <3>1, InUseWrite DEF TypeOK
    <3>3. InUse(stackmap') <= STORAGE
      BY <2>2, <2>5, <3>2
    <3>. QED  BY <2>5, <3>1, <3>3 DEF TypeOK
  <2>. QED  BY <2>1, <2>4, <2>5, InternCases
<1>. QED  BY <1>1, <1>2

\* Whatever flags a tool passes, every get_stackid call leaves the map with
\* no more buckets in use than stack_traces has elements, and returns a
\* bucket or -EEXIST/-ENOMEM: the pool of STORAGE elements is never
\* overdrawn, with BPF_F_REUSE_STACKID (profile_slower) or without it.
THEOREM TypeCorrect == Spec => []TypeOK
BY InitTypeOK, NextTypeOK, PTL DEF Spec

\* With the flags funcslower passes to get_stackid (0 and
\* BPF_F_USER_STACK), every id a call returned names, for the rest of the
\* run, the stack it was returned for: stack_traces.walk(id) in
\* print_stack shows the sampled stack.
THEOREM IdsStableWithoutReuse ==
  ASSUME ~REUSE
  PROVE  Spec => []IdsStable
<1>1. Init => IInv
  BY InitIInv
<1>2. IInv /\ [Next]_vars => IInv'
  BY NextIInv
<1>3. IInv => IdsStable
  BY DEF IInv
<1> QED
  BY <1>1, <1>2, <1>3, PTL DEF Spec

=============================================================================
