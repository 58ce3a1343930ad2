------------------------- MODULE ProfileSlowerProofs -------------------------
(***************************************************************************)
(* Proofs about profile_slower's sampling: the state stays well typed and  *)
(* counts never exceeds the samples taken, under every interleaving of the *)
(* load and the store of  *val += 1  on different CPUs.                    *)
(***************************************************************************)
EXTENDS ProfileSlower, FiniteSetTheorems, TLAPS

USE ProfileAssumption, StackMapAssumption, NBucketsAssumption


\* A sample in flight has loaded a value of a key present in counts, and
\* that value is below the samples of the key (its own included).
PendingBelowSamples ==
  \A t \in Threads :
    pending[t].val # -1 =>
      /\ pending[t].val \in Nat
      /\ pending[t].key \in DOMAIN counts
      /\ pending[t].val + 1 <= nsamp[pending[t].key]

\* The inductive invariant behind TypeOK and CountsBoundedBySamples.
IInv ==
  /\ TypeOK
  /\ IsFiniteSet(DOMAIN counts)
  /\ PendingBelowSamples
  /\ CountsBoundedBySamples

\* the shape of stack_traces
MapT == [Buckets -> Stacks \cup {NoStack}]

-----------------------------------------------------------------------------
\* get_stackid returns a bucket or -errno and leaves a map of buckets.
LEMMA GetStackIdType ==
  ASSUME NEW map \in MapT, NEW s \in Stacks, NEW r
  PROVE  /\ GetStackId(map, s, r).id \in Buckets \cup {-EEXIST, -ENOMEM}
         /\ GetStackId(map, s, r).map \in MapT
<1>1. BucketOf(s) \in Buckets
  BY DEF BucketOf, Buckets
<1>. QED  BY <1>1 DEF GetStackId, MapT

\* The key do_perf_event builds is a key_t, and the stack captures leave
\* a map of buckets.
LEMMA SampleKeyType ==
  ASSUME NEW t \in Threads, NEW map \in MapT, NEW us \in UStacks,
         NEW ks \in KStacks \cup {NoStack}, NEW ip \in IPs
  PROVE  LET u == UserStackGet(map, us)
             k == KernelStackGet(u.map, ks)
         IN  /\ [pid |-> Tgid[t], name |-> Comm[t],
                 user_stack_id |-> u.id, kernel_stack_id |-> k.id,
                 kernel_ip |-> KernelIp(k.id, ip)] \in Key
             /\ k.map \in MapT
<1> DEFINE u == UserStackGet(map, us)
<1> DEFINE k == KernelStackGet(u.map, ks)
<1>1. us \in Stacks /\ (ks # NoStack => ks \in Stacks)
  OBVIOUS
<1>2. u.id \in StackIds /\ u.map \in MapT
  BY <1>1, GetStackIdType DEF UserStackGet, StackIds
<1>3. k.id \in StackIds /\ k.map \in MapT
  BY <1>1, <1>2, GetStackIdType DEF KernelStackGet, StackIds
<1>4. KernelIp(k.id, ip) \in IPs \cup {0}
  BY DEF KernelIp
<1>5. Tgid[t] \in Nat /\ Comm[t] \in Names
  BY DEF Names
<1>. QED  BY <1>2, <1>3, <1>4, <1>5 DEF Key

-----------------------------------------------------------------------------
LEMMA InitIInv == Init => IInv
<1> SUFFICES ASSUME Init PROVE IInv
  OBVIOUS
<1>1. DOMAIN counts = {} /\ DOMAIN nsamp = {} /\ DOMAIN report = {}
  BY DEF Init
<1>2. pending \in [Threads -> SampleState]
  BY DEF Init, Idle, SampleState
<1>3. stackmap \in [Buckets -> Stacks \cup {NoStack}]
  BY DEF Init, EmptyStackMap
<1>4. Cardinality(DOMAIN counts) = 0 /\ IsFiniteSet(DOMAIN counts)
  BY <1>1, FS_EmptySet
<1>5. /\ clock \in Time /\ entry \in [Threads -> Time \cup {-1}]
      /\ depth \in [Threads -> 0 .. MaxDepth] /\ nticks \in 0 .. MaxTicks
      /\ reported \in BOOLEAN /\ sampled \subseteq Sampled
  <2>1. clock \in Time /\ nticks \in 0 .. MaxTicks
    BY ProfileAssumption DEF Init, Time
  <2>2. entry \in [Threads -> Time \cup {-1}]
    BY DEF Init
  <2>3. depth \in [Threads -> 0 .. MaxDepth]
    BY ProfileAssumption DEF Init
  <2>4. reported \in BOOLEAN /\ sampled \subseteq Sampled
    BY DEF Init
  <2>. QED  BY <2>1, <2>2, <2>3, <2>4
<1>6. /\ DOMAIN counts \subseteq Key /\ \A k \in DOMAIN counts : counts[k] \in Nat
      /\ Cardinality(DOMAIN counts) <= COUNTS_MAX
      /\ DOMAIN report \subseteq Key
      /\ DOMAIN nsamp = DOMAIN counts /\ \A k \in DOMAIN nsamp : nsamp[k] \in Nat
  BY <1>1, <1>4
<1>9. TypeOK
  BY <1>2, <1>3, <1>5, <1>6, Zenon DEF TypeOK
<1>7. PendingBelowSamples
  BY DEF Init, Idle, PendingBelowSamples
<1>8. CountsBoundedBySamples
  BY <1>1, Zenon DEF CountsBoundedBySamples
<1>. QED  BY <1>4, <1>9, <1>7, <1>8 DEF IInv

\* The steps of the traced program, the clock and the report touch none of
\* counts, pending and nsamp.
LEMMA CallIInv ==
  ASSUME IInv, NEW t \in Threads, Call(t)
  PROVE  IInv'
<1>1. entry' \in [Threads -> Time \cup {-1}] /\ depth' \in [Threads -> 0 .. MaxDepth]
  BY DEF IInv, TypeOK, Call
<1>. QED  BY <1>1 DEF Call, IInv, TypeOK, PendingBelowSamples,
                      CountsBoundedBySamples

LEMMA ReturnIInv ==
  ASSUME IInv, NEW t \in Threads, Return(t)
  PROVE  IInv'
<1>1. entry' \in [Threads -> Time \cup {-1}] /\ depth' \in [Threads -> 0 .. MaxDepth]
  BY DEF IInv, TypeOK, Return
<1>. QED  BY <1>1 DEF Return, IInv, TypeOK, PendingBelowSamples,
                      CountsBoundedBySamples

LEMMA TickIInv ==
  ASSUME IInv, Tick
  PROVE  IInv'
BY DEF Tick, IInv, TypeOK, Time, PendingBelowSamples, CountsBoundedBySamples

LEMMA ReportIInv ==
  ASSUME IInv, Report
  PROVE  IInv'
BY DEF Report, IInv, TypeOK, PendingBelowSamples, CountsBoundedBySamples

LEMMA StutterIInv ==
  ASSUME IInv, UNCHANGED vars
  PROVE  IInv'
BY DEF vars, IInv, TypeOK, PendingBelowSamples, CountsBoundedBySamples

\* The store of *val + 1 writes a value the key's samples already bound:
\* the loaded value was below them, whatever other CPUs stored meanwhile.
LEMMA StoreIInv ==
  ASSUME IInv, NEW t \in Threads, Store(t)
  PROVE  IInv'
<1> DEFINE k0 == pending[t].key
           v == pending[t].val
<1>1. v \in Nat /\ k0 \in DOMAIN counts /\ v + 1 <= nsamp[k0]
  BY DEF Store, IInv, PendingBelowSamples
<1>2. /\ DOMAIN counts' = DOMAIN counts
      /\ counts'[k0] = v + 1
      /\ \A k \in DOMAIN counts \ {k0} : counts'[k] = counts[k]
  BY <1>1 DEF Store
<1>3. pending' \in [Threads -> SampleState] /\ pending'[t].val = -1
      /\ \A u \in Threads \ {t} : pending'[u] = pending[u]
  BY DEF Store, IInv, TypeOK, Idle, SampleState
<1>4. TypeOK'
  BY <1>1, <1>2, <1>3 DEF Store, IInv, TypeOK
<1>5. PendingBelowSamples'
  BY <1>2, <1>3 DEF Store, IInv, PendingBelowSamples
<1>6. CountsBoundedBySamples'
  BY <1>1, <1>2 DEF Store, IInv, CountsBoundedBySamples
<1>. QED  BY <1>2, <1>4, <1>5, <1>6 DEF IInv

-----------------------------------------------------------------------------
\* The part of IInv about counts, the loads in flight and the samples.
CountsOK ==
  /\ DOMAIN counts \subseteq Key /\ \A k \in DOMAIN counts : counts[k] \in Nat
  /\ IsFiniteSet(DOMAIN counts) /\ Cardinality(DOMAIN counts) <= COUNTS_MAX
  /\ pending \in [Threads -> SampleState]
  /\ DOMAIN nsamp = DOMAIN counts /\ \A k \in DOMAIN nsamp : nsamp[k] \in Nat
  /\ PendingBelowSamples
  /\ CountsBoundedBySamples

\* A load of a key already present: the sample is counted in nsamp and
\* the value loaded is the current count, below the samples.
LEMMA FoundOK ==
  ASSUME CountsOK, NEW t \in Threads, NEW key \in Key, Found(t, key)
  PROVE  CountsOK'
<1>1. key \in DOMAIN counts /\ counts[key] \in Nat /\ nsamp[key] \in Nat
      /\ counts[key] <= nsamp[key]
  BY DEF Found, CountsOK, CountsBoundedBySamples
<1>2. /\ DOMAIN nsamp' = DOMAIN nsamp
      /\ nsamp'[key] = nsamp[key] + 1
      /\ \A k \in DOMAIN nsamp \ {key} : nsamp'[k] = nsamp[k]
  BY <1>1 DEF Found, CountsOK
<1>3. /\ pending' \in [Threads -> SampleState]
      /\ pending'[t] = [key |-> key, val |-> counts[key]]
      /\ \A u \in Threads \ {t} : pending'[u] = pending[u]
  BY <1>1 DEF Found, CountsOK, SampleState
<1>4. \A k \in DOMAIN nsamp : nsamp[k] <= nsamp'[k] /\ nsamp'[k] \in Nat
  BY <1>1, <1>2 DEF CountsOK
<1>5. PendingBelowSamples'
  BY <1>1, <1>2, <1>3, <1>4 DEF Found, CountsOK, PendingBelowSamples
<1>6. CountsBoundedBySamples'
  BY <1>1, <1>2, <1>4 DEF Found, CountsOK, CountsBoundedBySamples
<1>. QED  BY <1>2, <1>3, <1>4, <1>5, <1>6 DEF Found, CountsOK

\* An insert with zero: the new key has one sample and a load of zero in
\* flight; the other keys, and the loads of other threads, are untouched.
LEMMA InsertedOK ==
  ASSUME CountsOK, NEW t \in Threads, NEW key \in Key,
         Cardinality(DOMAIN counts) < COUNTS_MAX, Inserted(t, key, 0)
  PROVE  CountsOK'
<1>1. /\ key \notin DOMAIN counts
      /\ DOMAIN counts' = DOMAIN counts \cup {key}
      /\ counts'[key] = 0 /\ nsamp'[key] = 1
      /\ DOMAIN nsamp' = DOMAIN counts \cup {key}
      /\ \A k \in DOMAIN counts : counts'[k] = counts[k] /\ nsamp'[k] = nsamp[k]
  BY DEF Inserted, CountsOK
<1>2. /\ IsFiniteSet(DOMAIN counts')
      /\ Cardinality(DOMAIN counts') = Cardinality(DOMAIN counts) + 1
  BY <1>1, FS_AddElement DEF CountsOK
<1>3. Cardinality(DOMAIN counts) \in Nat
  BY FS_CardinalityType DEF CountsOK
<1>4. /\ pending' \in [Threads -> SampleState]
      /\ pending'[t] = [key |-> key, val |-> 0]
      /\ \A u \in Threads \ {t} : pending'[u] = pending[u]
  BY DEF Inserted, CountsOK, SampleState
<1>5. PendingBelowSamples'
  BY <1>1, <1>4 DEF CountsOK, PendingBelowSamples
<1>6. CountsBoundedBySamples'
  BY <1>1 DEF CountsOK, CountsBoundedBySamples
<1>. QED  BY <1>1, <1>2, <1>3, <1>4, <1>5, <1>6 DEF CountsOK

\* lookup_or_init, in each of its three outcomes, keeps CountsOK.
LEMMA LookupOrInitOK ==
  ASSUME CountsOK, NEW t \in Threads, NEW key \in Key, LookupOrInit(t, key)
  PROVE  CountsOK'
<1>1. CASE Found(t, key)
  BY <1>1, FoundOK
<1>2. CASE Cardinality(DOMAIN counts) < COUNTS_MAX /\ Inserted(t, key, 0)
  BY <1>2, InsertedOK
<1>3. CASE UNCHANGED <<counts, pending, nsamp>>
  BY <1>3 DEF CountsOK, PendingBelowSamples, CountsBoundedBySamples
<1>. QED  BY <1>1, <1>2, <1>3 DEF LookupOrInit

LEMMA IInvCountsOK == IInv => CountsOK
BY DEF IInv, TypeOK, CountsOK

\* do_perf_event up to the load: an early return changes nothing but the
\* tick count; otherwise the key is a key_t, the captures leave a map of
\* buckets and lookup_or_init keeps CountsOK.
LEMMA SampleIInv ==
  ASSUME IInv, NEW t \in Threads, Sample(t)
  PROVE  IInv'
<1>1. nticks' \in 0 .. MaxTicks
  BY DEF Sample, IInv, TypeOK
<1>2. CASE UNCHANGED <<stackmap, counts, pending, sampled, nsamp>>
  BY <1>1, <1>2 DEF Sample, IInv, TypeOK, PendingBelowSamples,
                    CountsBoundedBySamples
<1>3. CASE \E us \in UStacks, ks \in KStacks \cup {NoStack}, ip \in IPs :
             LET u == UserStackGet(stackmap, us)
                 k == KernelStackGet(u.map, ks)
                 key == [pid |-> Tgid[t], name |-> Comm[t],
                         user_stack_id |-> u.id, kernel_stack_id |-> k.id,
                         kernel_ip |-> KernelIp(k.id, ip)]
             IN /\ stackmap' = k.map
                /\ LookupOrInit(t, key)
                /\ sampled' = IF key \in DOMAIN counts'
                                THEN sampled \cup {[key |-> key, ustack |-> us, kstack |-> ks]}
                                ELSE sampled
  <2> DEFINE U(us) == UserStackGet(stackmap, us)
             K(us, ks) == KernelStackGet(U(us).map, ks)
             KY(us, ks, ip) ==
               [pid |-> Tgid[t], name |-> Comm[t],
                user_stack_id |-> U(us).id, kernel_stack_id |-> K(us, ks).id,
                kernel_ip |-> KernelIp(K(us, ks).id, ip)]
  <2>1. PICK us \in UStacks, ks \in KStacks \cup {NoStack}, ip \in IPs :
          /\ stackmap' = K(us, ks).map
          /\ LookupOrInit(t, KY(us, ks, ip))
          /\ sampled' = IF KY(us, ks, ip) \in DOMAIN counts'
                          THEN sampled \cup {[key |-> KY(us, ks, ip),
                                              ustack |-> us, kstack |-> ks]}
                          ELSE sampled
    BY <1>3
  <2>2. KY(us, ks, ip) \in Key /\ K(us, ks).map \in MapT
    BY SampleKeyType DEF IInv, TypeOK, MapT
  <2>3. CountsOK'
    BY <2>1, <2>2, LookupOrInitOK, IInvCountsOK
  <2>4. sampled' \subseteq Sampled
    <3>1. sampled \subseteq Sampled
      BY DEF IInv, TypeOK
    <3>2. [key |-> KY(us, ks, ip), ustack |-> us, kstack |-> ks] \in Sampled
      BY <2>2 DEF Sampled
    <3>. QED  BY <2>1, <3>1, <3>2
  <2>5. stackmap' \in [Buckets -> Stacks \cup {NoStack}]
    BY <2>1, <2>2 DEF MapT
  <2>. QED  BY <1>1, <2>3, <2>4, <2>5 DEF Sample, IInv, TypeOK, CountsOK
<1>. QED  BY <1>2, <1>3 DEF Sample

LEMMA NextIInv == IInv /\ [Next]_vars => IInv'
<1> SUFFICES ASSUME IInv, [Next]_vars PROVE IInv'
  OBVIOUS
<1>1. CASE \E t \in Threads : Call(t) \/ Return(t) \/ Sample(t) \/ Store(t)
  BY <1>1, CallIInv, ReturnIInv, SampleIInv, StoreIInv
<1>2. CASE Tick
  BY <1>2, TickIInv
<1>3. CASE Report
  BY <1>3, ReportIInv
<1>4. CASE Exited \/ UNCHANGED vars
  BY <1>4, StutterIInv DEF Exited
<1>. QED  BY <1>1, <1>2, <1>3, <1>4 DEF Next

\* profile_slower's state stays well typed for every value of the
\* constants: keys are key_t values built from the stack ids get_stackid
\* returns, counts never holds more than COUNTS_MAX keys (lookup_or_init
\* inserts only below max_entries) and every count is a natural number.
THEOREM TypeCorrect == Spec => []TypeOK
<1>1. Spec => []IInv
  BY InitIInv, NextIInv, PTL DEF Spec
<1>. QED  BY <1>1, PTL DEF IInv

\* Under every interleaving of do_perf_event on different CPUs, where the
\* load of *val and the store of *val + 1 are separate steps, no key of
\* counts is ever counted more often than it was sampled: a racing
\* increment may be lost but never adds a count.
THEOREM CountsNeverExceedSamples == Spec => []CountsBoundedBySamples
<1>1. Spec => []IInv
  BY InitIInv, NextIInv, PTL DEF Spec
<1>. QED  BY <1>1, PTL DEF IInv
=============================================================================
