---------------------------- MODULE ProfileSlower ----------------------------
(***************************************************************************)
(* The sampling profiler of tools/profile_slower.py.  trace_entry and      *)
(* trace_return keep entryinfo, the start time of the innermost traced     *)
(* call of each thread; the perf event do_perf_event samples a thread that *)
(* has been in such a call for DURATION_NS or more, interns its stacks in  *)
(* stack_traces with BPF_F_REUSE_STACKID and counts the key in counts.     *)
(* After sleep(duration) the tool reads counts and prints it.              *)
(*                                                                         *)
(* The counter update  val = counts.lookup_or_init(&key, &zero); *val += 1  *)
(* is a load and a store on the shared counts value: do_perf_event is      *)
(* split into Sample (up to the load) and Store (the store), and perf      *)
(* events of other CPUs interleave between the two.  The report reads      *)
(* counts while the perf event is still attached.                          *)
(*                                                                         *)
(* sampled and nsamp are ghost state: the (key, stack) pairs the samples   *)
(* took, and the number of samples per key.                                *)
(***************************************************************************)
EXTENDS Integers, FiniteSets, StackTraceMap

CONSTANTS
  Threads,        \* tgid_pid values of the sampled threads
  Tgid,           \* Tgid[t]: the process of t
  Comm,           \* Comm[t]: the task name of t (bpf_get_current_comm)
  PID,            \* the -p argument; -1 means all threads
  UStacks,        \* user stacks a thread can be sampled in
  KStacks,        \* kernel stacks a thread can be sampled in
  IPs,            \* instruction pointers a sample can see
  PAGE_OFFSET,    \* start of the kernel direct map
  USER_ONLY,      \* -U
  KERNEL_ONLY,    \* -K
  DURATION_NS,    \* the threshold compiled into do_perf_event
  ENTRY_MAX,      \* elements of entryinfo
  COUNTS_MAX,     \* elements of counts
  MaxTime,        \* bound on bpf_ktime_get_ns
  MaxDepth,       \* bound on the depth of traced calls per thread
  MaxTicks        \* bound on the perf events in a behaviour

ASSUME ProfileAssumption ==
  /\ Threads # {}
  /\ Tgid \in [Threads -> Nat] /\ PID \in Nat \cup {-1}
  /\ Comm \in [Threads -> STRING]
  /\ UStacks \cup KStacks = Stacks /\ UStacks \cap KStacks = {}
  /\ IPs \subseteq Nat /\ PAGE_OFFSET \in Nat
  /\ USER_ONLY \in BOOLEAN /\ KERNEL_ONLY \in BOOLEAN
  /\ ~(USER_ONLY /\ KERNEL_ONLY)
  /\ DURATION_NS \in Nat
  /\ ENTRY_MAX \in Nat \ {0} /\ COUNTS_MAX \in Nat \ {0}
  /\ MaxTime \in Nat /\ MaxDepth \in Nat \ {0} /\ MaxTicks \in Nat

Time == 0 .. MaxTime
Names == {Comm[t] : t \in Threads}
StackIds == Buckets \cup {-1, -EFAULT, -ENOMEM, -EEXIST}

\* struct key_t (kernel_ret_ip is never written and stays 0)
Key == [pid : Nat, name : Names, user_stack_id : StackIds,
        kernel_stack_id : StackIds, kernel_ip : IPs \cup {0}]
\* a sample between its load of *val and its store; val = -1 when idle
SampleState == [key : Key \cup {NoStack}, val : Int]

VARIABLES
  clock,      \* bpf_ktime_get_ns()
  entry,      \* entryinfo: entry[t] = start_ns, or -1 when t has none
  depth,      \* traced calls thread t is in (the traced program)
  stackmap,   \* stack_traces: Buckets -> Stacks \cup {NoStack}
  counts,     \* counts: a function from the keys present to their values
  pending,    \* pending[t]: do_perf_event of t between load and store
  reported,   \* whether the report has read counts
  report,     \* the counts the report read
  sampled,    \* ghost: [key, stack] pairs that samples counted
  nsamp,      \* ghost: number of samples taken per key
  nticks      \* perf events so far (bound)

vars == <<clock, entry, depth, stackmap, counts, pending, reported, report,
          sampled, nsamp, nticks>>

Idle == [key |-> NoStack, val |-> -1]

\* what a sample took: the counted key and the stacks the thread was in
Sampled == [key : Key, ustack : UStacks, kstack : KStacks \cup {NoStack}]

TypeOK ==
  /\ clock \in Time
  /\ entry \in [Threads -> Time \cup {-1}]
  /\ depth \in [Threads -> 0 .. MaxDepth]
  /\ stackmap \in [Buckets -> Stacks \cup {NoStack}]
  /\ DOMAIN counts \subseteq Key /\ \A k \in DOMAIN counts : counts[k] \in Nat
  /\ Cardinality(DOMAIN counts) <= COUNTS_MAX
  /\ pending \in [Threads -> SampleState]
  /\ reported \in BOOLEAN
  /\ DOMAIN report \subseteq Key
  /\ sampled \subseteq Sampled
  /\ DOMAIN nsamp = DOMAIN counts /\ \A k \in DOMAIN nsamp : nsamp[k] \in Nat
  /\ nticks \in 0 .. MaxTicks

Init ==
  /\ clock = 0
  /\ entry = [t \in Threads |-> -1]
  /\ depth = [t \in Threads |-> 0]
  /\ stackmap = EmptyStackMap
  /\ counts = <<>>
  /\ pending = [t \in Threads |-> Idle]
  /\ reported = FALSE
  /\ report = <<>>
  /\ sampled = {}
  /\ nsamp = <<>>
  /\ nticks = 0

Entries == {t \in Threads : entry[t] # -1}

\* Thread t calls a traced function: trace_entry with TGID_FILTER = 0, so
\* entryinfo.update stores start_ns unless the map is full.
Call(t) ==
  /\ ~reported
  /\ depth[t] < MaxDepth
  /\ depth' = [depth EXCEPT ![t] = @ + 1]
  /\ entry' = IF entry[t] # -1 \/ Cardinality(Entries) < ENTRY_MAX
                THEN [entry EXCEPT ![t] = clock] ELSE entry
  /\ UNCHANGED <<clock, stackmap, counts, pending, reported, report, sampled,
                 nsamp, nticks>>

\* Thread t returns from a traced call: trace_return deletes its entry.
Return(t) ==
  /\ ~reported
  /\ depth[t] > 0
  /\ depth' = [depth EXCEPT ![t] = @ - 1]
  /\ entry' = [entry EXCEPT ![t] = -1]
  /\ UNCHANGED <<clock, stackmap, counts, pending, reported, report, sampled,
                 nsamp, nticks>>

\* THREAD_FILTER: pid == PID under -p, 1 otherwise
Selected(t) == PID = -1 \/ Tgid[t] = PID

\* USER_STACK_GET and KERNEL_STACK_GET as -U / -K substitute them; a
\* sample in user mode has no kernel stack (ks = NoStack): -EFAULT.
UserStackGet(map, us) ==
  IF KERNEL_ONLY THEN [id |-> -1, map |-> map] ELSE GetStackId(map, us, TRUE)

KernelStackGet(map, ks) ==
  IF USER_ONLY THEN [id |-> -1, map |-> map]
  ELSE IF ks = NoStack THEN [id |-> -EFAULT, map |-> map]
  ELSE GetStackId(map, ks, TRUE)

\* the kernel ip fix: kept only when the kernel stack was got and ip is sane
KernelIp(kid, ip) == IF kid >= 0 /\ ip > PAGE_OFFSET THEN ip ELSE 0

\* lookup_or_init finds key in counts: its value is loaded.
Found(t, key) ==
  /\ key \in DOMAIN counts
  /\ pending' = [pending EXCEPT ![t] = [key |-> key, val |-> counts[key]]]
  /\ nsamp' = [nsamp EXCEPT ![key] = @ + 1]
  /\ UNCHANGED counts

\* lookup_or_init inserts key with the initial value v, which is loaded.
Inserted(t, key, v) ==
  /\ key \notin DOMAIN counts
  /\ counts' = [c \in DOMAIN counts \cup {key} |-> IF c = key THEN v ELSE counts[c]]
  /\ pending' = [pending EXCEPT ![t] = [key |-> key, val |-> v]]
  /\ nsamp' = [c \in DOMAIN nsamp \cup {key} |-> IF c = key THEN 1 ELSE nsamp[c]]

\* Variant of LookupOrInit that inserts a new key with the value one.
LookupOrInitOne(t, key) ==
  \/ Found(t, key)
  \/ Cardinality(DOMAIN counts) < COUNTS_MAX /\ Inserted(t, key, 1)
  \/ /\ key \notin DOMAIN counts /\ Cardinality(DOMAIN counts) >= COUNTS_MAX
     /\ UNCHANGED <<counts, pending, nsamp>>

\* Variant of LookupOrInit whose full-map test is off by one.
LookupOrInitOverfull(t, key) ==
  \/ Found(t, key)
  \/ Cardinality(DOMAIN counts) <= COUNTS_MAX /\ Inserted(t, key, 0)
  \/ /\ key \notin DOMAIN counts /\ Cardinality(DOMAIN counts) > COUNTS_MAX
     /\ UNCHANGED <<counts, pending, nsamp>>

\* val = counts.lookup_or_init(&key, &zero) in do_perf_event of thread t:
\* the value of key is loaded, or key is inserted with zero, or counts is
\* full and the implicit return 0 of the lookup_or_init macro ends the
\* handler, the sample uncounted.
LookupOrInit(t, key) ==
  \/ Found(t, key)
  \/ Cardinality(DOMAIN counts) < COUNTS_MAX /\ Inserted(t, key, 0)
  \/ /\ key \notin DOMAIN counts /\ Cardinality(DOMAIN counts) >= COUNTS_MAX
     /\ UNCHANGED <<counts, pending, nsamp>>

\* The perf event fires on the CPU running t: do_perf_event up to the load
\* of *val.  It returns early for a thread outside the filter, without an
\* entry, or in a call younger than DURATION_NS; otherwise it builds the
\* key, interns the stacks and calls lookup_or_init.
Sample(t) ==
  /\ ~reported
  /\ pending[t].val = -1
  /\ nticks < MaxTicks
  /\ nticks' = nticks + 1
  /\ \/ /\ \/ ~Selected(t)
           \/ entry[t] = -1
           \/ clock - entry[t] < DURATION_NS
        /\ UNCHANGED <<stackmap, counts, pending, sampled, nsamp>>
     \/ /\ Selected(t)
        /\ entry[t] # -1
        /\ clock - entry[t] >= DURATION_NS
        /\ \E us \in UStacks, ks \in KStacks \cup {NoStack}, ip \in IPs :
             LET u == UserStackGet(stackmap, us)
                 k == KernelStackGet(u.map, ks)
                 key == [pid |-> Tgid[t], name |-> Comm[t],
                         user_stack_id |-> u.id, kernel_stack_id |-> k.id,
                         kernel_ip |-> KernelIp(k.id, ip)]
             IN /\ stackmap' = k.map
                /\ LookupOrInit(t, key)
                /\ sampled' = IF key \in DOMAIN counts'
                                THEN sampled \cup {[key |-> key, ustack |-> us, kstack |-> ks]}
                                ELSE sampled
  /\ UNCHANGED <<clock, entry, depth, reported, report>>

\* The store of *val += 1: the value loaded plus one.
Store(t) ==
  /\ ~reported
  /\ pending[t].val # -1
  /\ counts' = [counts EXCEPT ![pending[t].key] = pending[t].val + 1]
  /\ pending' = [pending EXCEPT ![t] = Idle]
  /\ UNCHANGED <<clock, entry, depth, stackmap, reported, report, sampled,
                 nsamp, nticks>>

Tick ==
  /\ ~reported
  /\ clock < MaxTime
  /\ clock' = clock + 1
  /\ UNCHANGED <<entry, depth, stackmap, counts, pending, reported, report,
                 sampled, nsamp, nticks>>

\* sleep(duration) ends, or Ctrl-C: b.get_table("counts") is read.
Report ==
  /\ ~reported
  /\ reported' = TRUE
  /\ report' = counts
  /\ UNCHANGED <<clock, entry, depth, stackmap, counts, pending, sampled,
                 nsamp, nticks>>

\* The tool has printed its report and exited.
Exited ==
  /\ reported
  /\ UNCHANGED vars

Next ==
  \/ \E t \in Threads : Call(t) \/ Return(t) \/ Sample(t) \/ Store(t)
  \/ Tick
  \/ Report
  \/ Exited

Spec == Init /\ [][Next]_vars

-----------------------------------------------------------------------------
\* No key is ever counted more often than it was sampled: an interleaved
\* *val += 1 may lose an increment but never invent one.
CountsBoundedBySamples ==
  \A k \in DOMAIN counts : counts[k] <= nsamp[k]

\* When no increment of a key is in flight, its count is the number of
\* samples that counted it (spec: the counts sum to the samples taken).
CountsMatchSamples ==
  \A k \in DOMAIN counts :
    (\A t \in Threads : pending[t].val = -1 \/ pending[t].key # k)
      => counts[k] = nsamp[k]

\* Every count the report prints is positive: an aggregate exists only once
\* it has been observed.
ReportedCountsPositive ==
  \A k \in DOMAIN report : report[k] >= 1

\* The user stack id of a counted key still names the stack the samples of
\* that key were taken in (an id is never handed to a different stack).
StackIdNamesSampledStack ==
  \A x \in sampled :
    x.key.user_stack_id >= 0 => stackmap[x.key.user_stack_id] = x.ustack
=============================================================================
