# TLA+ models of funcslower and profile_slower

This directory models the two BCC tools of this repository:

- `src/tools/funcslower.py` is a latency tracer. It prints every traced
  function call that took at least a threshold.
- `src/tools/profile_slower.py` is a sampling profiler. It counts the stacks
  of threads that have been in a traced call for at least a threshold.

Each tool is a Python front end around a BPF program, which is the C text
inside the Python file. The state that matters lives in BPF maps shared by
all CPUs. The BPF programs run concurrently on every CPU, and the Python
side reads the maps while they run. The models are about that shared state
and those interleavings.

## 1. Inventory

### Parts and how they interact

| Part | Code | State | Operations |
|---|---|---|---|
| PendingCallTable | `entryinfo` (both tools) | thread → {probe id, start_ns} in a preallocated hash map | `update` in trace_entry; `lookup`/`delete` in trace_return; `lookup` in do_perf_event |
| StackStore | `stack_traces`, `get_stackid` | buckets of interned stacks, a fixed pool | `get_stackid` (flags 0 in funcslower, `BPF_F_REUSE_STACKID` in profile_slower) |
| LatencyTracer | funcslower `trace_entry`, `trace_return`, `events` | perf ring per CPU | entry hook, return hook, `perf_submit`, `perf_buffer_poll`/`print_event` |
| SamplingProfiler | profile_slower `do_perf_event`, `counts` | key → count | timer tick: filter, duration test, stack ids, `lookup_or_init`, `(*val)++`; the report reads `counts` after `sleep(duration)` |
| Renderer | `print_event`, `print_stack`, the report loop | none | tree and folded output, `[Missed ...]` placeholders, missing-stack warning |
| Configuration | argparse and `bpf_text.replace` | none | fixes DURATION_NS, TGID_FILTER, THREAD_FILTER and USER/KERNEL_STACK_GET |

The data flows like this:

- The instrumentation host (kprobes, uprobes, the perf timer) calls the BPF
  programs on the CPU of the thread that hit the hook.
- In funcslower, the programs use `entryinfo`, and `trace_return` writes
  records into the perf ring.
- In profile_slower, the programs use `entryinfo`, `stack_traces` and
  `counts`. The report reads `counts` once at the end.

### What makes it hard

- **Concurrent programs on shared maps.** A BPF hash map gives atomic
  single-element update, lookup and delete. Nothing more is atomic.
  - In funcslower, `trace_return` deletes its entry and then keeps reading
    the element through the pointer `entryp` (funcslower.py:154-162). The map
    is preallocated, so the element goes back to the free list at once. A
    `trace_entry` on another CPU can take it in between.
  - In profile_slower, `(*val)++` (profile_slower.py:260) is a load and a
    store on a value that every CPU shares.
- **Fixed capacity everywhere.**
  - `entryinfo` may be full, and then `update` fails silently.
  - The perf ring may be full, and then the record is dropped.
  - `counts` may be full, and then `lookup_or_init` returns from the
    program.
  - The stack pool may be empty, and then `get_stackid` returns `-ENOMEM`.
- **Nested calls.** A nested traced call overwrites the thread's entry.
  Only innermost calls may be reported.
- **Stack id collisions.** Without `REUSE`, a collision gives `-EEXIST`.
  With `REUSE`, it evicts the bucket's stack, so an id already counted names
  another stack.
- **The reporter runs concurrently with sampling.** The report reads
  `counts` while the perf event is still attached.

## 2. Modules

| Module | Models | State (VARIABLES) | Actions |
|---|---|---|---|
| `FuncSlower` | funcslower BPF programs, perf ring, poll loop | `clock`, `slot` (the ENTRY_MAX elements of entryinfo, each with key, in-use bit and entry_t), `ret` (trace_return between delete and perf_submit), `buf`, `lost`; ghost: `calls`, `done`, `out`, `ncalls` | `Call` (trace_f → trace_entry), `Return` (trace_return up to the threshold test), `ReturnEmit` (the rest of trace_return), `Poll`, `Tick`, `BoundReached` |
| `PendingCallTable` | the contract of the pending-call table (the spec's `recordEntry`/`resolveReturn`), abstract | `table`: thread ⇀ pending call | `RecordEntry(t, c)`, `ResolveReturn(t)` |
| `FuncSlowerLossy` | `FuncSlower` plus a missed return probe (`attach_kretprobe` without `maxactive`) | as `FuncSlower` | `LostReturn(t)`: the frame pops, `trace_return` never runs |
| `StackReport` | funcslower's `-U`/`-K`/`-f` options, the `USER_STACK_GET`/`KERNEL_STACK_GET` substitution, the stack ids of `trace_return`, and `print_stack` | `opts`, `stackmap`, `buf`, `out` (each printed record with its rendered lines) | `Submit(us, ks)` (the stack-id part of a slow `trace_return`), `PrintEvent` (under `-K` in tree mode, it prints nothing of the stack once `aksym` raises `AttributeError` on the first kernel frame), `PrintLatencyOnly`, `Finished` |
| `StackTraceMap` | `BPF_STACK_TRACE` and `get_stackid` | (operators only) | `GetStackId(map, s, reuse)` returns the id or `-errno`, and the new map |
| `ProfileSlower` | profile_slower BPF programs and report | `clock`, `entry`, `depth`, `stackmap`, `counts`, `pending` (a sample between its load and store), `reported`, `report`; ghost: `sampled`, `nsamp`, `nticks` | `Call`, `Return`, `Sample` (do_perf_event up to the load), `Store` (the store of `*val + 1`), `Tick`, `Report`, `Exited` |
| `StackStore` | a sequence of `get_stackid` calls on one `stack_traces` map, with the flags of one tool (`REUSE`) | `stackmap`; ghost: `given` (every id returned, with its stack), `failed` (every error, with the elements in use then) | `Intern(s)` (one `get_stackid` call) |
| `FuncSlowerProofs` | TLAPS proofs about `FuncSlower` | | |
| `FuncSlowerRefinement` | TLAPS proof that `FuncSlower` implements `PendingCallTable` | | |
| `FuncSlowerAccounting` | TLAPS proofs of `FuncSlower`'s accounting (`ReportsAreInnermostSlowCalls`) and of the action property `SlowReturnGoesOn` | | |
| `StackStoreProofs` | TLAPS proofs about `StackStore` | | |
| `ProfileSlowerProofs` | TLAPS proofs about `ProfileSlower` | | |
| `StackReportProofs` | TLAPS proofs about `StackReport` | | |
| `MC_FuncSlower`, `MC_ProfileSlower`, `MC_StackStore`, `MC_StackReport` | TLC instances | | |

How the models correspond to the code:

- **One action per BPF program, split only where another CPU can observe
  the difference.**
  - `trace_return` is split at the point where it deletes the entry and
    then keeps using the freed element.
  - `do_perf_event` is split between the load and the store of `*val`.
  - Every other handler is one atomic action. This matches the atomicity
    of a single map operation, since every other step of those handlers
    touches only thread-local data.
- **`entryinfo` in FuncSlower is a set of numbered elements, not a
  function.** A delete must leave the element's contents readable and
  reusable, and a function would hide that.
- **`update`:**
  - It replaces the thread's element if the thread already has one.
  - Otherwise it takes a free element.
  - Otherwise the map is full, and `update` does nothing (no error
    reaches the program).
- **The traced program itself** is the ghost call stack `calls`. A `Call`
  pushes a frame and a `Return` pops one, because kprobe and kretprobe are
  paired by the kernel. Each frame records:
  - whether a traced call was entered on top of it (`nested`);
  - whether its entry was stored (`tracked`).
- **Data is abstracted to what the properties distinguish:**
  - Time is a small clock.
  - Probe ids are `0..NFuncs-1`.
  - Stacks are model values with a given hash.
  - The task name is one string.
  - `retval`, `args` and the comm string are left out.

## 3. Runs

| Run | Expect | Checks | Shows |
|---|---|---|---|
| `funcslower` | pass | `TypeOK`, `EntryIsInnermostCall`, `ReportsAreInnermostSlowCalls`, `ImplementsPendingCallTable`, `SlowReturnGoesOn`, `WantedCallsReported` (under `FairSpec`) | The entry map tracks exactly the innermost call of each thread. The printed, buffered, in-flight and lost records together are exactly the calls that were tracked, not nested, and at least DURATION_NS long. entryinfo implements the abstract pending-call table. A step puts a return in flight exactly when it ends a wanted call, with that call's duration. Every wanted call is eventually printed or counted lost. |
| `funcslower_lost_return` | violation | `RecordsMeasureInnermostCalls` (under `LossySpec`) | A missed kretprobe of a nested call leaves its entry; the outer return prints a latency measured from the inner start. |
| `funcslower_identity` | violation | `RecordIdentity` | A record printed with another thread's start time (use after delete). With one traced function, only the start time can differ. |
| `profile` | pass | `TypeOK`, `CountsBoundedBySamples` | Counts can lose samples but never exceed them. |
| `profile_lost_update` | violation | `CountsMatchSamples` | `(*val)++` loses an increment under two CPUs. |
| `profile_zero_count` | violation | `ReportedCountsPositive` | The report prints a key whose count is still 0. |
| `profile_stackid_reuse` | violation | `StackIdNamesSampledStack` | A counted user stack id is re-bound to a colliding stack. |
| `stackreport` | pass | `TypeOK`, `ShownAsRequested` | With `-U` alone (folded or tree), `-K -f`, or no stack option, each requested stack or its placeholder is printed, placeholders only for `-EEXIST`/`-ENOMEM`, and no unrequested side. |
| `stackreport_uk` | violation | `ShownAsRequested` | With `-U -K` the kernel get is replaced by `-1`: folded output prints `[Missed Kernel Stack]` for a stack never asked for, and tree output shows neither stack. |
| `stackreport_ktree` | violation | `ShownAsRequested` | With `-K` alone in tree mode, `aksym` reads `args.annotations`, which the parser never defines (line 310). The first kernel frame raises `AttributeError`, so a captured kernel stack is never printed. |
| `stackstore` | pass | `TypeOK`, `IdsStable` | With flags 0 (funcslower), an id once returned keeps naming its stack, and the pool never overfills. |
| `stackstore_collision` | violation | `OverflowOnlyWhenFull` | With flags 0, a colliding stack gets `-EEXIST` while the pool has free elements, against the spec's "a different id when capacity allows". |

Without `REUSE`, ids are stable but collisions fail early
(`stackstore_collision`). With `REUSE`, a collision evicts instead, so ids
are not stable (`profile_stackid_reuse`). There, "fails only when full" is
just the `-ENOMEM` guard, since no other failure is left, so no run checks
it.

### Bounds and why they are enough

**FuncSlower** runs with:

- Three threads, and `TGID = 1` with t3 in process 2, so the filter branch
  runs.
- One function, `DURATION_NS = 2` and `MaxTime = 4`: calls of 0 to 4 ticks,
  on both sides of the threshold, including exactly 2.
- `ENTRY_MAX = 1`, so a second thread finds the map full.
- `PERF_CAP = 1`, so a second slow record is lost.
- `MaxDepth = 2`, for nested calls, and `MaxCalls = 3`.

Every branch of every action is taken: filtered, overwrite, free element,
full map, no entry, fast, slow, ring full. The run has about 175,000
distinct states.

**ProfileSlower** runs with:

- Two threads of one process with one task name, so they can share a key.
- Two user stacks hashed to the same bucket of the four buckets of a
  3-element map, so `REUSE` evicts.
- One kernel stack and the user-mode `-EFAULT` case.
- `COUNTS_MAX = 1`, so the second distinct key finds `counts` full.
- Three ticks, so two samples can interleave on one key.

Every disjunct of `Sample` and `LookupOrInit` fires.

**StackReport** runs with two user stacks that collide in the two buckets
of a 2-element `stack_traces` (so the second gets `-EEXIST`), one kernel
stack, and calls returning without a user or a kernel stack (`-EFAULT`),
and three records. Each run fixes its own option sets:

- `stackreport`: the sets `print_stack` handles (`-U`, `-U -f`, `-K -f`,
  and the sets without a stack option).
- `stackreport_uk`: `-U -K`, folded or not.
- `stackreport_ktree`: `-K` in tree mode.

Together they reach every branch of `Capture`, `stack_id_err`, the
delimiter, both renderings and the `aksym` failure.

The refinement and the liveness property are checked on the `funcslower`
instance itself (175,049 states).

**StackStore** runs with six stacks in a 3-element map, which has four
buckets. s1, s2 and s5 share bucket 0, so a collision happens with one
element in use; s3, s4 and s6 have buckets 1, 2 and 3, so all four buckets
could fill and the pool limit of three is what stops the fourth. Every
branch of `GetStackId` is taken: found, `-EEXIST`, `-ENOMEM`, new element,
eviction.

### Fairness

`FuncSlower!FairSpec` adds weak fairness of `ReturnEmit(t)` for every
thread and of `Poll`, and nothing else:

- `ReturnEmit` is the rest of a BPF program that is already running; BPF
  programs run to completion, so once enabled it stays enabled until it
  happens.
- `Poll` is the `while True: b.perf_buffer_poll()` loop, which runs for as
  long as the tool does.
- `Call`, `Return` and `Tick` get no fairness: the traced program may never
  call or return again, and the model's clock is bounded.

Under it, `WantedCallsReported` says that a wanted call is eventually
printed or counted lost. Dropping the `lost` count on a full ring (the
mutant `ReturnEmitUncounted`) breaks it.

### Refinement

`PendingCallTable` is the contract of the pending-call table written from
the spec: a partial function from thread to pending call, bounded by
`ENTRY_MAX`, changed only by `RecordEntry(t, c)` (overwrite, or add while
there is room) and `ResolveReturn(t)`. `FuncSlower` maps `entryinfo` to it
with `EntryTable` (for each thread with an element in use, that element's
probe id and start) and checks `ImplementsPendingCallTable == PCT!Spec`.
Every step of `FuncSlower` maps to a step of the table or to a stutter: a
failed update on a full map is a stutter, and `ReturnEmit`'s read after the
delete touches no element. An LRU map that evicts another thread's entry
when full (`TraceEntryLru`) fails the refinement. Section 4 proves the
refinement for every value of the constants.

## 4. Proofs

`FuncSlowerProofs` proves `THEOREM TypeCorrect == Spec => []TypeOK` for every
value of the constants that satisfies the named assumptions of `FuncSlower`.

- `TypeOK` alone is not inductive: `Return` computes
  `delta = clock - start`, and this is a `Time` only if the stored start is
  not in the future.
- So the proof uses `TypeInv == TypeOK /\ StartsBeforeNow`. It proves
  `Init => TypeInv` and `TypeInv /\ [Next]_vars => TypeInv'`, with one step
  per action and one sub-step per variable the action changes.
- It then concludes with PTL.
- The lemmas are:
  - `MarkNested`: marking the frames of a stack nested keeps it a stack of
    frames.
  - `ClearUsed`: entryinfo.delete leaves an entry.

`THEOREM EntryInnermost == Spec => []EntryIsInnermostCall` proves that
entryinfo stays in step with the threads' calls. It uses the inductive
invariant `IInv == TypeInv /\ EntryIsInnermostCall /\ FilteredHaveNoEntry`,
which TLC also checks on the `funcslower` instance.

`FilteredHaveNoEntry` is needed because the filtered branch of
`trace_entry` leaves the map alone. That step is sound only if a thread
outside the `-p` process never has an entry to leave stale.

The step proof goes one action at a time:

- The frame lemma `InnerFrame` covers every action. Suppose a step of
  thread t changes only t's entries and t's call stack, and leaves t's
  entry equal to its innermost call (`InnerFor`). Then the property holds
  for every thread.
- `CallInner` discharges the four branches of `entryinfo.update`:
  - filtered: no entry;
  - overwrite: the old entry was t's only one;
  - free element: t had none;
  - full map: t had none.
  The `InnerForUpdate` lemma covers the two branches that write an element.
- `ReturnInner` handles the delete and the no-entry return.
- `OtherInner` covers the steps that touch neither the map nor the stacks.

`StackStoreProofs` proves `THEOREM IdsStableWithoutReuse`: when `REUSE`
is FALSE, `Spec => []IdsStable` for every set of stacks, hash function and
`STORAGE`.

- It rests on `StackMapAssumption` and `NBucketsAssumption` (the power of
  two that sizes the buckets exists and is positive; TLC evaluates it on
  every run, since `NBuckets` is a `CHOOSE` whose existence would need an
  induction over powers of two).
- The inductive invariant is `IdsStable` together with the shapes of
  `stackmap` and `given`: every returned id is a bucket, so the map can be
  read there.
- The step proof splits `GetStackId` into its four outcomes. Only the
  new-element branch writes the map, and it writes a bucket that was
  empty; an id already returned names a bucket holding a stack, so it is a
  different bucket.
- With `REUSE` TRUE the theorem is false (`profile_stackid_reuse`).

`FuncSlowerRefinement` proves `THEOREM Refinement == Spec =>
ImplementsPendingCallTable`: entryinfo implements the pending-call table
for every number of threads, functions and map elements.

- It reuses `IInv` from `FuncSlowerProofs`. `EntryIsInnermostCall` gives
  at most one element in use per thread (`Uniq`, lemma `InnerUniq`), and
  this is what makes `EntryTable` a function of the map and not of the
  `CHOOSE` inside it.
- `EntryTable` is restated over an arbitrary element array as `TableOf`
  (lemma `EntryTableIsTableOf`). The table lemmas are then constant-level:
  - `TableWrite`: writing t's element, which was free or already t's,
    gives the table with t's entry added or overwritten;
  - `TableDelete`: freeing t's element gives the table without t;
  - `TableRoom`: a free element means fewer holders than `ENTRY_MAX`. It
    is proved with a surjection from the other used elements onto the
    holders (`FS_Surjection`). This is the guard of `RecordEntry`.
- `StepRefines` splits `Next`:
  - the overwrite and free-slot branches of `TraceEntry` map to
    `RecordEntry` (`WriteRefines`);
  - the delete in `Return` maps to `ResolveReturn` (`DeleteRefines`);
  - every other step, including the full-map and filtered updates, leaves
    `slot` alone and so is a stutter (`UnchangedRefines`).
- `InitRefines` shows that the empty map is the empty table. The theorem
  follows with PTL from `Spec => []IInv`.

`StackStoreProofs` also proves `THEOREM TypeCorrect == Spec => []TypeOK`,
with or without `REUSE`.

- `InUseType` and `InUseWrite` count the occupied buckets: the set is a
  finite subset of `Buckets`, and filling an empty bucket adds one to it
  (`FS_AddElement`). Overwriting a bucket leaves the count unchanged.
- `InternCases` lists the four outcomes of one `get_stackid` call, with
  the map and the ghost sets after each.
- The pool bound follows because a new element is taken only when
  `InUse < STORAGE`.

`ProfileSlowerProofs` proves `THEOREM TypeCorrect == Spec => []TypeOK` and
`THEOREM CountsNeverExceedSamples == Spec => []CountsBoundedBySamples` for
every number of threads, names, stacks and counts entries.

- `CountsBoundedBySamples` is not inductive. A CPU between its load and its
  store holds a value that the store will write back plus one.
- The inductive invariant therefore adds `PendingBelowSamples`: a loaded
  value is a natural number, its key is in `counts`, and the value plus
  one is at most the samples of that key. The sample being counted is
  included in those samples.
- `IsFiniteSet(DOMAIN counts)` is needed for the `COUNTS_MAX` bound of
  `lookup_or_init`.
- `FoundOK`, `InsertedOK` and `LookupOrInitOK` cover the two outcomes of
  `lookup_or_init`. `StoreIInv` covers the store, whose stale value can
  only lower a count.
- TLC checked the strengthened invariant on the `profile` instance before
  the proof.

`FuncSlowerAccounting` proves
`THEOREM InnermostSlowCallsReported == Spec => []ReportsAreInnermostSlowCalls`
and `THEOREM SlowReturnsGoOn == Spec => SlowReturnGoesOn`.

- The proofs use one more assumption, `ThreadsFinite` (a process has
  finitely many threads). It makes `InFlight` a cardinality of a finite
  set.
- The inductive invariant `AInv` adds to `IInv`:
  - `EntryIffTracked`: a thread has an entry exactly when its innermost
    frame is tracked and not nested.
  - `BelowTopNested`: every frame below the innermost one is nested.
  - `InFlightWanted`: a return in flight carries the duration of a wanted
    call of its thread.
- These conjuncts tie the threshold test, which reads the start time from
  entryinfo, to the `Wanted` predicate, which reads the returned frame:
  - `Return` with an entry ends a tracked, innermost call, whose start the
    entry holds (`EntryIsInnermostCall`), so `delta_ns` is the call's
    duration (`ReturnEntryFacts`).
  - `Return` without an entry ends a call that is not wanted.
- The counting lemmas use `FS_AddElement` and `FS_RemoveElement`:
  - `WantedCountAppend`: appending a returned call adds one wanted call
    exactly when the call is wanted.
  - `InFlightAdd` and `InFlightRemove`: a return goes in flight, or
    `perf_submit` ends it.
  - Each action then balances the sum `out + buf + in flight + lost`.
- `WitnessAppend` keeps the witness of every record valid, because the
  history only grows.
- TLC checked `AInv` on the `funcslower` instance (175,049 distinct states)
  before the proof.
- The action property follows from `Spec => []AInv` and a step lemma,
  `ReturnStepOK`; every other action neither ends a call nor starts a
  return in flight.

`StackReportProofs` proves `THEOREM TypeCorrect == Spec => []TypeOK` for
every option set, and `THEOREM StacksShownAsRequested`. The latter proves
`Spec => []ShownAsRequested` under the hypothesis `PrintableScope`. It
excludes the two option sets that the violation runs show printing wrongly:

- `-U` and `-K` together (`stackreport_uk`);
- `-K` in tree mode, where `aksym` raises (`stackreport_ktree`).

The `stackreport` run uses exactly the option sets `PrintableScope`
allows.

- The inductive invariant `RInv` adds `RecOK` for every buffered record.
  Each stack id of a record must be one of:
  - 0, when the side is off;
  - `-EFAULT`, when the call had no such stack;
  - `-EEXIST` or `-ENOMEM`;
  - a bucket that holds the record's stack in the current map.
- `GetStackIdNoReuse` shows that `get_stackid` without
  `BPF_F_REUSE_STACKID` keeps every occupied bucket (`Keeps`). So `RecOK`
  of older records survives later captures (`BufKept`). The new record's
  ids satisfy it by `CaptureOK`.
- For printing, `LinesToks` shows that with one scope, and `-K` only
  folded, the printed tokens are the task name plus that side's part. `PartShown` then shows that the
  part is the stack or a placeholder that stands for a failed
  `get_stackid`.
- TLC checked `RInv` on the `stackreport` instance (3,473 distinct states)
  before the proof.

Only model-checked:

- Every property of ProfileSlower except `TypeOK` and
  `CountsBoundedBySamples`.
- The violations.
- `WantedCallsReported`, and anything else about liveness or `ENABLED`,
  which TLAPS cannot prove.

## 5. Not modelled, and the plan

Not modelled yet:

- The rest of the Renderer: the latency line and `time_str` of funcslower
  (formatting), and profile_slower's report loop, missing-stack warning and
  sort.
- The ctypes decoding of `data_t`.
- Per-CPU ordering of perf records.
- Option parsing other than `-U`/`-K`/`-f` (taken as constants).

These are listed as components or hazards in `PROJECT.json`. Out of reach
or out of scope:

- Symbol resolution.
- Attach.
- The text formatting itself.

Plan for the next sittings:

1. profile_slower's report rendering and missing-stack count.
2. Per-CPU perf buffers and the relative timestamp.
3. An action property for profile_slower's counts, and a refinement of
   `ProfileSlower`'s counts against an abstract sample counter.
