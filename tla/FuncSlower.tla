------------------------------ MODULE FuncSlower ------------------------------
(***************************************************************************)
(* The latency tracer of tools/funcslower.py: the BPF programs trace_entry *)
(* and trace_return over the hash map entryinfo, the perf output channel   *)
(* events, and the user-space poll loop that prints every record.          *)
(*                                                                         *)
(* entryinfo is a preallocated BPF hash map: ENTRY_MAX elements, each one  *)
(* a slot holding a key and an entry_t.  A delete returns the slot to the  *)
(* free list at once, and an update on another CPU may take it before the  *)
(* deleting program has finished reading it.  trace_return is therefore    *)
(* two steps: Return (lookup, delta, delete, threshold) and                *)
(* ReturnEmit (the reads of entryp->id and entryp->start_ns after the      *)
(* delete, and perf_submit); other threads' steps interleave between them. *)
(*                                                                         *)
(* The traced program itself is modelled by a call stack per thread        *)
(* (calls), which is ghost state: frames record when each call started,    *)
(* whether a traced call was entered on top of it (nested) and whether its *)
(* entry hook stored an entry (tracked).  done is the ghost history of     *)
(* returned calls, out the records printed by print_event.                 *)
(***************************************************************************)
EXTENDS Naturals, Sequences, FiniteSets

CONSTANTS
  Threads,      \* tgid_pid values of the threads that run traced functions
  Tgid,         \* Tgid[t]: the process (upper 32 bits of tgid_pid) of t
  TGID,         \* the -p argument; 0 means no process filter
  NFuncs,       \* number of function arguments; probe ids are 0..NFuncs-1
  DURATION_NS,  \* the threshold compiled into trace_return
  ENTRY_MAX,    \* number of elements of the entryinfo hash map
  PERF_CAP,     \* records the perf ring buffer holds before it drops
  MaxTime,      \* bound on the monotonic clock bpf_ktime_get_ns
  MaxDepth,     \* bound on the depth of traced calls per thread
  MaxCalls,     \* bound on the number of traced calls in a behaviour
  NoKey         \* the key of a slot that never held an entry

ASSUME ThreadsAssumption == Threads # {} /\ NoKey \notin Threads
\* a process has finitely many threads, so the returns in flight can be counted
ASSUME ThreadsFinite == IsFiniteSet(Threads)
ASSUME TgidAssumption == Tgid \in [Threads -> Nat] /\ TGID \in Nat
ASSUME NFuncsAssumption == NFuncs \in Nat \ {0}
ASSUME DurationAssumption == DURATION_NS \in Nat
ASSUME CapacityAssumption == ENTRY_MAX \in Nat \ {0} /\ PERF_CAP \in Nat \ {0}
ASSUME BoundsAssumption ==
  MaxTime \in Nat /\ MaxDepth \in Nat \ {0} /\ MaxCalls \in Nat

Funcs == 0 .. (NFuncs - 1)
Slots == 1 .. ENTRY_MAX
Time  == 0 .. MaxTime

\* struct entry_t in a slot of entryinfo, with the slot's key and in-use bit
Entry == [used : BOOLEAN, key : Threads \cup {NoKey}, id : Funcs, start : Time]
\* a frame of a thread's traced call stack (ghost)
Frame == [fn : Funcs, start : Time, nested : BOOLEAN, tracked : BOOLEAN]
\* a returned call (ghost)
Done  == [tid : Threads, fn : Funcs, start : Time, end : Time,
          nested : BOOLEAN, tracked : BOOLEAN]
\* struct data_t as submitted to events (the fields the model tells apart)
Record == [tid : Threads, id : Funcs, start : Time, dur : Time]
\* trace_return between its delete and its perf_submit; slot 0 means idle
RetState == [slot : Slots \cup {0}, delta : Time]

VARIABLES
  clock,    \* bpf_ktime_get_ns()
  slot,     \* entryinfo: Slots -> Entry
  ret,      \* ret[t]: trace_return of thread t after its delete
  buf,      \* the perf ring buffer of events
  lost,     \* records perf_submit could not write
  out,      \* records print_event has printed (ghost)
  calls,    \* calls[t]: traced call stack of thread t (ghost)
  done,     \* returned calls, in order of return (ghost)
  ncalls    \* traced calls entered so far (bound)

vars == <<clock, slot, ret, buf, lost, out, calls, done, ncalls>>

Idle == [slot |-> 0, delta |-> 0]

TypeOK ==
  /\ clock \in Time
  /\ slot \in [Slots -> Entry]
  /\ ret \in [Threads -> RetState]
  /\ buf \in Seq(Record) /\ Len(buf) <= PERF_CAP
  /\ lost \in Nat
  /\ out \in Seq(Record)
  /\ calls \in [Threads -> Seq(Frame)]
  /\ done \in Seq(Done)
  /\ ncalls \in 0 .. MaxCalls

Init ==
  /\ clock = 0
  /\ slot = [s \in Slots |-> [used |-> FALSE, key |-> NoKey, id |-> 0, start |-> 0]]
  /\ ret = [t \in Threads |-> Idle]
  /\ buf = <<>>
  /\ lost = 0
  /\ out = <<>>
  /\ calls = [t \in Threads |-> <<>>]
  /\ done = <<>>
  /\ ncalls = 0

\* if (TGID_FILTER) return 0;  with TGID_FILTER = "tgid != TGID" under -p
Filtered(t) == TGID # 0 /\ Tgid[t] # TGID

\* entryinfo.lookup(&tgid_pid): the slots in use under key t
Lookup(t) == {s \in Slots : slot[s].used /\ slot[s].key = t}

FreeSlots == {s \in Slots : ~slot[s].used}

\* whether entryinfo.update in trace_entry stores an entry for t
EntryStored(t) == ~Filtered(t) /\ (Lookup(t) # {} \/ FreeSlots # {})

\* Variant of TraceEntry that stores with entryinfo.insert (BPF_NOEXIST)
\* instead of update, so an existing entry of the thread is kept.
TraceEntryInsert(t, f) ==
  LET e == [used |-> TRUE, key |-> t, id |-> f, start |-> clock] IN
  \/ /\ Filtered(t) \/ Lookup(t) # {} \/ FreeSlots = {}
     /\ UNCHANGED slot
  \/ /\ ~Filtered(t)
     /\ Lookup(t) = {}
     /\ \E s \in FreeSlots : slot' = [slot EXCEPT ![s] = e]

\* Variant of TraceEntry for an LRU hash map: when the map is full, the
\* update evicts the element of some other thread.
TraceEntryLru(t, f) ==
  LET e == [used |-> TRUE, key |-> t, id |-> f, start |-> clock] IN
  \/ /\ Filtered(t)
     /\ UNCHANGED slot
  \/ /\ ~Filtered(t)
     /\ \E s \in Lookup(t) : slot' = [slot EXCEPT ![s] = e]
  \/ /\ ~Filtered(t)
     /\ Lookup(t) = {}
     /\ \E s \in IF FreeSlots = {} THEN Slots ELSE FreeSlots :
          slot' = [slot EXCEPT ![s] = e]

\* trace_entry(ctx, f): filter, then entryinfo.update(&tgid_pid, &entry);
\* the update replaces an existing entry of t, takes a free slot, or fails
\* silently when the map is full.
TraceEntry(t, f) ==
  LET e == [used |-> TRUE, key |-> t, id |-> f, start |-> clock] IN
  \/ /\ Filtered(t)
     /\ UNCHANGED slot
  \/ /\ ~Filtered(t)
     /\ \E s \in Lookup(t) : slot' = [slot EXCEPT ![s] = e]
  \/ /\ ~Filtered(t)
     /\ Lookup(t) = {}
     /\ \E s \in FreeSlots : slot' = [slot EXCEPT ![s] = e]
  \/ /\ ~Filtered(t)
     /\ Lookup(t) = {}
     /\ FreeSlots = {}
     /\ UNCHANGED slot

\* Thread t calls traced function f: the kprobe/uprobe runs trace_f,
\* i.e. trace_entry(ctx, f).  Frames below the new one become nested.
Call(t, f) ==
  /\ ret[t].slot = 0
  /\ Len(calls[t]) < MaxDepth
  /\ ncalls < MaxCalls
  /\ TraceEntry(t, f)
  /\ calls' = [calls EXCEPT ![t] =
                 Append([i \in DOMAIN @ |-> [@[i] EXCEPT !.nested = TRUE]],
                        [fn |-> f, start |-> clock, nested |-> FALSE,
                         tracked |-> EntryStored(t)])]
  /\ ncalls' = ncalls + 1
  /\ UNCHANGED <<clock, ret, buf, lost, out, done>>

\* Variant of Return whose threshold test is off by one (delta_ns <=).
ReturnInclusive(t) ==
  /\ ret[t].slot = 0
  /\ calls[t] # <<>>
  /\ LET fr == calls[t][Len(calls[t])] IN
       done' = Append(done, [tid |-> t, fn |-> fr.fn, start |-> fr.start,
                             end |-> clock, nested |-> fr.nested,
                             tracked |-> fr.tracked])
  /\ calls' = [calls EXCEPT ![t] = SubSeq(@, 1, Len(@) - 1)]
  /\ \/ /\ Lookup(t) = {}
        /\ UNCHANGED <<slot, ret>>
     \/ \E s \in Lookup(t) :
          LET delta == clock - slot[s].start IN
          /\ slot' = [slot EXCEPT ![s].used = FALSE]
          /\ ret' = IF delta <= DURATION_NS THEN ret
                    ELSE [ret EXCEPT ![t] = [slot |-> s, delta |-> delta]]
  /\ UNCHANGED <<clock, buf, lost, out, ncalls>>

\* Thread t returns from its innermost traced call: the kretprobe runs
\* trace_return up to its threshold test.  No entry: return 0.  Otherwise
\* delta_ns = now - start_ns, entryinfo.delete, and a call faster than
\* DURATION_NS ends the handler; a slow one goes on to ReturnEmit.
Return(t) ==
  /\ ret[t].slot = 0
  /\ calls[t] # <<>>
  /\ LET fr == calls[t][Len(calls[t])] IN
       done' = Append(done, [tid |-> t, fn |-> fr.fn, start |-> fr.start,
                             end |-> clock, nested |-> fr.nested,
                             tracked |-> fr.tracked])
  /\ calls' = [calls EXCEPT ![t] = SubSeq(@, 1, Len(@) - 1)]
  /\ \/ /\ Lookup(t) = {}
        /\ UNCHANGED <<slot, ret>>
     \/ \E s \in Lookup(t) :
          LET delta == clock - slot[s].start IN
          /\ slot' = [slot EXCEPT ![s].used = FALSE]
          /\ ret' = IF delta < DURATION_NS THEN ret
                    ELSE [ret EXCEPT ![t] = [slot |-> s, delta |-> delta]]
  /\ UNCHANGED <<clock, buf, lost, out, ncalls>>

\* Variant of ReturnEmit that drops a record on a full ring without
\* counting it as lost.
ReturnEmitUncounted(t) ==
  /\ ret[t].slot # 0
  /\ LET e == slot[ret[t].slot]
         r == [tid |-> t, id |-> e.id, start |-> e.start, dur |-> ret[t].delta]
     IN \/ /\ Len(buf) < PERF_CAP
           /\ buf' = Append(buf, r)
        \/ /\ Len(buf) >= PERF_CAP
           /\ UNCHANGED buf
  /\ ret' = [ret EXCEPT ![t] = Idle]
  /\ UNCHANGED <<clock, slot, lost, out, calls, done, ncalls>>

\* Variant of ReturnEmit whose ring-full test is off by one.
ReturnEmitOverfull(t) ==
  /\ ret[t].slot # 0
  /\ LET e == slot[ret[t].slot]
         r == [tid |-> t, id |-> e.id, start |-> e.start, dur |-> ret[t].delta]
     IN \/ /\ Len(buf) <= PERF_CAP
           /\ buf' = Append(buf, r)
           /\ UNCHANGED lost
        \/ /\ Len(buf) > PERF_CAP
           /\ lost' = lost + 1
           /\ UNCHANGED buf
  /\ ret' = [ret EXCEPT ![t] = Idle]
  /\ UNCHANGED <<clock, slot, out, calls, done, ncalls>>

\* The rest of trace_return: data.id = entryp->id and data.start_ns =
\* entryp->start_ns read the slot that was deleted, then
\* events.perf_submit writes the record, or drops it when the ring is full.
ReturnEmit(t) ==
  /\ ret[t].slot # 0
  /\ LET e == slot[ret[t].slot]
         r == [tid |-> t, id |-> e.id, start |-> e.start, dur |-> ret[t].delta]
     IN \/ /\ Len(buf) < PERF_CAP
           /\ buf' = Append(buf, r)
           /\ UNCHANGED lost
        \/ /\ Len(buf) >= PERF_CAP
           /\ lost' = lost + 1
           /\ UNCHANGED buf
  /\ ret' = [ret EXCEPT ![t] = Idle]
  /\ UNCHANGED <<clock, slot, out, calls, done, ncalls>>

\* b.perf_buffer_poll() calls print_event on the oldest buffered record.
Poll ==
  /\ buf # <<>>
  /\ out' = Append(out, Head(buf))
  /\ buf' = Tail(buf)
  /\ UNCHANGED <<clock, slot, ret, lost, calls, done, ncalls>>

\* Time passes.
Tick ==
  /\ clock < MaxTime
  /\ clock' = clock + 1
  /\ UNCHANGED <<slot, ret, buf, lost, out, calls, done, ncalls>>

\* The bounds of the model are exhausted and every handler has finished.
BoundReached ==
  /\ clock = MaxTime
  /\ ncalls = MaxCalls
  /\ \A t \in Threads : calls[t] = <<>> /\ ret[t].slot = 0
  /\ buf = <<>>
  /\ UNCHANGED vars

Next ==
  \/ \E t \in Threads, f \in Funcs : Call(t, f)
  \/ \E t \in Threads : Return(t) \/ ReturnEmit(t)
  \/ Poll
  \/ Tick
  \/ BoundReached

Spec == Init /\ [][Next]_vars

\* A BPF program, once running, runs to its end: a trace_return past its
\* delete goes on to perf_submit.  The user-space loop calls
\* perf_buffer_poll forever, so a buffered record is eventually handed to
\* print_event.  No fairness is assumed for Call, Return or Tick: the
\* traced program may never call or return again.
Fairness ==
  /\ \A t \in Threads : WF_vars(ReturnEmit(t))
  /\ WF_vars(Poll)

FairSpec == Spec /\ Fairness

-----------------------------------------------------------------------------
(***************************************************************************)
(* Properties.                                                             *)
(***************************************************************************)

\* entryinfo holds at most one entry per thread, and the entry of a thread
\* is the start and probe id of the innermost traced call the thread is in:
\* the overwrite in trace_entry and the delete in trace_return keep the
\* map in step with the thread's calls (only innermost calls are tracked).
EntryIsInnermostCall ==
  \A s \in Slots : slot[s].used =>
    /\ slot[s].key \in Threads
    /\ calls[slot[s].key] # <<>>
    /\ calls[slot[s].key][Len(calls[slot[s].key])].fn = slot[s].id
    /\ calls[slot[s].key][Len(calls[slot[s].key])].start = slot[s].start
    /\ \A s2 \in Slots : slot[s2].used /\ slot[s2].key = slot[s].key => s2 = s

\* A returned call is to be reported when its entry was stored, no traced
\* call was entered during it, and it lasted at least DURATION_NS.
Wanted(c) == c.tracked /\ ~c.nested /\ c.end - c.start >= DURATION_NS

WantedCount == Cardinality({i \in DOMAIN done : Wanted(done[i])})

InFlight == Cardinality({t \in Threads : ret[t].slot # 0})

\* The records the tracer produces are exactly the wanted calls: every
\* record printed or buffered has the duration of a wanted call of its
\* thread, and records printed, buffered, being submitted or lost in the
\* full ring number exactly the wanted calls (no call reported twice, none
\* silently skipped).
ReportsAreInnermostSlowCalls ==
  /\ \A r \in {buf[i] : i \in DOMAIN buf} \cup {out[i] : i \in DOMAIN out} :
       \E i \in DOMAIN done :
         /\ done[i].tid = r.tid
         /\ Wanted(done[i])
         /\ done[i].end - done[i].start = r.dur
  /\ Len(out) + Len(buf) + InFlight + lost = WantedCount

\* trace_return goes on past its threshold test exactly for the wanted
\* calls: a step puts a return of thread t in flight if and only if it ends
\* a call of t that was tracked, innermost and slow, and the delta_ns it
\* carries to perf_submit is that call's duration.  The handler measures
\* from the start_ns in entryinfo; the property from the call itself.
SlowReturnStep ==
  \A t \in Threads :
    LET c == done'[Len(done')] IN
    /\ (ret[t].slot = 0 /\ ret'[t].slot # 0) <=>
         (Len(done') = Len(done) + 1 /\ c.tid = t /\ Wanted(c))
    /\ (ret[t].slot = 0 /\ ret'[t].slot # 0) =>
         ret'[t].delta = c.end - c.start

SlowReturnGoesOn == [][SlowReturnStep]_vars

\* Every printed record names the function and the start time of a call its
\* thread really made, together with that call's duration: the columns
\* FUNC and the -t timestamp print what the thread did.
RecordIdentity ==
  \A i \in DOMAIN out :
    \E j \in DOMAIN done :
      /\ done[j].tid = out[i].tid
      /\ done[j].fn = out[i].id
      /\ done[j].start = out[i].start
      /\ done[j].end - done[j].start = out[i].dur

\* Every wanted call is eventually printed or counted as lost: once n
\* calls have returned that were tracked, innermost and slow, the loop has
\* eventually printed or dropped n records (nothing is held back in
\* trace_return or in the ring).
WantedCallsReported ==
  \A n \in 1 .. MaxCalls : WantedCount >= n ~> Len(out) + lost >= n

-----------------------------------------------------------------------------
(***************************************************************************)
(* Refinement: entryinfo, read as a table from thread to pending call,     *)
(* behaves as the abstract PendingCallTable.                               *)
(***************************************************************************)

\* entryinfo seen through lookup: the entry_t stored under each key.
EntryTable ==
  [t \in {u \in Threads : Lookup(u) # {}} |->
     LET s == CHOOSE x \in Lookup(t) : TRUE IN
     [id |-> slot[s].id, start |-> slot[s].start]]

PCT == INSTANCE PendingCallTable WITH table <- EntryTable

\* trace_entry and trace_return implement the pending-call table: an update
\* overwrites the thread's own entry or adds one while the map has room, a
\* full map leaves every entry in place, and only a thread's own return
\* removes its entry; no step loses or rewrites another thread's entry.
ImplementsPendingCallTable == PCT!Spec
=============================================================================
