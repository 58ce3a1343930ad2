-------------------------- MODULE FuncSlowerProofs --------------------------
(***************************************************************************)
(* Proofs about FuncSlower for every value of its constants.               *)
(***************************************************************************)
EXTENDS FuncSlower, TLAPS

\* Every entry was stored at or before the current time (the monotonic
\* clock never runs back), so delta_ns is a duration of the model's Time.
StartsBeforeNow == \A s \in Slots : slot[s].start <= clock

\* A thread outside the -p process never has an entry.
FilteredHaveNoEntry == \A s \in Slots : slot[s].used => ~Filtered(slot[s].key)

TypeInv == TypeOK /\ StartsBeforeNow

IInv == TypeInv /\ EntryIsInnermostCall /\ FilteredHaveNoEntry

\* EntryIsInnermostCall over an arbitrary entry map sl and call stacks cs.
Inner(sl, cs) ==
  \A s \in Slots : sl[s].used =>
    /\ sl[s].key \in Threads
    /\ cs[sl[s].key] # <<>>
    /\ cs[sl[s].key][Len(cs[sl[s].key])].fn = sl[s].id
    /\ cs[sl[s].key][Len(cs[sl[s].key])].start = sl[s].start
    /\ \A s2 \in Slots : sl[s2].used /\ sl[s2].key = sl[s].key => s2 = s

\* The entries of thread t in sl are its innermost call in cs, and unique.
InnerFor(sl, cs, t) ==
  \A s \in Slots : sl[s].used /\ sl[s].key = t =>
    /\ cs[t] # <<>>
    /\ cs[t][Len(cs[t])].fn = sl[s].id
    /\ cs[t][Len(cs[t])].start = sl[s].start
    /\ \A s2 \in Slots : sl[s2].used /\ sl[s2].key = t => s2 = s

\* Thread t has no entry in sl.
NoEntry(sl, t) == \A s \in Slots : ~(sl[s].used /\ sl[s].key = t)

USE ThreadsAssumption, TgidAssumption, NFuncsAssumption, DurationAssumption,
    CapacityAssumption, BoundsAssumption

\* The frames of a call stack once a traced call is entered on top of them.
Mark(st) == [i \in DOMAIN st |-> [st[i] EXCEPT !.nested = TRUE]]

\* Marking every frame of a call stack as nested keeps it a call stack.
LEMMA MarkNested ==
  ASSUME NEW st \in Seq(Frame)
  PROVE  Mark(st) \in Seq(Frame)
<1>1. DOMAIN st = 1 .. Len(st) /\ \A i \in 1 .. Len(st) : st[i] \in Frame
  OBVIOUS
<1>2. \A i \in 1 .. Len(st) : [st[i] EXCEPT !.nested = TRUE] \in Frame
  BY <1>1 DEF Frame
<1>. QED  BY <1>1, <1>2 DEF Mark

\* entryinfo.delete clears the in-use bit and leaves the element's
\* contents in place: the element is still an entry.
LEMMA ClearUsed ==
  ASSUME NEW e \in Entry
  PROVE  [e EXCEPT !.used = FALSE] \in Entry
BY DEF Entry

\* The time elapsed since a start in the past is a Time.
LEMMA DeltaInTime ==
  ASSUME NEW a \in Time, NEW b \in Time, b <= a
  PROVE  a - b \in Time
BY DEF Time

\* The initial state is well typed.
LEMMA InitTypeInv == Init => TypeInv
BY DEF Init, TypeInv, TypeOK, StartsBeforeNow, Entry, RetState, Idle, Time,
       Slots, Funcs

\* Every step keeps the state well typed and the stored start times in the
\* past; the second fact is what makes delta_ns of trace_return a Time.
LEMMA NextTypeInv == TypeInv /\ [Next]_vars => TypeInv'
<1> SUFFICES ASSUME TypeInv, [Next]_vars PROVE TypeInv'
  OBVIOUS
<1>. USE DEF TypeInv, TypeOK, StartsBeforeNow
<1>1. ASSUME NEW t \in Threads, NEW f \in Funcs, Call(t, f) PROVE TypeInv'
  <2>1. \/ slot' = slot
        \/ \E s \in Slots :
             slot' = [slot EXCEPT ![s] = [used |-> TRUE, key |-> t, id |-> f,
                                          start |-> clock]]
    BY <1>1, Zenon DEF Call, TraceEntry, Lookup, FreeSlots
  <2>2. [used |-> TRUE, key |-> t, id |-> f, start |-> clock] \in Entry
    BY DEF Entry
  <2>3. slot' \in [Slots -> Entry] /\ \A s \in Slots : slot'[s].start <= clock
    <3>1. CASE slot' = slot
      BY <3>1
    <3>2. ASSUME NEW s \in Slots,
                 slot' = [slot EXCEPT ![s] = [used |-> TRUE, key |-> t, id |-> f,
                                              start |-> clock]]
          PROVE  slot' \in [Slots -> Entry] /\ \A x \in Slots : slot'[x].start <= clock
      <4>1. slot' \in [Slots -> Entry]
        BY <2>2, <3>2
      <4>2. slot'[s].start = clock
        BY <3>2
      <4>3. \A x \in Slots \ {s} : slot'[x] = slot[x]
        BY <3>2
      <4>4. ASSUME NEW x \in Slots PROVE slot'[x].start <= clock
        <5>1. CASE x = s
          BY <4>2, <5>1 DEF Time
        <5>2. CASE x # s
          <6>1. slot'[x] = slot[x] /\ slot[x].start <= clock
            BY <4>3, <5>2
          <6>. QED  BY <6>1
        <5>. QED  BY <5>1, <5>2
      <4>. QED  BY <4>1, <4>4
    <3>. QED  BY <2>1, <3>1, <3>2
  <2>4. Mark(calls[t]) \in Seq(Frame)
    BY MarkNested
  <2>5. [fn |-> f, start |-> clock, nested |-> FALSE,
         tracked |-> EntryStored(t)] \in Frame
    BY DEF Frame, EntryStored
  <2>6. calls' \in [Threads -> Seq(Frame)]
    BY <1>1, <2>4, <2>5 DEF Call, Mark
  <2>7. ncalls' \in 0 .. MaxCalls
    BY <1>1 DEF Call
  <2>8. UNCHANGED <<clock, ret, buf, lost, out, done>>
    BY <1>1 DEF Call
  <2>. QED  BY <2>3, <2>6, <2>7, <2>8
<1>2. ASSUME NEW t \in Threads, Return(t) PROVE TypeInv'
  <2>1. calls[t] \in Seq(Frame) /\ calls[t] # <<>>
    BY <1>2 DEF Return
  <2>2. calls[t][Len(calls[t])] \in Frame
    BY <2>1
  <2>3. done' \in Seq(Done)
    <3>1. LET fr == calls[t][Len(calls[t])] IN
            [tid |-> t, fn |-> fr.fn, start |-> fr.start, end |-> clock,
             nested |-> fr.nested, tracked |-> fr.tracked] \in Done
      BY <2>2 DEF Done, Frame
    <3>. QED  BY <1>2, <3>1 DEF Return
  <2>4. SubSeq(calls[t], 1, Len(calls[t]) - 1) \in Seq(Frame)
    BY <2>1
  <2>5. calls' \in [Threads -> Seq(Frame)]
    BY <1>2, <2>4 DEF Return
  <2>6. CASE Lookup(t) = {} /\ UNCHANGED <<slot, ret>>
    BY <1>2, <2>3, <2>5, <2>6 DEF Return
  <2>7. ASSUME NEW s \in Lookup(t),
               slot' = [slot EXCEPT ![s].used = FALSE],
               ret' = IF clock - slot[s].start < DURATION_NS THEN ret
                      ELSE [ret EXCEPT ![t] = [slot |-> s,
                                               delta |-> clock - slot[s].start]]
        PROVE TypeInv'
    <3>1. s \in Slots
      BY DEF Lookup
    <3>2. slot' \in [Slots -> Entry] /\ \A x \in Slots : slot'[x].start <= clock
      <4>1. [slot[s] EXCEPT !.used = FALSE] \in Entry
        BY <3>1, ClearUsed
      <4>2. slot' \in [Slots -> Entry]
        BY <2>7, <4>1
      <4>3. ASSUME NEW x \in Slots
            PROVE  slot'[x].start = slot[x].start /\ slot[x].start <= clock
        <5>1. CASE x = s
          BY <2>7, <3>1, <5>1
        <5>2. CASE x # s
          BY <2>7, <5>2
        <5>. QED  BY <5>1, <5>2
      <4>4. \A x \in Slots : slot'[x].start <= clock
        BY <4>3
      <4>. QED  BY <4>2, <4>4
    <3>3. [slot |-> s, delta |-> clock - slot[s].start] \in RetState
      <4>1. slot[s].start \in Time /\ slot[s].start <= clock /\ clock \in Time
        BY <3>1 DEF Entry
      <4>2. clock - slot[s].start \in Time
        BY <4>1, DeltaInTime
      <4>. QED  BY <3>1, <4>2 DEF RetState
    <3>4. ret' \in [Threads -> RetState]
      BY <2>7, <3>3
    <3>5. UNCHANGED <<clock, buf, lost, out, ncalls>>
      BY <1>2 DEF Return
    <3>. QED  BY <2>3, <2>5, <3>2, <3>4, <3>5
  <2>. QED  BY <1>2, <2>6, <2>7 DEF Return
<1>3. ASSUME NEW t \in Threads, ReturnEmit(t) PROVE TypeInv'
  <2>1. ret[t].slot \in Slots
    BY <1>3 DEF ReturnEmit, RetState
  <2>2. [tid |-> t, id |-> slot[ret[t].slot].id,
         start |-> slot[ret[t].slot].start, dur |-> ret[t].delta] \in Record
    BY <2>1 DEF Record, Entry, RetState
  <2>3. buf' \in Seq(Record) /\ Len(buf') <= PERF_CAP /\ lost' \in Nat
    <3>1. \/ /\ Len(buf) < PERF_CAP
             /\ buf' = Append(buf, [tid |-> t, id |-> slot[ret[t].slot].id,
                                    start |-> slot[ret[t].slot].start,
                                    dur |-> ret[t].delta])
             /\ lost' = lost
          \/ buf' = buf /\ lost' = lost + 1
      BY <1>3, Zenon DEF ReturnEmit
    <3>2. CASE buf' = buf /\ lost' = lost + 1
      BY <3>2
    <3>3. CASE /\ Len(buf) < PERF_CAP
               /\ buf' = Append(buf, [tid |-> t, id |-> slot[ret[t].slot].id,
                                      start |-> slot[ret[t].slot].start,
                                      dur |-> ret[t].delta])
               /\ lost' = lost
      BY <2>2, <3>3
    <3>. QED  BY <3>1, <3>2, <3>3
  <2>4. ret' \in [Threads -> RetState]
    BY <1>3 DEF ReturnEmit, Idle, RetState, Slots, Time
  <2>5. UNCHANGED <<clock, slot, out, calls, done, ncalls>>
    BY <1>3 DEF ReturnEmit
  <2>. QED  BY <2>3, <2>4, <2>5
<1>4. CASE Poll
  <2>1. buf \in Seq(Record) /\ buf # <<>>
    BY <1>4 DEF Poll
  <2>2. Head(buf) \in Record /\ Tail(buf) \in Seq(Record)
        /\ Len(Tail(buf)) <= PERF_CAP
    BY <2>1
  <2>3. out' \in Seq(Record) /\ buf' \in Seq(Record) /\ Len(buf') <= PERF_CAP
    BY <1>4, <2>2 DEF Poll
  <2>4. UNCHANGED <<clock, slot, ret, lost, calls, done, ncalls>>
    BY <1>4 DEF Poll
  <2>. QED  BY <2>3, <2>4
<1>5. CASE Tick
  <2>1. clock' \in Time /\ clock <= clock'
    BY <1>5 DEF Tick, Time
  <2>2. UNCHANGED <<slot, ret, buf, lost, out, calls, done, ncalls>>
    BY <1>5 DEF Tick
  <2>3. \A s \in Slots : slot'[s].start <= clock'
    BY <2>1, <2>2 DEF Entry, Time
  <2>. QED  BY <2>1, <2>2, <2>3
<1>6. CASE BoundReached \/ UNCHANGED vars
  BY <1>6 DEF BoundReached, vars
<1>. QED  BY <1>1, <1>2, <1>3, <1>4, <1>5, <1>6 DEF Next

\* A step of thread t that leaves the entries and call stacks of the other
\* threads alone, and keeps t's entry its innermost call, keeps every entry
\* the innermost call of its thread.
LEMMA InnerFrame ==
  ASSUME NEW sl, NEW cs, NEW sl2, NEW cs2, NEW t \in Threads,
         Inner(sl, cs),
         InnerFor(sl2, cs2, t),
         \A x \in Slots : sl2[x].used /\ sl2[x].key # t => sl2[x] = sl[x],
         \A u \in Threads \ {t} : cs2[u] = cs[u]
  PROVE  Inner(sl2, cs2)
<1> SUFFICES ASSUME NEW x \in Slots, sl2[x].used
             PROVE  /\ sl2[x].key \in Threads
                    /\ cs2[sl2[x].key] # <<>>
                    /\ cs2[sl2[x].key][Len(cs2[sl2[x].key])].fn = sl2[x].id
                    /\ cs2[sl2[x].key][Len(cs2[sl2[x].key])].start = sl2[x].start
                    /\ \A s2 \in Slots : sl2[s2].used /\ sl2[s2].key = sl2[x].key
                                         => s2 = x
  BY DEF Inner
<1>1. CASE sl2[x].key = t
  BY <1>1 DEF InnerFor
<1>2. CASE sl2[x].key # t
  <2>1. sl2[x] = sl[x]
    BY <1>2
  <2>2. /\ sl[x].key \in Threads
        /\ cs[sl[x].key] # <<>>
        /\ cs[sl[x].key][Len(cs[sl[x].key])].fn = sl[x].id
        /\ cs[sl[x].key][Len(cs[sl[x].key])].start = sl[x].start
        /\ \A s2 \in Slots : sl[s2].used /\ sl[s2].key = sl[x].key => s2 = x
    BY <2>1 DEF Inner
  <2>3. cs2[sl[x].key] = cs[sl[x].key]
    BY <1>2, <2>1, <2>2
  <2>4. ASSUME NEW s2 \in Slots, sl2[s2].used, sl2[s2].key = sl2[x].key
        PROVE  s2 = x
    <3>1. sl2[s2] = sl[s2]
      BY <1>2, <2>4
    <3>. QED  BY <2>1, <2>2, <2>4, <3>1
  <2>. QED  BY <2>1, <2>2, <2>3, <2>4
<1>. QED  BY <1>1, <1>2

\* entryinfo.update of thread t that writes element s, when no other
\* element holds an entry of t: t's only entry is the one written.
LEMMA InnerForUpdate ==
  ASSUME NEW sl \in [Slots -> Entry], NEW cs, NEW t, NEW s \in Slots, NEW e,
         e.used, e.key = t,
         \A x \in Slots \ {s} : ~(sl[x].used /\ sl[x].key = t),
         cs[t] # <<>>,
         cs[t][Len(cs[t])].fn = e.id,
         cs[t][Len(cs[t])].start = e.start
  PROVE  /\ InnerFor([sl EXCEPT ![s] = e], cs, t)
         /\ \A x \in Slots : [sl EXCEPT ![s] = e][x].used
                               /\ [sl EXCEPT ![s] = e][x].key # t
                               => [sl EXCEPT ![s] = e][x] = sl[x]
<1>1. [sl EXCEPT ![s] = e][s] = e
  OBVIOUS
<1>2. \A x \in Slots \ {s} : [sl EXCEPT ![s] = e][x] = sl[x]
  OBVIOUS
<1>. QED  BY <1>1, <1>2 DEF InnerFor

\* A thread with no entry trivially has its entry as its innermost call.
LEMMA NoEntryInnerFor ==
  ASSUME NEW sl, NEW cs, NEW t, NoEntry(sl, t)
  PROVE  InnerFor(sl, cs, t)
BY DEF NoEntry, InnerFor

\* trace_entry keeps every entry the innermost call of its thread, and
\* stores nothing for a thread outside the -p process.
LEMMA CallInner ==
  ASSUME IInv, NEW t \in Threads, NEW f \in Funcs, Call(t, f)
  PROVE  EntryIsInnermostCall' /\ FilteredHaveNoEntry'
<1> DEFINE e == [used |-> TRUE, key |-> t, id |-> f, start |-> clock]
<1>1. TypeOK /\ Inner(slot, calls) /\ FilteredHaveNoEntry
  BY DEF IInv, TypeInv, EntryIsInnermostCall, Inner
<1>2. /\ calls'[t] # <<>>
      /\ calls'[t][Len(calls'[t])].fn = f
      /\ calls'[t][Len(calls'[t])].start = clock
  <2>1. Mark(calls[t]) \in Seq(Frame)
    BY <1>1, MarkNested DEF TypeOK
  <2>2. calls'[t] = Append(Mark(calls[t]),
                           [fn |-> f, start |-> clock, nested |-> FALSE,
                            tracked |-> EntryStored(t)])
    <3>1. calls' = [calls EXCEPT ![t] =
                      Append(Mark(calls[t]),
                             [fn |-> f, start |-> clock, nested |-> FALSE,
                              tracked |-> EntryStored(t)])]
      BY DEF Call, Mark
    <3>2. calls \in [Threads -> Seq(Frame)]
      BY <1>1 DEF TypeOK
    <3>. QED  BY <3>1, <3>2
  <2>3. calls'[t][Len(calls'[t])] = [fn |-> f, start |-> clock, nested |-> FALSE,
                                     tracked |-> EntryStored(t)]
    BY <2>1, <2>2
  <2>. QED  BY <2>1, <2>2, <2>3
<1>3. \A u \in Threads \ {t} : calls'[u] = calls[u]
  BY <1>1 DEF Call, TypeOK
<1>4. slot \in [Slots -> Entry]
  BY <1>1 DEF TypeOK
<1>5. EntryIsInnermostCall' <=> Inner(slot', calls')
  BY DEF EntryIsInnermostCall, Inner
<1>6. CASE Filtered(t) /\ UNCHANGED slot
  <2>1. NoEntry(slot, t)
    BY <1>1, <1>6 DEF FilteredHaveNoEntry, NoEntry
  <2>2. Inner(slot', calls')
    BY <1>1, <1>3, <1>6, <2>1, NoEntryInnerFor, InnerFrame
  <2>. QED  BY <1>1, <1>5, <1>6, <2>2 DEF FilteredHaveNoEntry
<1>7. ASSUME NEW s \in Slots, ~Filtered(t), slot' = [slot EXCEPT ![s] = e],
             \A x \in Slots \ {s} : ~(slot[x].used /\ slot[x].key = t)
      PROVE  EntryIsInnermostCall' /\ FilteredHaveNoEntry'
  <2>1. /\ InnerFor(slot', calls', t)
        /\ \A x \in Slots : slot'[x].used /\ slot'[x].key # t => slot'[x] = slot[x]
    BY <1>2, <1>4, <1>7, InnerForUpdate
  <2>2. Inner(slot', calls')
    BY <1>1, <1>3, <2>1, InnerFrame
  <2>3. FilteredHaveNoEntry'
    <3>1. slot'[s] = e
      BY <1>4, <1>7
    <3>. QED  BY <1>1, <1>7, <2>1, <3>1 DEF FilteredHaveNoEntry
  <2>. QED  BY <1>5, <2>2, <2>3
<1>8. CASE ~Filtered(t) /\ \E s \in Lookup(t) : slot' = [slot EXCEPT ![s] = e]
  <2>1. PICK s \in Lookup(t) : slot' = [slot EXCEPT ![s] = e]
    BY <1>8
  <2>2. s \in Slots /\ slot[s].used /\ slot[s].key = t
    BY DEF Lookup
  <2>3. \A x \in Slots \ {s} : ~(slot[x].used /\ slot[x].key = t)
    BY <1>1, <2>2 DEF Inner
  <2>. QED  BY <1>7, <1>8, <2>1, <2>2, <2>3
<1>9. CASE ~Filtered(t) /\ Lookup(t) = {} /\ \E s \in FreeSlots : slot' = [slot EXCEPT ![s] = e]
  <2>1. PICK s \in FreeSlots : slot' = [slot EXCEPT ![s] = e]
    BY <1>9
  <2>2. s \in Slots
    BY DEF FreeSlots
  <2>3. \A x \in Slots \ {s} : ~(slot[x].used /\ slot[x].key = t)
    BY <1>9 DEF Lookup
  <2>. QED  BY <1>7, <1>9, <2>1, <2>2, <2>3
<1>10. CASE Lookup(t) = {} /\ UNCHANGED slot
  <2>1. NoEntry(slot, t)
    BY <1>10 DEF Lookup, NoEntry
  <2>2. Inner(slot', calls')
    BY <1>1, <1>3, <1>10, <2>1, NoEntryInnerFor, InnerFrame
  <2>. QED  BY <1>1, <1>5, <1>10, <2>2 DEF FilteredHaveNoEntry
<1>. QED  BY <1>6, <1>8, <1>9, <1>10, Zenon DEF Call, TraceEntry

\* trace_return deletes the thread's only entry, or finds none; either way
\* the thread is left without an entry and the others are untouched.
LEMMA ReturnInner ==
  ASSUME IInv, NEW t \in Threads, Return(t)
  PROVE  EntryIsInnermostCall' /\ FilteredHaveNoEntry'
<1>1. TypeOK /\ Inner(slot, calls) /\ FilteredHaveNoEntry
  BY DEF IInv, TypeInv, EntryIsInnermostCall, Inner
<1>2. \A u \in Threads \ {t} : calls'[u] = calls[u]
  BY <1>1 DEF Return, TypeOK
<1>3. EntryIsInnermostCall' <=> Inner(slot', calls')
  BY DEF EntryIsInnermostCall, Inner
<1>4. \/ Lookup(t) = {} /\ UNCHANGED slot
      \/ \E s \in Lookup(t) : slot' = [slot EXCEPT ![s].used = FALSE]
  BY Zenon DEF Return
<1>5. CASE Lookup(t) = {} /\ UNCHANGED slot
  <2>1. NoEntry(slot, t)
    BY <1>5 DEF Lookup, NoEntry
  <2>2. Inner(slot', calls')
    BY <1>1, <1>2, <1>5, <2>1, NoEntryInnerFor, InnerFrame
  <2>. QED  BY <1>1, <1>3, <1>5, <2>2 DEF FilteredHaveNoEntry
<1>6. CASE \E s \in Lookup(t) : slot' = [slot EXCEPT ![s].used = FALSE]
  <2>1. PICK s \in Lookup(t) : slot' = [slot EXCEPT ![s].used = FALSE]
    BY <1>6
  <2>2. s \in Slots /\ slot[s].used /\ slot[s].key = t
    BY DEF Lookup
  <2>3. \A x \in Slots \ {s} : ~(slot[x].used /\ slot[x].key = t)
    BY <1>1, <2>2 DEF Inner
  <2>4. /\ NoEntry(slot', t)
        /\ \A x \in Slots : slot'[x].used => slot'[x] = slot[x]
    <3>1. slot \in [Slots -> Entry]
      BY <1>1 DEF TypeOK
    <3>2. slot'[s].used = FALSE
      BY <2>1, <2>2, <3>1
    <3>3. \A x \in Slots \ {s} : slot'[x] = slot[x]
      BY <2>1, <2>2, <3>1
    <3>. QED  BY <2>3, <3>2, <3>3 DEF NoEntry
  <2>5. Inner(slot', calls')
    <3>1. InnerFor(slot', calls', t)
      BY <2>4, NoEntryInnerFor
    <3>2. \A x \in Slots : slot'[x].used /\ slot'[x].key # t => slot'[x] = slot[x]
      BY <2>4
    <3>. QED  BY <1>1, <1>2, <3>1, <3>2, InnerFrame
  <2>. QED  BY <1>1, <1>3, <2>4, <2>5 DEF FilteredHaveNoEntry
<1>. QED  BY <1>4, <1>5, <1>6

\* The steps that touch neither entryinfo nor the call stacks.
LEMMA OtherInner ==
  ASSUME IInv, UNCHANGED <<slot, calls>>
  PROVE  EntryIsInnermostCall' /\ FilteredHaveNoEntry'
BY DEF IInv, EntryIsInnermostCall, FilteredHaveNoEntry

\* The initial state satisfies the inductive invariant.
LEMMA InitIInv == Init => IInv
<1> SUFFICES ASSUME Init PROVE IInv
  OBVIOUS
<1>1. TypeInv
  BY InitTypeInv
<1>2. \A s \in Slots : ~slot[s].used
  BY DEF Init
<1>. QED  BY <1>1, <1>2 DEF IInv, EntryIsInnermostCall, FilteredHaveNoEntry

\* Every step keeps the inductive invariant.
LEMMA NextIInv == IInv /\ [Next]_vars => IInv'
<1> SUFFICES ASSUME IInv, [Next]_vars PROVE IInv'
  OBVIOUS
<1>1. TypeInv'
  BY NextTypeInv DEF IInv
<1>2. EntryIsInnermostCall' /\ FilteredHaveNoEntry'
  <2>1. CASE \E t \in Threads, f \in Funcs : Call(t, f)
    BY <2>1, CallInner
  <2>2. CASE \E t \in Threads : Return(t)
    BY <2>2, ReturnInner
  <2>3. CASE \E t \in Threads : ReturnEmit(t)
    BY <2>3, OtherInner DEF ReturnEmit
  <2>4. CASE Poll \/ Tick \/ BoundReached \/ UNCHANGED vars
    BY <2>4, OtherInner DEF Poll, Tick, BoundReached, vars
  <2>. QED  BY <2>1, <2>2, <2>3, <2>4 DEF Next
<1>. QED  BY <1>1, <1>2 DEF IInv

\* The entry map of funcslower holds at most one entry per thread, and it is
\* the probe id and start time of the innermost traced call the thread is
\* in: trace_entry's overwrite and trace_return's delete keep entryinfo in
\* step with every thread's calls, for every number of threads, functions
\* and map elements.
THEOREM EntryInnermost == Spec => []EntryIsInnermostCall
<1>1. Spec => []IInv
  BY InitIInv, NextIInv, PTL DEF Spec
<1>. QED  BY <1>1, PTL DEF IInv

\* The state of the tracer is always well typed.
THEOREM TypeCorrect == Spec => []TypeOK
<1>1. Spec => []TypeInv
  BY InitTypeInv, NextTypeInv, PTL DEF Spec
<1>. QED  BY <1>1, PTL DEF TypeInv
=============================================================================
