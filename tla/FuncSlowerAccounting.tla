------------------------- MODULE FuncSlowerAccounting -------------------------
(***************************************************************************)
(* Proof that funcslower reports exactly its wanted calls: every record    *)
(* printed or buffered is the duration of a tracked, innermost, slow call  *)
(* of its thread, and records printed, buffered, in flight in              *)
(* trace_return or lost in the full ring number the wanted calls.          *)
(***************************************************************************)
EXTENDS FuncSlowerProofs, FiniteSetTheorems, SequenceTheorems

\* the innermost traced call of thread t
Top(t) == calls[t][Len(calls[t])]

\* A thread has an entry exactly while its innermost call was stored and no
\* traced call has been entered on top of it.
EntryIffTracked ==
  \A t \in Threads :
    Lookup(t) # {} <=> calls[t] # <<>> /\ Top(t).tracked /\ ~Top(t).nested

\* Every frame below the innermost one has had a traced call entered on it.
BelowTopNested ==
  \A t \in Threads : \A i \in 1 .. Len(calls[t]) - 1 : calls[t][i].nested

\* A trace_return past its delete and threshold test reports a wanted call
\* of its thread, with that call's duration.
WantedWitness(t, d) ==
  \E i \in DOMAIN done :
    done[i].tid = t /\ Wanted(done[i]) /\ done[i].end - done[i].start = d

InFlightWanted ==
  \A t \in Threads : ret[t].slot # 0 => WantedWitness(t, ret[t].delta)

\* The inductive invariant behind ReportsAreInnermostSlowCalls.
AInv ==
  /\ IInv
  /\ EntryIffTracked
  /\ BelowTopNested
  /\ InFlightWanted
  /\ ReportsAreInnermostSlowCalls

USE ThreadsFinite

\* WantedCount and InFlight over an arbitrary history d and return states r
WantedCountOf(d) == Cardinality({i \in DOMAIN d : Wanted(d[i])})
InFlightOf(r) == Cardinality({t \in Threads : r[t].slot # 0})

\* WantedWitness over an arbitrary history d
WitnessIn(d, t, x) ==
  \E i \in DOMAIN d :
    d[i].tid = t /\ Wanted(d[i]) /\ d[i].end - d[i].start = x

-----------------------------------------------------------------------------
LEMMA WantedCountIs ==
  /\ WantedCount = WantedCountOf(done) /\ WantedCount' = WantedCountOf(done')
  /\ InFlight = InFlightOf(ret) /\ InFlight' = InFlightOf(ret')
  /\ \A t, x : WantedWitness(t, x) = WitnessIn(done, t, x)
  /\ \A t, x : WantedWitness(t, x)' = WitnessIn(done', t, x)
BY DEF WantedCount, WantedCountOf, InFlight, InFlightOf, WantedWitness,
       WitnessIn

\* The wanted calls of a history are finitely many.
LEMMA WantedCountType ==
  ASSUME NEW d \in Seq(Done)
  PROVE  /\ IsFiniteSet({i \in DOMAIN d : Wanted(d[i])})
         /\ WantedCountOf(d) \in Nat
<1>1. IsFiniteSet(DOMAIN d)
  BY FS_Interval
<1>2. IsFiniteSet({i \in DOMAIN d : Wanted(d[i])})
  BY <1>1, FS_Subset
<1>. QED  BY <1>2, FS_CardinalityType DEF WantedCountOf

\* Appending a returned call adds one wanted call if it is wanted.
LEMMA WantedCountAppend ==
  ASSUME NEW d \in Seq(Done), NEW c \in Done
  PROVE  WantedCountOf(Append(d, c)) =
           IF Wanted(c) THEN WantedCountOf(d) + 1 ELSE WantedCountOf(d)
<1> DEFINE W == {i \in DOMAIN d : Wanted(d[i])}
           n == Len(d) + 1
<1>1. {i \in DOMAIN Append(d, c) : Wanted(Append(d, c)[i])} =
        IF Wanted(c) THEN W \cup {n} ELSE W
  BY DEF Wanted
<1>2. IsFiniteSet(W) /\ n \notin W
  BY WantedCountType
<1>. QED  BY <1>1, <1>2, FS_AddElement DEF WantedCountOf

\* A witness in a history stays one when a call is appended.
LEMMA WitnessAppend ==
  ASSUME NEW d \in Seq(Done), NEW c \in Done, NEW t, NEW x,
         WitnessIn(d, t, x)
  PROVE  WitnessIn(Append(d, c), t, x)
<1>1. PICK i \in DOMAIN d :
        d[i].tid = t /\ Wanted(d[i]) /\ d[i].end - d[i].start = x
  BY DEF WitnessIn
<1>2. i \in DOMAIN Append(d, c) /\ Append(d, c)[i] = d[i]
  BY <1>1
<1>. QED  BY <1>1, <1>2 DEF WitnessIn

\* The appended call is its own witness when wanted.
LEMMA WitnessLast ==
  ASSUME NEW d \in Seq(Done), NEW c \in Done, Wanted(c)
  PROVE  WitnessIn(Append(d, c), c.tid, c.end - c.start)
<1>1. Len(d) + 1 \in DOMAIN Append(d, c) /\ Append(d, c)[Len(d) + 1] = c
  OBVIOUS
<1>. QED  BY <1>1 DEF WitnessIn

\* The returns in flight are finitely many.
LEMMA InFlightType ==
  ASSUME NEW r
  PROVE  /\ IsFiniteSet({t \in Threads : r[t].slot # 0})
         /\ InFlightOf(r) \in Nat
<1>1. IsFiniteSet({t \in Threads : r[t].slot # 0})
  BY FS_Subset
<1>. QED  BY <1>1, FS_CardinalityType DEF InFlightOf

\* trace_return of t going past its threshold test adds a return in flight.
LEMMA InFlightAdd ==
  ASSUME NEW r, NEW r2, NEW t \in Threads, r[t].slot = 0, r2[t].slot # 0,
         \A u \in Threads \ {t} : r2[u] = r[u]
  PROVE  InFlightOf(r2) = InFlightOf(r) + 1
<1> DEFINE S == {u \in Threads : r[u].slot # 0}
<1>1. {u \in Threads : r2[u].slot # 0} = S \cup {t} /\ t \notin S
  OBVIOUS
<1>2. IsFiniteSet(S)
  BY InFlightType
<1>3. Cardinality(S \cup {t}) = Cardinality(S) + 1
  BY <1>1, <1>2, FS_AddElement
<1>. QED  BY <1>1, <1>3 DEF InFlightOf

\* perf_submit of t ends a return in flight.
LEMMA InFlightRemove ==
  ASSUME NEW r, NEW r2, NEW t \in Threads, r[t].slot # 0, r2[t].slot = 0,
         \A u \in Threads \ {t} : r2[u] = r[u]
  PROVE  InFlightOf(r2) = InFlightOf(r) - 1
<1> DEFINE S == {u \in Threads : r[u].slot # 0}
<1>1. {u \in Threads : r2[u].slot # 0} = S \ {t} /\ t \in S
  OBVIOUS
<1>2. IsFiniteSet(S)
  BY InFlightType
<1>3. Cardinality(S \ {t}) = Cardinality(S) - 1
  BY <1>1, <1>2, FS_RemoveElement
<1>. QED  BY <1>1, <1>3 DEF InFlightOf

\* the records buffered or printed
Reported == {buf[i] : i \in DOMAIN buf} \cup {out[i] : i \in DOMAIN out}

\* Appending a record to a ring adds exactly that record to its contents.
LEMMA AppendRange ==
  ASSUME NEW s \in Seq(Record), NEW e \in Record
  PROVE  {Append(s, e)[i] : i \in DOMAIN Append(s, e)} = {s[i] : i \in DOMAIN s} \cup {e}
<1>1. DOMAIN Append(s, e) = 1 .. Len(s) + 1
  OBVIOUS
<1>2. \A i \in 1 .. Len(s) : Append(s, e)[i] = s[i]
  OBVIOUS
<1>3. Append(s, e)[Len(s) + 1] = e
  OBVIOUS
<1>4. DOMAIN s = 1 .. Len(s)
  OBVIOUS
<1>. QED  BY <1>1, <1>2, <1>3, <1>4

\* ReportsAreInnermostSlowCalls, with its witnesses named
LEMMA ReportsIs ==
  /\ ReportsAreInnermostSlowCalls <=>
       /\ \A r \in Reported : WantedWitness(r.tid, r.dur)
       /\ Len(out) + Len(buf) + InFlight + lost = WantedCount
  /\ ReportsAreInnermostSlowCalls' <=>
       /\ \A r \in Reported' : WantedWitness(r.tid, r.dur)'
       /\ Len(out') + Len(buf') + InFlight' + lost' = WantedCount'
BY DEF ReportsAreInnermostSlowCalls, Reported, WantedWitness

-----------------------------------------------------------------------------
(***************************************************************************)
(* The two halves of AInv depend on disjoint variables: the entry half on  *)
(* entryinfo and the call stacks, the accounting half on the returns in    *)
(* flight, the history, the ring and the printed records.                  *)
(***************************************************************************)
LEMMA EntryHalfUnchanged ==
  ASSUME EntryIffTracked, BelowTopNested, UNCHANGED <<slot, calls>>
  PROVE  EntryIffTracked' /\ BelowTopNested'
BY DEF EntryIffTracked, BelowTopNested, Top, Lookup

LEMMA AccountHalfUnchanged ==
  ASSUME InFlightWanted, ReportsAreInnermostSlowCalls,
         UNCHANGED <<ret, done, buf, out, lost>>
  PROVE  InFlightWanted' /\ ReportsAreInnermostSlowCalls'
BY DEF InFlightWanted, WantedWitness, ReportsAreInnermostSlowCalls,
       WantedCount, InFlight

\* trace_entry of t: the entry stored for t is that of its new innermost
\* call, and the entries of the other threads are left alone.
LEMMA CallEntry ==
  ASSUME IInv, NEW t \in Threads, NEW f \in Funcs, TraceEntry(t, f)
  PROVE  /\ Lookup(t)' # {} <=> EntryStored(t)
         /\ \A u \in Threads \ {t} : Lookup(u)' = Lookup(u)
<1> DEFINE e == [used |-> TRUE, key |-> t, id |-> f, start |-> clock]
<1>1. slot \in [Slots -> Entry]
  BY DEF IInv, TypeInv, TypeOK
<1>2. ASSUME NEW s \in Slots, slot' = [slot EXCEPT ![s] = e],
             ~slot[s].used \/ slot[s].key = t
      PROVE  /\ Lookup(t)' # {}
             /\ \A u \in Threads \ {t} : Lookup(u)' = Lookup(u)
  <2>1. s \in Lookup(t)'
    BY <1>1, <1>2 DEF Lookup
  <2>2. ASSUME NEW u \in Threads \ {t} PROVE Lookup(u)' = Lookup(u)
    BY <1>1, <1>2 DEF Lookup
  <2>. QED  BY <2>1, <2>2
<1>3. CASE Filtered(t) /\ UNCHANGED slot
  <2>1. Lookup(t) = {}
    BY <1>3 DEF IInv, FilteredHaveNoEntry, Lookup
  <2>. QED  BY <1>3, <2>1 DEF EntryStored, Lookup
<1>4. CASE ~Filtered(t) /\ \E s \in Lookup(t) : slot' = [slot EXCEPT ![s] = e]
  <2>1. PICK s \in Lookup(t) : slot' = [slot EXCEPT ![s] = e]
    BY <1>4
  <2>2. s \in Slots /\ slot[s].key = t
    BY DEF Lookup
  <2>. QED  BY <1>4, <2>1, <2>2, <1>2 DEF EntryStored
<1>5. CASE ~Filtered(t) /\ Lookup(t) = {} /\ \E s \in FreeSlots : slot' = [slot EXCEPT ![s] = e]
  <2>1. PICK s \in FreeSlots : slot' = [slot EXCEPT ![s] = e]
    BY <1>5
  <2>2. s \in Slots /\ ~slot[s].used
    BY DEF FreeSlots
  <2>. QED  BY <1>5, <2>1, <2>2, <1>2 DEF EntryStored, FreeSlots
<1>6. CASE ~Filtered(t) /\ Lookup(t) = {} /\ FreeSlots = {} /\ UNCHANGED slot
  BY <1>6 DEF EntryStored, Lookup
<1>. QED  BY <1>3, <1>4, <1>5, <1>6 DEF TraceEntry

\* Call(t, f) keeps the entry half: the new innermost frame is tracked
\* exactly when trace_entry stored its entry, and the frames below it are
\* now nested.
LEMMA CallEntryHalf ==
  ASSUME AInv, NEW t \in Threads, NEW f \in Funcs, Call(t, f)
  PROVE  EntryIffTracked' /\ BelowTopNested'
<1>1. calls \in [Threads -> Seq(Frame)]
  BY DEF AInv, IInv, TypeInv, TypeOK
<1>2. /\ Lookup(t)' # {} <=> EntryStored(t)
      /\ \A u \in Threads \ {t} : Lookup(u)' = Lookup(u)
  BY CallEntry DEF AInv, Call
<1> DEFINE fr == [fn |-> f, start |-> clock, nested |-> FALSE,
                  tracked |-> EntryStored(t)]
<1>3. calls'[t] = Append(Mark(calls[t]), fr)
  BY <1>1 DEF Call, Mark
<1>4. /\ Len(calls'[t]) = Len(calls[t]) + 1
      /\ Top(t)' = fr
      /\ \A i \in 1 .. Len(calls[t]) : calls'[t][i].nested
  BY <1>1, <1>3 DEF Mark, Top
<1>5. \A u \in Threads \ {t} : calls'[u] = calls[u]
  BY <1>1 DEF Call
<1>6. EntryIffTracked'
  <2> SUFFICES ASSUME NEW u \in Threads
               PROVE  Lookup(u)' # {} <=> calls'[u] # <<>> /\ Top(u)'.tracked /\ ~Top(u)'.nested
    BY DEF EntryIffTracked
  <2>1. CASE u = t
    <3>1. calls'[t] # <<>>
      BY <1>1, <1>3
    <3>. QED  BY <2>1, <3>1, <1>2, <1>4
  <2>2. CASE u # t
    BY <2>2, <1>2, <1>5 DEF AInv, EntryIffTracked, Top
  <2>. QED  BY <2>1, <2>2
<1>7. BelowTopNested'
  <2> SUFFICES ASSUME NEW u \in Threads, NEW i \in 1 .. Len(calls'[u]) - 1
               PROVE  calls'[u][i].nested
    BY DEF BelowTopNested
  <2>1. CASE u = t
    BY <2>1, <1>4
  <2>2. CASE u # t
    BY <2>2, <1>5 DEF AInv, BelowTopNested
  <2>. QED  BY <2>1, <2>2
<1>. QED  BY <1>6, <1>7

LEMMA CallAInv ==
  ASSUME AInv, NEW t \in Threads, NEW f \in Funcs, Call(t, f)
  PROVE  AInv'
<1>1. IInv'
  BY NextIInv DEF AInv, Next
<1>2. InFlightWanted' /\ ReportsAreInnermostSlowCalls'
  BY AccountHalfUnchanged DEF AInv, Call
<1>. QED  BY <1>1, <1>2, CallEntryHalf DEF AInv

\* The returned call Return(t) appends to the history.
RetCall(t) ==
  [tid |-> t, fn |-> Top(t).fn, start |-> Top(t).start, end |-> clock,
   nested |-> Top(t).nested, tracked |-> Top(t).tracked]

\* What every case of Return(t) has in common.
LEMMA ReturnCommon ==
  ASSUME AInv, NEW t \in Threads, Return(t)
  PROVE  /\ RetCall(t) \in Done
         /\ done \in Seq(Done)
         /\ done' = Append(done, RetCall(t))
         /\ calls'[t] = SubSeq(calls[t], 1, Len(calls[t]) - 1)
         /\ \A u \in Threads \ {t} : calls'[u] = calls[u]
         /\ calls'[t] # <<>> => Top(t)'.nested
         /\ BelowTopNested'
<1>1. calls \in [Threads -> Seq(Frame)] /\ clock \in Time /\ done \in Seq(Done)
  BY DEF AInv, IInv, TypeInv, TypeOK
<1>2. calls[t] # <<>> /\ Top(t) \in Frame
  BY <1>1 DEF Return, Top
<1>3. RetCall(t) \in Done
  BY <1>1, <1>2 DEF RetCall, Done, Frame
<1>4. done' = Append(done, RetCall(t))
  BY DEF Return, RetCall, Top
<1>5. calls'[t] = SubSeq(calls[t], 1, Len(calls[t]) - 1)
      /\ \A u \in Threads \ {t} : calls'[u] = calls[u]
  BY <1>1 DEF Return
<1>6. ASSUME calls'[t] # <<>> PROVE Top(t)'.nested
  <2>1. Len(calls'[t]) = Len(calls[t]) - 1 /\ Len(calls[t]) - 1 >= 1
    BY <1>1, <1>2, <1>5, <1>6
  <2>2. Top(t)' = calls[t][Len(calls[t]) - 1]
    BY <1>1, <1>2, <1>5, <2>1 DEF Top
  <2>. QED  BY <2>1, <2>2 DEF AInv, BelowTopNested
<1>7. BelowTopNested'
  <2> SUFFICES ASSUME NEW u \in Threads, NEW i \in 1 .. Len(calls'[u]) - 1
               PROVE  calls'[u][i].nested
    BY DEF BelowTopNested
  <2>1. CASE u = t
    <3>1. i \in 1 .. Len(calls[t]) - 1 /\ calls'[t][i] = calls[t][i]
      BY <1>1, <1>2, <1>5, <2>1
    <3>. QED  BY <2>1, <3>1 DEF AInv, BelowTopNested
  <2>2. CASE u # t
    BY <2>2, <1>5 DEF AInv, BelowTopNested
  <2>. QED  BY <2>1, <2>2
<1>. QED  BY <1>1, <1>3, <1>4, <1>5, <1>6, <1>7

\* Return(t) with no entry for t: the returned call was not tracked, or a
\* traced call was entered during it, so it is not wanted.
LEMMA ReturnNoEntry ==
  ASSUME AInv, NEW t \in Threads, Return(t), Lookup(t) = {},
         UNCHANGED <<slot, ret>>
  PROVE  AInv'
<1>1. /\ RetCall(t) \in Done /\ done \in Seq(Done)
      /\ done' = Append(done, RetCall(t))
      /\ \A u \in Threads \ {t} : calls'[u] = calls[u]
      /\ calls'[t] # <<>> => Top(t)'.nested
  BY ReturnCommon
<1>2. ~Wanted(RetCall(t))
  BY DEF AInv, EntryIffTracked, Return, Wanted, RetCall
<1>3. WantedCount' = WantedCount /\ InFlight' = InFlight
  BY <1>1, <1>2, WantedCountAppend, WantedCountIs
<1>4. \A u, x : WantedWitness(u, x) => WantedWitness(u, x)'
  BY <1>1, WitnessAppend, WantedCountIs
<1>5. EntryIffTracked'
  <2> SUFFICES ASSUME NEW u \in Threads
               PROVE  Lookup(u)' # {} <=> calls'[u] # <<>> /\ Top(u)'.tracked /\ ~Top(u)'.nested
    BY DEF EntryIffTracked
  <2>1. CASE u = t
    BY <2>1, <1>1 DEF Return, Lookup
  <2>2. CASE u # t
    BY <2>2, <1>1 DEF AInv, EntryIffTracked, Top, Lookup, Return
  <2>. QED  BY <2>1, <2>2
<1>6. BelowTopNested'
  BY ReturnCommon
<1>7. InFlightWanted'
  BY <1>4 DEF AInv, InFlightWanted
<1>8. ReportsAreInnermostSlowCalls'
  <2>1. \A r \in Reported : WantedWitness(r.tid, r.dur)
    BY ReportsIs DEF AInv
  <2>2. UNCHANGED <<buf, out, lost>>
    BY DEF Return
  <2>3. \A r \in Reported' : WantedWitness(r.tid, r.dur)'
    BY <1>4, <2>1, <2>2 DEF Reported
  <2>. QED  BY <1>3, <2>2, <2>3, ReportsIs DEF AInv
<1>9. IInv'
  BY NextIInv DEF AInv, Next
<1>. QED  BY <1>5, <1>6, <1>7, <1>8, <1>9 DEF AInv

\* Return(t) deleting the entry s of t: the returned call is the tracked
\* innermost call the entry was stored for, its duration is delta_ns, and it
\* is wanted exactly when the threshold test lets trace_return go on.
LEMMA ReturnEntryFacts ==
  ASSUME AInv, NEW t \in Threads, Return(t), NEW s \in Lookup(t),
         slot' = [slot EXCEPT ![s].used = FALSE]
  PROVE  /\ RetCall(t).end - RetCall(t).start = clock - slot[s].start
         /\ Wanted(RetCall(t)) <=> ~(clock - slot[s].start < DURATION_NS)
         /\ \A u \in Threads : Lookup(u)' = IF u = t THEN {} ELSE Lookup(u)
<1>1. slot \in [Slots -> Entry] /\ s \in Slots /\ slot[s].used /\ slot[s].key = t
  BY DEF AInv, IInv, TypeInv, TypeOK, Lookup
<1>2. Top(t).start = slot[s].start /\ Top(t).tracked /\ ~Top(t).nested
  BY <1>1 DEF AInv, IInv, EntryIsInnermostCall, EntryIffTracked, Top
<1>3. Lookup(t) = {s}
  BY <1>1 DEF AInv, IInv, EntryIsInnermostCall, Lookup
<1>4. \A u \in Threads : Lookup(u)' = IF u = t THEN {} ELSE Lookup(u)
  BY <1>1, <1>3 DEF Lookup
<1>5. /\ RetCall(t).start = slot[s].start /\ RetCall(t).end = clock
      /\ RetCall(t).tracked /\ ~RetCall(t).nested
  BY <1>2 DEF RetCall
<1>6. clock \in Time /\ slot[s].start \in Time
  BY <1>1 DEF AInv, IInv, TypeInv, TypeOK, Entry
<1>7. RetCall(t).end - RetCall(t).start = clock - slot[s].start
  BY <1>5
<1>8. Wanted(RetCall(t)) <=> ~(clock - slot[s].start < DURATION_NS)
  BY <1>5, <1>6, <1>7, DurationAssumption DEF Wanted, Time
<1>. QED  BY <1>4, <1>7, <1>8

\* A call faster than DURATION_NS: deleted, nothing reported.
LEMMA ReturnFast ==
  ASSUME AInv, NEW t \in Threads, Return(t), NEW s \in Lookup(t),
         slot' = [slot EXCEPT ![s].used = FALSE],
         clock - slot[s].start < DURATION_NS, UNCHANGED ret
  PROVE  AInv'
<1>1. /\ RetCall(t) \in Done /\ done \in Seq(Done)
      /\ done' = Append(done, RetCall(t))
      /\ \A u \in Threads \ {t} : calls'[u] = calls[u]
      /\ calls'[t] # <<>> => Top(t)'.nested
  BY ReturnCommon
<1>2. ~Wanted(RetCall(t)) /\ \A u \in Threads : Lookup(u)' = IF u = t THEN {} ELSE Lookup(u)
  BY ReturnEntryFacts
<1>3. WantedCount' = WantedCount /\ InFlight' = InFlight
  BY <1>1, <1>2, WantedCountAppend, WantedCountIs
<1>4. \A u, x : WantedWitness(u, x) => WantedWitness(u, x)'
  BY <1>1, WitnessAppend, WantedCountIs
<1>5. EntryIffTracked'
  <2> SUFFICES ASSUME NEW u \in Threads
               PROVE  Lookup(u)' # {} <=> calls'[u] # <<>> /\ Top(u)'.tracked /\ ~Top(u)'.nested
    BY DEF EntryIffTracked
  <2>1. CASE u = t
    BY <2>1, <1>1, <1>2
  <2>2. CASE u # t
    BY <2>2, <1>1, <1>2 DEF AInv, EntryIffTracked, Top
  <2>. QED  BY <2>1, <2>2
<1>6. BelowTopNested'
  BY ReturnCommon
<1>7. InFlightWanted'
  BY <1>4 DEF AInv, InFlightWanted
<1>8. ReportsAreInnermostSlowCalls'
  <2>1. \A r \in Reported : WantedWitness(r.tid, r.dur)
    BY ReportsIs DEF AInv
  <2>2. UNCHANGED <<buf, out, lost>>
    BY DEF Return
  <2>3. \A r \in Reported' : WantedWitness(r.tid, r.dur)'
    BY <1>4, <2>1, <2>2 DEF Reported
  <2>. QED  BY <1>3, <2>2, <2>3, ReportsIs DEF AInv
<1>9. IInv'
  BY NextIInv DEF AInv, Next
<1>. QED  BY <1>5, <1>6, <1>7, <1>8, <1>9 DEF AInv

\* A slow call: deleted, and trace_return goes on to its perf_submit with
\* the call's duration; the return in flight is the new wanted call.
LEMMA ReturnSlow ==
  ASSUME AInv, NEW t \in Threads, Return(t), NEW s \in Lookup(t),
         slot' = [slot EXCEPT ![s].used = FALSE],
         ~(clock - slot[s].start < DURATION_NS),
         ret' = [ret EXCEPT ![t] = [slot |-> s, delta |-> clock - slot[s].start]]
  PROVE  AInv'
<1>1. /\ RetCall(t) \in Done /\ done \in Seq(Done)
      /\ done' = Append(done, RetCall(t))
      /\ \A u \in Threads \ {t} : calls'[u] = calls[u]
      /\ calls'[t] # <<>> => Top(t)'.nested
  BY ReturnCommon
<1>2. /\ Wanted(RetCall(t))
      /\ RetCall(t).end - RetCall(t).start = clock - slot[s].start
      /\ \A u \in Threads : Lookup(u)' = IF u = t THEN {} ELSE Lookup(u)
  BY ReturnEntryFacts
<1>3. ret \in [Threads -> RetState] /\ ret[t].slot = 0 /\ s \in Slots
  BY DEF AInv, IInv, TypeInv, TypeOK, Return, Lookup
<1>4. ret'[t].slot # 0 /\ \A u \in Threads \ {t} : ret'[u] = ret[u]
  BY <1>3 DEF Slots
<1>5. WantedCount' = WantedCount + 1 /\ InFlight' = InFlight + 1
  BY <1>1, <1>2, <1>3, <1>4, WantedCountAppend, WantedCountIs, InFlightAdd
<1>6. \A u, x : WantedWitness(u, x) => WantedWitness(u, x)'
  BY <1>1, WitnessAppend, WantedCountIs
<1>7. WitnessIn(done', t, clock - slot[s].start)
  <2>1. RetCall(t).tid = t
    BY DEF RetCall
  <2>2. WitnessIn(done', RetCall(t).tid, RetCall(t).end - RetCall(t).start)
    BY <1>1, <1>2, WitnessLast
  <2>. QED  BY <1>2, <2>1, <2>2
<1>8. EntryIffTracked'
  <2> SUFFICES ASSUME NEW u \in Threads
               PROVE  Lookup(u)' # {} <=> calls'[u] # <<>> /\ Top(u)'.tracked /\ ~Top(u)'.nested
    BY DEF EntryIffTracked
  <2>1. CASE u = t
    BY <2>1, <1>1, <1>2
  <2>2. CASE u # t
    BY <2>2, <1>1, <1>2 DEF AInv, EntryIffTracked, Top
  <2>. QED  BY <2>1, <2>2
<1>9. BelowTopNested'
  BY ReturnCommon
<1>10. InFlightWanted'
  <2> SUFFICES ASSUME NEW u \in Threads, ret'[u].slot # 0
               PROVE  WantedWitness(u, ret[u].delta)'
    BY DEF InFlightWanted
  <2>1. CASE u = t
    <3>1. ret'[t].delta = clock - slot[s].start
      BY <1>3
    <3>. QED  BY <2>1, <3>1, <1>7, WantedCountIs
  <2>2. CASE u # t
    BY <2>2, <1>4, <1>6 DEF AInv, InFlightWanted
  <2>. QED  BY <2>1, <2>2
<1>11. ReportsAreInnermostSlowCalls'
  <2>1. \A r \in Reported : WantedWitness(r.tid, r.dur)
    BY ReportsIs DEF AInv
  <2>2. UNCHANGED <<buf, out, lost>>
    BY DEF Return
  <2>3. \A r \in Reported' : WantedWitness(r.tid, r.dur)'
    BY <1>6, <2>1, <2>2 DEF Reported
  <2>4. Len(out) + Len(buf) + InFlight + lost = WantedCount
    BY ReportsIs DEF AInv
  <2>5. /\ InFlight \in Nat /\ WantedCount \in Nat /\ lost \in Nat
        /\ Len(out) \in Nat /\ Len(buf) \in Nat
    <3>1. InFlight \in Nat
      BY InFlightType, WantedCountIs
    <3>2. WantedCount \in Nat
      BY <1>1, WantedCountType, WantedCountIs
    <3>3. lost \in Nat /\ out \in Seq(Record) /\ buf \in Seq(Record)
      BY DEF AInv, IInv, TypeInv, TypeOK
    <3>. QED  BY <3>1, <3>2, <3>3
  <2>6. Len(out') + Len(buf') + InFlight' + lost' = WantedCount'
    BY <1>5, <2>2, <2>4, <2>5
  <2>. QED  BY <2>3, <2>6, ReportsIs
<1>12. IInv'
  BY NextIInv DEF AInv, Next
<1>. QED  BY <1>8, <1>9, <1>10, <1>11, <1>12 DEF AInv

LEMMA ReturnAInv ==
  ASSUME AInv, NEW t \in Threads, Return(t)
  PROVE  AInv'
<1>1. CASE Lookup(t) = {} /\ UNCHANGED <<slot, ret>>
  BY <1>1, ReturnNoEntry
<1>2. CASE \E s \in Lookup(t) :
             /\ slot' = [slot EXCEPT ![s].used = FALSE]
             /\ ret' = IF clock - slot[s].start < DURATION_NS THEN ret
                       ELSE [ret EXCEPT ![t] = [slot |-> s, delta |-> clock - slot[s].start]]
  <2>1. PICK s \in Lookup(t) :
             /\ slot' = [slot EXCEPT ![s].used = FALSE]
             /\ ret' = IF clock - slot[s].start < DURATION_NS THEN ret
                       ELSE [ret EXCEPT ![t] = [slot |-> s, delta |-> clock - slot[s].start]]
    BY <1>2
  <2>2. CASE clock - slot[s].start < DURATION_NS
    BY <2>1, <2>2, ReturnFast
  <2>3. CASE ~(clock - slot[s].start < DURATION_NS)
    BY <2>1, <2>3, ReturnSlow
  <2>. QED  BY <2>2, <2>3
<1>. QED  BY <1>1, <1>2 DEF Return

\* The rest of trace_return: the record it writes, or counts as lost, has
\* the duration of the wanted call its return in flight stood for.
LEMMA ReturnEmitAInv ==
  ASSUME AInv, NEW t \in Threads, ReturnEmit(t)
  PROVE  AInv'
<1> DEFINE r == [tid |-> t, id |-> slot[ret[t].slot].id,
                 start |-> slot[ret[t].slot].start, dur |-> ret[t].delta]
<1>1. /\ ret \in [Threads -> RetState] /\ lost \in Nat
      /\ out \in Seq(Record) /\ buf \in Seq(Record) /\ done \in Seq(Done)
  BY DEF AInv, IInv, TypeInv, TypeOK
<1>2. /\ ret[t].slot # 0 /\ ret'[t].slot = 0
      /\ \A u \in Threads \ {t} : ret'[u] = ret[u]
  BY <1>1 DEF ReturnEmit, Idle
<1>3. InFlight' = InFlight - 1 /\ WantedCount' = WantedCount
  BY <1>2, InFlightRemove, WantedCountIs DEF ReturnEmit
<1>4. \A u, x : WantedWitness(u, x)' = WantedWitness(u, x)
  BY DEF ReturnEmit, WantedWitness
<1>5. WantedWitness(r.tid, r.dur)
  BY <1>2 DEF AInv, InFlightWanted
<1>6. InFlightWanted'
  <2> SUFFICES ASSUME NEW u \in Threads, ret'[u].slot # 0
               PROVE  WantedWitness(u, ret[u].delta)'
    BY DEF InFlightWanted
  <2>1. u # t /\ ret'[u] = ret[u]
    BY <1>2
  <2>. QED  BY <2>1, <1>4 DEF AInv, InFlightWanted
<1>7. InFlight \in Nat /\ Len(out) \in Nat /\ Len(buf) \in Nat
  <2>1. InFlight \in Nat
    BY InFlightType, WantedCountIs
  <2>. QED  BY <1>1, <2>1
<1>8. Len(out) + Len(buf) + InFlight + lost = WantedCount
  BY ReportsIs DEF AInv
<1>9. \A x \in Reported : WantedWitness(x.tid, x.dur)
  BY ReportsIs DEF AInv
<1>10. ASSUME buf' = Append(buf, r), UNCHANGED lost
       PROVE  ReportsAreInnermostSlowCalls'
  <2>1. Reported' = Reported \cup {r}
    <3>1. out' = out
      BY DEF ReturnEmit
    <3>2. r \in Record
      <4>1. ret[t] \in RetState /\ slot \in [Slots -> Entry]
        BY <1>1 DEF AInv, IInv, TypeInv, TypeOK
      <4>2. ret[t].slot \in Slots
        BY <1>2, <4>1 DEF RetState
      <4>. QED  BY <4>1, <4>2 DEF Record, RetState, Entry
    <3>3. {buf'[i] : i \in DOMAIN buf'} = {buf[i] : i \in DOMAIN buf} \cup {r}
      <4>1. PICK e \in Record : e = r
        BY <3>2
      <4>2. buf' = Append(buf, e)
        BY <1>10, <4>1
      <4>3. {Append(buf, e)[i] : i \in DOMAIN Append(buf, e)}
              = {buf[i] : i \in DOMAIN buf} \cup {e}
        BY <1>1, AppendRange
      <4>. QED  BY <4>1, <4>2, <4>3
    <3>. QED  BY <3>1, <3>3 DEF Reported
  <2>2. \A x \in Reported' : WantedWitness(x.tid, x.dur)'
    BY <2>1, <1>4, <1>5, <1>9
  <2>3. Len(out') + Len(buf') + InFlight' + lost' = WantedCount'
    BY <1>1, <1>3, <1>7, <1>8, <1>10 DEF ReturnEmit
  <2>. QED  BY <2>2, <2>3, ReportsIs
<1>11. ASSUME lost' = lost + 1, UNCHANGED buf
       PROVE  ReportsAreInnermostSlowCalls'
  <2>1. Reported' = Reported
    BY <1>11 DEF ReturnEmit, Reported
  <2>2. \A x \in Reported' : WantedWitness(x.tid, x.dur)'
    BY <2>1, <1>4, <1>9
  <2>3. Len(out') + Len(buf') + InFlight' + lost' = WantedCount'
    BY <1>1, <1>3, <1>7, <1>8, <1>11 DEF ReturnEmit
  <2>. QED  BY <2>2, <2>3, ReportsIs
<1>12. ReportsAreInnermostSlowCalls'
  BY <1>10, <1>11 DEF ReturnEmit
<1>13. EntryIffTracked' /\ BelowTopNested'
  BY EntryHalfUnchanged DEF AInv, ReturnEmit
<1>14. IInv'
  BY NextIInv DEF AInv, Next
<1>. QED  BY <1>6, <1>12, <1>13, <1>14 DEF AInv

\* print_event prints the oldest buffered record: nothing is reported that
\* was not buffered, and nothing is lost on the way.
LEMMA PollAInv ==
  ASSUME AInv, Poll
  PROVE  AInv'
<1>1. /\ out \in Seq(Record) /\ buf \in Seq(Record) /\ buf # <<>>
      /\ lost \in Nat /\ done \in Seq(Done)
  BY DEF AInv, IInv, TypeInv, TypeOK, Poll
<1>2. Reported' \subseteq Reported
  <2>1. \A i \in DOMAIN Tail(buf) : Tail(buf)[i] = buf[i + 1] /\ i + 1 \in DOMAIN buf
    BY <1>1
  <2>2. \A i \in DOMAIN Append(out, Head(buf)) :
          Append(out, Head(buf))[i] \in Reported
    BY <1>1 DEF Reported
  <2>. QED  BY <2>1, <2>2 DEF Poll, Reported
<1>3. Len(out') = Len(out) + 1 /\ Len(buf') = Len(buf) - 1
  BY <1>1 DEF Poll
<1>4. InFlight' = InFlight /\ WantedCount' = WantedCount
      /\ \A u, x : WantedWitness(u, x)' = WantedWitness(u, x)
  BY DEF Poll, InFlight, WantedCount, WantedWitness
<1>5. InFlight \in Nat /\ Len(out) \in Nat /\ Len(buf) \in Nat
  <2>1. InFlight \in Nat
    BY InFlightType, WantedCountIs
  <2>. QED  BY <1>1, <2>1
<1>6. ReportsAreInnermostSlowCalls'
  <2>1. \A x \in Reported' : WantedWitness(x.tid, x.dur)'
    BY <1>2, <1>4, ReportsIs DEF AInv
  <2>2. Len(out) + Len(buf) + InFlight + lost = WantedCount
    BY ReportsIs DEF AInv
  <2>3. Len(out') + Len(buf') + InFlight' + lost' = WantedCount'
    BY <1>1, <1>3, <1>4, <1>5, <2>2 DEF Poll
  <2>. QED  BY <2>1, <2>3, ReportsIs
<1>7. InFlightWanted'
  BY <1>4 DEF AInv, InFlightWanted, Poll
<1>8. EntryIffTracked' /\ BelowTopNested'
  BY EntryHalfUnchanged DEF AInv, Poll
<1>9. IInv'
  BY NextIInv DEF AInv, Next
<1>. QED  BY <1>6, <1>7, <1>8, <1>9 DEF AInv

\* Time passing, the end of the bounds and stuttering change nothing AInv
\* is about but the clock.
LEMMA ClockOnlyAInv ==
  ASSUME AInv, UNCHANGED <<slot, ret, buf, lost, out, calls, done>>,
         IInv'
  PROVE  AInv'
BY EntryHalfUnchanged, AccountHalfUnchanged DEF AInv

LEMMA InitAInv == Init => AInv
<1> SUFFICES ASSUME Init PROVE AInv
  OBVIOUS
<1>1. IInv
  BY InitIInv
<1>2. \A t \in Threads : Lookup(t) = {} /\ calls[t] = <<>>
  BY DEF Init, Lookup
<1>3. EntryIffTracked /\ BelowTopNested
  BY <1>2 DEF EntryIffTracked, BelowTopNested
<1>4. InFlightWanted
  BY DEF Init, InFlightWanted, Idle
<1>5. {i \in DOMAIN done : Wanted(done[i])} = {}
      /\ {t \in Threads : ret[t].slot # 0} = {}
  BY DEF Init, Idle
<1>6. WantedCount = 0 /\ InFlight = 0
  BY <1>5, FS_EmptySet DEF WantedCount, InFlight
<1>7. ReportsAreInnermostSlowCalls
  BY <1>6 DEF Init, ReportsAreInnermostSlowCalls
<1>. QED  BY <1>1, <1>3, <1>4, <1>7 DEF AInv

LEMMA NextAInv == AInv /\ [Next]_vars => AInv'
<1> SUFFICES ASSUME AInv, [Next]_vars PROVE AInv'
  OBVIOUS
<1>1. IInv'
  BY NextIInv DEF AInv
<1>2. CASE \E t \in Threads, f \in Funcs : Call(t, f)
  BY <1>2, CallAInv
<1>3. CASE \E t \in Threads : Return(t)
  BY <1>3, ReturnAInv
<1>4. CASE \E t \in Threads : ReturnEmit(t)
  BY <1>4, ReturnEmitAInv
<1>5. CASE Poll
  BY <1>5, PollAInv
<1>6. CASE Tick \/ BoundReached \/ UNCHANGED vars
  BY <1>1, <1>6, ClockOnlyAInv DEF Tick, BoundReached, vars
<1>. QED  BY <1>2, <1>3, <1>4, <1>5, <1>6 DEF Next

-----------------------------------------------------------------------------
\* Every record funcslower prints or buffers is the duration of a returned
\* call of its thread that was tracked by trace_entry, had no traced call
\* entered during it and passed trace_return's threshold test; and the
\* records printed, buffered, between trace_return's delete and its
\* perf_submit, or lost in the full ring, are exactly as many as such calls.
THEOREM InnermostSlowCallsReported == Spec => []ReportsAreInnermostSlowCalls
<1>1. AInv => ReportsAreInnermostSlowCalls
  BY DEF AInv
<1>. QED  BY <1>1, InitAInv, NextAInv, PTL DEF Spec

-----------------------------------------------------------------------------
(***************************************************************************)
(* The action property SlowReturnGoesOn.                                   *)
(***************************************************************************)

\* A step that neither ends a call nor starts a return in flight.
LEMMA NoReturnStep ==
  ASSUME ret \in [Threads -> RetState],
         UNCHANGED done,
         \A u \in Threads : ret'[u].slot # 0 => ret'[u] = ret[u]
  PROVE  SlowReturnStep
BY DEF SlowReturnStep

LEMMA ReturnStepOK ==
  ASSUME AInv, NEW t \in Threads, Return(t)
  PROVE  SlowReturnStep
<1>1. /\ RetCall(t) \in Done /\ done \in Seq(Done)
      /\ done' = Append(done, RetCall(t))
  BY ReturnCommon
<1>2. /\ Len(done') = Len(done) + 1 /\ done'[Len(done')] = RetCall(t)
      /\ RetCall(t).tid = t
  BY <1>1 DEF RetCall
<1>3. ret \in [Threads -> RetState] /\ ret[t].slot = 0
  BY DEF AInv, IInv, TypeInv, TypeOK, Return
<1>4. ASSUME UNCHANGED ret, ~Wanted(RetCall(t))
      PROVE  SlowReturnStep
  BY <1>2, <1>4 DEF SlowReturnStep
<1>5. CASE Lookup(t) = {} /\ UNCHANGED <<slot, ret>>
  <2>1. ~Wanted(RetCall(t))
    BY <1>5 DEF AInv, EntryIffTracked, Return, Wanted, RetCall
  <2>. QED  BY <1>4, <1>5, <2>1
<1>6. CASE \E s \in Lookup(t) :
             /\ slot' = [slot EXCEPT ![s].used = FALSE]
             /\ ret' = IF clock - slot[s].start < DURATION_NS THEN ret
                       ELSE [ret EXCEPT ![t] = [slot |-> s, delta |-> clock - slot[s].start]]
  <2>1. PICK s \in Lookup(t) :
             /\ slot' = [slot EXCEPT ![s].used = FALSE]
             /\ ret' = IF clock - slot[s].start < DURATION_NS THEN ret
                       ELSE [ret EXCEPT ![t] = [slot |-> s, delta |-> clock - slot[s].start]]
    BY <1>6
  <2>2. /\ RetCall(t).end - RetCall(t).start = clock - slot[s].start
        /\ Wanted(RetCall(t)) <=> ~(clock - slot[s].start < DURATION_NS)
    BY <2>1, ReturnEntryFacts
  <2>3. CASE clock - slot[s].start < DURATION_NS
    BY <2>1, <2>2, <2>3, <1>4
  <2>4. CASE ~(clock - slot[s].start < DURATION_NS)
    <3>1. s \in Slots /\ s # 0
      BY DEF Lookup, Slots
    <3>2. /\ ret'[t] = [slot |-> s, delta |-> clock - slot[s].start]
          /\ \A u \in Threads \ {t} : ret'[u] = ret[u]
      BY <2>1, <2>4, <1>3
    <3>. QED  BY <1>2, <1>3, <2>2, <2>4, <3>1, <3>2 DEF SlowReturnStep
  <2>. QED  BY <2>3, <2>4
<1>. QED  BY <1>5, <1>6 DEF Return

\* trace_return hands perf_submit exactly the wanted calls, with their
\* durations: the threshold test on the start_ns of entryinfo agrees with
\* the call the thread really returned from.
THEOREM SlowReturnsGoOn == Spec => SlowReturnGoesOn
<1>1. AInv /\ [Next]_vars => [SlowReturnStep]_vars
  <2> SUFFICES ASSUME AInv, [Next]_vars PROVE [SlowReturnStep]_vars
    OBVIOUS
  <2>0. ret \in [Threads -> RetState]
    BY DEF AInv, IInv, TypeInv, TypeOK
  <2>1. CASE \E t \in Threads, f \in Funcs : Call(t, f)
    BY <2>0, <2>1, NoReturnStep DEF Call
  <2>2. CASE \E t \in Threads : Return(t)
    BY <2>2, ReturnStepOK
  <2>3. CASE \E t \in Threads : ReturnEmit(t)
    <3>1. PICK t \in Threads : ReturnEmit(t)
      BY <2>3
    <3>2. \A u \in Threads : ret'[u].slot # 0 => ret'[u] = ret[u]
      BY <2>0, <3>1 DEF ReturnEmit, Idle
    <3>. QED  BY <2>0, <3>1, <3>2, NoReturnStep DEF ReturnEmit
  <2>4. CASE Poll \/ Tick \/ BoundReached
    BY <2>0, <2>4, NoReturnStep DEF Poll, Tick, BoundReached, vars
  <2>5. CASE UNCHANGED vars
    BY <2>5
  <2>. QED  BY <2>1, <2>2, <2>3, <2>4, <2>5 DEF Next
<1>2. Spec => []AInv
  BY InitAInv, NextAInv, PTL DEF Spec
<1>. QED  BY <1>1, <1>2, PTL DEF Spec, SlowReturnGoesOn
=============================================================================
